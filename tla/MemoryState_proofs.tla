------------------------- MODULE MemoryState_proofs -------------------------
(***************************************************************************)
(* Proofs about MemoryState, for any addresses, sizes, values and numbers   *)
(* of events.                                                               *)
(***************************************************************************)
EXTENDS MemoryState, SequenceTheorems, WellFoundedInduction, TLAPS

-----------------------------------------------------------------------------
(***************************************************************************)
(* Sequences of bytes.                                                      *)
(***************************************************************************)
\* A function on 1..n is a sequence.
LEMMA FunctionIsSeq ==
  ASSUME NEW n \in Nat, NEW S, NEW f \in [1..n -> S]
  PROVE  f \in Seq(S) /\ Len(f) = n /\ DOMAIN f = 1..n
OBVIOUS

LEMMA SliceFacts ==
  ASSUME NEW S, NEW seq \in Seq(S), NEW offset \in Nat, NEW n \in Nat, offset + n <= Len(seq)
  PROVE  /\ Slice(seq, offset, n) \in Seq(S) /\ Len(Slice(seq, offset, n)) = n
         /\ \A i \in 1..n : Slice(seq, offset, n)[i] = seq[offset + i]
<1>1. \A i \in (offset + 1)..(offset + n) : seq[i] \in S
  OBVIOUS
<1> DEFINE m == offset + 1
           k == offset + n
<1>2. m \in Int /\ k \in Int /\ k - m + 1 = n /\ (\A i \in Int : m + i - 1 = offset + i)
      /\ (IF m <= k THEN k - m + 1 ELSE 0) = n
  OBVIOUS
<1>3. \A i \in m..k : seq[i] \in S
  BY <1>1
<1> HIDE DEF m, k
<1>4. /\ SubSeq(seq, m, k) \in Seq(S) /\ Len(SubSeq(seq, m, k)) = IF m <= k THEN k - m + 1 ELSE 0
      /\ \A i \in 1..(k - m + 1) : SubSeq(seq, m, k)[i] = seq[m + i - 1]
  BY <1>2, <1>3, SubSeqProperties
<1>5. Slice(seq, offset, n) = SubSeq(seq, m, k)
  BY DEF Slice, m, k
<1> QED
  BY <1>2, <1>4, <1>5

LEMMA FillFacts ==
  ASSUME NEW S, NEW seq \in Seq(S), NEW offset \in Nat, NEW part \in Seq(S)
  PROVE  /\ Fill(seq, offset, part) \in Seq(S) /\ Len(Fill(seq, offset, part)) = Len(seq)
         /\ \A i \in 1..Len(seq) :
              Fill(seq, offset, part)[i] = IF i - offset \in 1..Len(part) THEN part[i - offset] ELSE seq[i]
<1>1. Fill(seq, offset, part)
        = [i \in 1..Len(seq) |-> IF i - offset \in 1..Len(part) THEN part[i - offset] ELSE seq[i]]
  BY DEF Fill
<1>2. Fill(seq, offset, part) \in [1..Len(seq) -> S]
  BY <1>1
<1> QED
  BY <1>1, <1>2, FunctionIsSeq

\* What was pushed to a vector is popped again.
LEMMA Popped ==
  ASSUME NEW S, NEW s \in Seq(S), NEW part \in Seq(S), NEW n, n = Len(part)
  PROVE  /\ s \o part \in Seq(S) /\ Len(s \o part) >= n
         /\ DropLast(s \o part, n) = s /\ LastPart(s \o part, n) = part
<1>1. /\ Len(s) \in Nat /\ n \in Nat /\ s \o part \in Seq(S) /\ Len(s \o part) = Len(s) + n
      /\ \A i \in 1..Len(s) : (s \o part)[i] = s[i]
      /\ \A i \in 1..n : (s \o part)[Len(s) + i] = part[i]
  OBVIOUS
<1>2. DropLast(s \o part, n) = Slice(s \o part, 0, Len(s))
  BY <1>1 DEF DropLast, Slice
<1>3. LastPart(s \o part, n) = Slice(s \o part, Len(s), n)
  BY <1>1 DEF LastPart, Slice
<1> DEFINE c == s \o part
           k == Len(s)
<1>4. Slice(c, 0, k) = s
  <2>1. c \in Seq(S) /\ k \in Nat /\ 0 \in Nat /\ 0 + k <= Len(c) /\ \A i \in 1..k : c[0 + i] = s[i]
    BY <1>1
  <2> HIDE DEF c
  <2>2. /\ Slice(c, 0, k) \in Seq(S) /\ Len(Slice(c, 0, k)) = k
        /\ \A i \in 1..k : Slice(c, 0, k)[i] = c[0 + i]
    BY <2>1, SliceFacts
  <2> QED
    BY <2>1, <2>2, SeqEqual
<1>5. Slice(c, k, n) = part
  <2>1. c \in Seq(S) /\ k \in Nat /\ n \in Nat /\ k + n <= Len(c) /\ \A i \in 1..n : c[k + i] = part[i]
    BY <1>1
  <2> HIDE DEF c, k
  <2>2. ASSUME NEW m \in Nat, k + m <= Len(c)
        PROVE  /\ Slice(c, k, m) \in Seq(S) /\ Len(Slice(c, k, m)) = m
               /\ \A i \in 1..m : Slice(c, k, m)[i] = c[k + i]
    BY <2>1, <2>2, SliceFacts
  <2> DEFINE d == Slice(c, k, n)
  <2>3. d \in Seq(S) /\ Len(d) = Len(part) /\ \A i \in 1..Len(d) : d[i] = part[i]
    BY <2>1, <2>2
  <2> HIDE DEF d
  <2>4. d = part
    BY <2>3, SeqEqual
  <2> QED
    BY <2>4 DEF d
<1> QED
  BY <1>1, <1>2, <1>3, <1>4, <1>5

\* A sequence that differs from another in an area only is made equal to it
\* by writing that area of the other one.
LEMMA FilledBack ==
  ASSUME NEW S, NEW seq \in Seq(S), NEW x \in Seq(S), Len(x) = Len(seq),
         NEW offset \in Nat, NEW n \in Nat, offset + n <= Len(seq),
         \A i \in 1..Len(seq) : i - offset \notin 1..n => x[i] = seq[i]
  PROVE  Fill(x, offset, Slice(seq, offset, n)) = seq
<1> DEFINE old == Slice(seq, offset, n)
           g == Fill(x, offset, old)
<1>1. old \in Seq(S) /\ Len(old) = n /\ \A i \in 1..n : old[i] = seq[offset + i]
  BY SliceFacts
<1> HIDE DEF old
<1>2. g \in Seq(S) /\ Len(g) = Len(seq)
      /\ \A i \in 1..Len(seq) : g[i] = IF i - offset \in 1..n THEN old[i - offset] ELSE x[i]
  BY <1>1, FillFacts
<1> HIDE DEF g
<1>3. ASSUME NEW i \in 1..Len(seq) PROVE g[i] = seq[i]
  <2>1. CASE i - offset \in 1..n
    <3>1. old[i - offset] = seq[offset + (i - offset)]
      BY <1>1, <2>1
    <3>2. offset + (i - offset) = i
      OBVIOUS
    <3> QED
      BY <1>2, <2>1, <3>1, <3>2
  <2>2. CASE i - offset \notin 1..n
    BY <1>2, <2>2
  <2> QED
    BY <2>1, <2>2
<1>4. g = seq
  BY <1>2, <1>3, SeqEqual
<1> QED
  BY <1>4 DEF g, old

LEMMA ResizedFacts ==
  ASSUME NEW S, NEW seq \in Seq(S), NEW n \in Nat, 0 \in S
  PROVE  /\ Resized(seq, n) \in Seq(S) /\ Len(Resized(seq, n)) = n
         /\ \A i \in 1..n : Resized(seq, n)[i] = IF i <= Len(seq) THEN seq[i] ELSE 0
<1>1. Resized(seq, n) \in [1..n -> S]
  BY DEF Resized
<1>2. \A i \in 1..n : Resized(seq, n)[i] = IF i <= Len(seq) THEN seq[i] ELSE 0
  BY DEF Resized
<1> HIDE DEF Resized
<1> QED
  BY <1>1, <1>2, FunctionIsSeq

-----------------------------------------------------------------------------
(***************************************************************************)
(* Single allocations.                                                      *)
(***************************************************************************)
Byte == Values \cup {0}
Bit  == {0, Complete}
Type == {"Uninitialized", "Partial", "Complete"}

\* Data and initialization have the same length.
Formed(al) == al \in Allocation /\ Len(al.Init) = Len(al.Data)

(***************************************************************************)
(* Allocations that cannot be told apart, now or after anything is taken    *)
(* back: they may differ in the data of bytes that are not initialized.     *)
(***************************************************************************)
Same(x, y) ==
  /\ x.Address = y.Address /\ x.Init = y.Init
  /\ x.PreviousType = y.PreviousType
  /\ x.PreviousInit = y.PreviousInit /\ x.PreviousData = y.PreviousData
  /\ Len(x.Data) = Len(y.Data)
  /\ \A i \in 1..Len(x.Data) : x.Init[i] = Complete => x.Data[i] = y.Data[i]

\* How clearArea describes the area it saves, and the initialization that
\* rewindArea restores.
SavedInit(al, a, n) == Slice(al.Init, a - al.Address, n)
SavedType(al, a, n) ==
  IF SavedInit(al, a, n) = Zeros(n) THEN "Uninitialized"
  ELSE IF SavedInit(al, a, n) = Ones(n) THEN "Complete" ELSE "Partial"

RestoredInit(al, n) ==
  CASE Last(al.PreviousType) = "Uninitialized" -> Zeros(n)
    [] Last(al.PreviousType) = "Partial"       -> LastPart(al.PreviousInit, n)
    [] Last(al.PreviousType) = "Complete"      -> Ones(n)

LEMMA AllocationFields ==
  ASSUME NEW al \in Allocation
  PROVE  /\ al.Address \in Nat /\ al.Data \in Seq(Byte) /\ al.Init \in Seq(Bit)
         /\ al.PreviousType \in Seq(Type)
         /\ al.PreviousData \in Seq(Byte) /\ al.PreviousInit \in Seq(Bit)
BY DEF Allocation, Byte, Bit, Type

LEMMA ClearFields ==
  ASSUME NEW al \in Allocation, NEW a, NEW n
  PROVE  LET c    == clearArea(al, a, n)
             type == SavedType(al, a, n)
         IN  /\ c.Address = al.Address /\ c.Data = al.Data
             /\ c.PreviousType = Append(al.PreviousType, type)
             /\ c.PreviousInit = IF type = "Partial"
                                 THEN al.PreviousInit \o SavedInit(al, a, n)
                                 ELSE al.PreviousInit
             /\ c.PreviousData = IF type # "Uninitialized"
                                 THEN al.PreviousData \o Slice(al.Data, a - al.Address, n)
                                 ELSE al.PreviousData
             /\ c.Init = Fill(al.Init, a - al.Address, Zeros(n))
BY DEF clearArea, SavedType, SavedInit, Allocation

LEMMA RewindFields ==
  ASSUME NEW al \in Allocation, NEW a, NEW n
  PROVE  LET y    == rewindArea(al, a, n)
             type == Last(al.PreviousType)
         IN  /\ y.Address = al.Address
             /\ y.PreviousType = Front(al.PreviousType)
             /\ y.PreviousInit = IF type = "Partial" THEN DropLast(al.PreviousInit, n)
                                 ELSE al.PreviousInit
             /\ y.PreviousData = IF type # "Uninitialized" THEN DropLast(al.PreviousData, n)
                                 ELSE al.PreviousData
             /\ y.Init = Fill(al.Init, a - al.Address, RestoredInit(al, n))
             /\ y.Data = IF type # "Uninitialized"
                         THEN Fill(al.Data, a - al.Address, LastPart(al.PreviousData, n))
                         ELSE al.Data
BY DEF rewindArea, RestoredInit, Allocation

(***************************************************************************)
(* x is al after its area was saved: the bytes outside are as they were.    *)
(***************************************************************************)
HasSaved(x, al, a, n) ==
  /\ x.Address = al.Address
  /\ Len(x.Data) = Len(al.Data)
  /\ x.PreviousType = Append(al.PreviousType, SavedType(al, a, n))
  /\ x.PreviousInit = IF SavedType(al, a, n) = "Partial"
                      THEN al.PreviousInit \o SavedInit(al, a, n) ELSE al.PreviousInit
  /\ x.PreviousData = IF SavedType(al, a, n) # "Uninitialized"
                      THEN al.PreviousData \o Slice(al.Data, a - al.Address, n)
                      ELSE al.PreviousData
  /\ \A i \in 1..Len(al.Data) : i - (a - al.Address) \notin 1..n =>
       x.Init[i] = al.Init[i] /\ x.Data[i] = al.Data[i]

LEMMA Constant ==
  ASSUME NEW n \in Nat
  PROVE  /\ Zeros(n) \in Seq(Bit) /\ Len(Zeros(n)) = n /\ \A i \in 1..n : Zeros(n)[i] = 0
         /\ Ones(n) \in Seq(Bit) /\ Len(Ones(n)) = n /\ \A i \in 1..n : Ones(n)[i] = Complete
<1>1. Zeros(n) \in [1..n -> Bit] /\ \A i \in 1..n : Zeros(n)[i] = 0
  BY DEF Zeros, Bit
<1>2. Ones(n) \in [1..n -> Bit] /\ \A i \in 1..n : Ones(n)[i] = Complete
  BY DEF Ones, Bit
<1> HIDE DEF Zeros, Ones
<1> QED
  BY <1>1, <1>2, FunctionIsSeq

\* The end of a vector.
LEMMA LastPartFacts ==
  ASSUME NEW S, NEW s \in Seq(S), NEW n \in Nat, n <= Len(s)
  PROVE  /\ LastPart(s, n) \in Seq(S) /\ Len(LastPart(s, n)) = n
         /\ DropLast(s, n) \in Seq(S) /\ Len(DropLast(s, n)) = Len(s) - n
<1> DEFINE k == Len(s) - n
<1>1. k \in Nat /\ 0 \in Nat /\ k + n = Len(s) /\ k + 1 = Len(s) - n + 1 /\ 0 + 1 = 1 /\ 0 + k = k
      /\ k + n <= Len(s) /\ 0 + k <= Len(s)
  OBVIOUS
<1> HIDE DEF k
<1>2. LastPart(s, n) = Slice(s, k, n) /\ DropLast(s, n) = Slice(s, 0, k)
  BY <1>1 DEF LastPart, DropLast, Slice, k
<1>3. Slice(s, k, n) \in Seq(S) /\ Len(Slice(s, k, n)) = n
  BY <1>1, SliceFacts
<1>4. Slice(s, 0, k) \in Seq(S) /\ Len(Slice(s, 0, k)) = k
  BY <1>1, SliceFacts
<1> QED
  BY <1>2, <1>3, <1>4 DEF k

LEMMA FrontFacts ==
  ASSUME NEW S, NEW s \in Seq(S), s # <<>>
  PROVE  /\ Front(s) \in Seq(S) /\ Len(Front(s)) = Len(s) - 1 /\ Len(s) \in Nat \ {0}
         /\ Last(s) = s[Len(s)] /\ Last(s) \in S
         /\ \A i \in 1..(Len(s) - 1) : Front(s)[i] = s[i]
<1>1. Len(s) \in Nat \ {0}
  OBVIOUS
<1>2. s[Len(s)] \in S
  BY <1>1
<1>3. Front(s) \in Seq(S) /\ Len(Front(s)) = Len(s) - 1
      /\ \A i \in 1..(Len(s) - 1) : Front(s)[i] = s[i]
  <2>1. \A i \in 1..(Len(s) - 1) : s[i] \in S
    BY <1>1
  <2> DEFINE n == Len(s) - 1
  <2>a. n \in Nat
    BY <1>1
  <2>3. Front(s) = SubSeq(s, 1, n)
    BY DEF Front
  <2>4. \A i \in 1..n : s[i] \in S
    BY <2>1
  <2> HIDE DEF n
  <2>2. n \in Nat /\ 1 \in Int /\ n \in Int /\ n - 1 + 1 = n /\ (IF 1 <= n THEN n - 1 + 1 ELSE 0) = n
        /\ \A i \in 1..n : 1 + i - 1 = i
    BY <2>a
  <2>5. /\ SubSeq(s, 1, n) \in Seq(S) /\ Len(SubSeq(s, 1, n)) = IF 1 <= n THEN n - 1 + 1 ELSE 0
        /\ \A i \in 1..(n - 1 + 1) : SubSeq(s, 1, n)[i] = s[1 + i - 1]
    BY <2>2, <2>4, SubSeqProperties
  <2> QED
    BY <2>2, <2>3, <2>5 DEF n
<1> QED
  BY <1>1, <1>2, <1>3 DEF Last

LEMMA FrontOfAppend ==
  ASSUME NEW S, NEW s \in Seq(S), NEW e \in S
  PROVE  /\ Append(s, e) \in Seq(S) /\ Append(s, e) # <<>> /\ Len(Append(s, e)) = Len(s) + 1
         /\ Front(Append(s, e)) = s /\ Last(Append(s, e)) = e
         /\ \A i \in 1..Len(s) : Append(s, e)[i] = s[i]
         /\ Append(s, e)[Len(s) + 1] = e
<1> DEFINE t == Append(s, e)
<1>1. /\ t \in Seq(S) /\ t # <<>> /\ Len(t) = Len(s) + 1 /\ Len(s) \in Nat
      /\ \A i \in 1..Len(s) : t[i] = s[i]
      /\ t[Len(s) + 1] = e
  OBVIOUS
<1> HIDE DEF t
<1>2. /\ Front(t) \in Seq(S) /\ Len(Front(t)) = Len(t) - 1
      /\ Last(t) = t[Len(t)]
      /\ \A i \in 1..(Len(t) - 1) : Front(t)[i] = t[i]
  BY <1>1, FrontFacts
<1>3. Len(Front(t)) = Len(s) /\ \A i \in 1..Len(Front(t)) : Front(t)[i] = s[i]
  BY <1>1, <1>2
<1>4. Front(t) = s
  BY <1>2, <1>3, SeqEqual
<1>5. Last(t) = e
  BY <1>1, <1>2
<1> QED
  BY <1>1, <1>4, <1>5 DEF t
\* An area that was saved can be restored, and restoring it undoes what
\* happened to it.
LEMMA SavedIsRestored ==
  ASSUME NEW al, Formed(al), NEW x, Formed(x), NEW a \in Nat, NEW n \in Nat,
         Covers(al, a, n), HasSaved(x, al, a, n)
  PROVE  CanRewind(x, a, n) /\ Same(rewindArea(x, a, n), al)
<1> DEFINE o == a - al.Address
           type == SavedType(al, a, n)
           init == SavedInit(al, a, n)
           data == Slice(al.Data, o, n)
           y == rewindArea(x, a, n)
<1>1. al \in Allocation /\ x \in Allocation /\ Len(al.Init) = Len(al.Data)
      /\ Len(x.Init) = Len(x.Data) /\ Len(x.Data) = Len(al.Data) /\ x.Address = al.Address
  BY DEF Formed, HasSaved
<1>2. /\ al.Address \in Nat /\ al.Data \in Seq(Byte) /\ al.Init \in Seq(Bit)
      /\ al.PreviousType \in Seq(Type)
      /\ al.PreviousData \in Seq(Byte) /\ al.PreviousInit \in Seq(Bit)
  BY <1>1, AllocationFields
<1>3. /\ x.Address \in Nat /\ x.Data \in Seq(Byte) /\ x.Init \in Seq(Bit)
      /\ x.PreviousType \in Seq(Type)
      /\ x.PreviousData \in Seq(Byte) /\ x.PreviousInit \in Seq(Bit)
  BY <1>1, AllocationFields
<1>4. o \in Nat /\ o + n <= Len(al.Data) /\ o + n <= Len(al.Init)
  <2>1. Len(al.Data) \in Nat /\ Len(al.Init) = Len(al.Data)
    BY <1>1, <1>2
  <2>2. al.Address <= a /\ a + n <= al.Address + Len(al.Data)
    BY DEF Covers, Size
  <2> DEFINE c == al.Address
             d == Len(al.Data)
  <2>3. c \in Nat /\ d \in Nat /\ c <= a /\ a + n <= c + d
    BY <1>2, <2>1, <2>2
  <2> HIDE DEF c, d
  <2>4. a - c \in Nat /\ (a - c) + n <= d
    BY ONLY <2>3, a \in Nat, n \in Nat
  <2> QED
    BY <2>1, <2>4 DEF c, d
<1>5. /\ x.PreviousType = Append(al.PreviousType, type)
      /\ x.PreviousInit = IF type = "Partial" THEN al.PreviousInit \o init ELSE al.PreviousInit
      /\ x.PreviousData = IF type # "Uninitialized" THEN al.PreviousData \o data
                          ELSE al.PreviousData
      /\ \A i \in 1..Len(al.Data) : i - o \notin 1..n =>
           x.Init[i] = al.Init[i] /\ x.Data[i] = al.Data[i]
  BY DEF HasSaved
<1>6. type \in Type /\ (type = "Uninitialized" <=> init = Zeros(n))
      /\ (type = "Complete" => init = Ones(n))
  BY DEF SavedType, Type
<1>7. init = Slice(al.Init, o, n)
  BY DEF SavedInit
<1>8. LET t == Last(x.PreviousType)
      IN  /\ y.Address = x.Address
          /\ y.PreviousType = Front(x.PreviousType)
          /\ y.PreviousInit = IF t = "Partial" THEN DropLast(x.PreviousInit, n)
                              ELSE x.PreviousInit
          /\ y.PreviousData = IF t # "Uninitialized" THEN DropLast(x.PreviousData, n)
                              ELSE x.PreviousData
          /\ y.Init = Fill(x.Init, o, RestoredInit(x, n))
          /\ y.Data = IF t # "Uninitialized" THEN Fill(x.Data, o, LastPart(x.PreviousData, n))
                      ELSE x.Data
  BY <1>1, RewindFields
<1>a. Covers(x, a, n)
  BY <1>1 DEF Covers, Size
<1> HIDE DEF o, type, init, data, y
<1>9. init \in Seq(Bit) /\ Len(init) = n /\ \A i \in 1..n : init[i] = al.Init[o + i]
  <2> DEFINE s == al.Init
  <2>0. s \in Seq(Bit) /\ o + n <= Len(s)
    BY <1>2, <1>4
  <2> HIDE DEF s
  <2>1. /\ Slice(s, o, n) \in Seq(Bit) /\ Len(Slice(s, o, n)) = n
        /\ \A i \in 1..n : Slice(s, o, n)[i] = s[o + i]
    BY <1>4, <2>0, SliceFacts
  <2> QED
    BY <1>7, <2>1 DEF s
<1>10. data \in Seq(Byte) /\ Len(data) = n
  <2>1. Slice(al.Data, o, n) \in Seq(Byte) /\ Len(Slice(al.Data, o, n)) = n
    BY <1>2, <1>4, SliceFacts
  <2> QED
    BY <2>1 DEF data
<1>11. x.PreviousType # <<>> /\ Last(x.PreviousType) = type
       /\ Front(x.PreviousType) = al.PreviousType
  <2> DEFINE s == al.PreviousType
  <2>1. s \in Seq(Type) /\ type \in Type /\ x.PreviousType = Append(s, type)
    BY <1>2, <1>5, <1>6
  <2> HIDE DEF s
  <2>2. Append(s, type) # <<>> /\ Front(Append(s, type)) = s /\ Last(Append(s, type)) = type
    BY <2>1, FrontOfAppend
  <2> QED
    BY <2>1, <2>2 DEF s
<1>12. type = "Partial" => /\ Len(x.PreviousInit) >= n
                           /\ DropLast(x.PreviousInit, n) = al.PreviousInit
                           /\ LastPart(x.PreviousInit, n) = init
  <2>1. /\ Len(al.PreviousInit \o init) >= n
        /\ DropLast(al.PreviousInit \o init, n) = al.PreviousInit
        /\ LastPart(al.PreviousInit \o init, n) = init
    BY <1>2, <1>9, Popped
  <2> QED
    BY <1>5, <2>1
<1>13. type # "Uninitialized" => /\ Len(x.PreviousData) >= n
                                 /\ DropLast(x.PreviousData, n) = al.PreviousData
                                 /\ LastPart(x.PreviousData, n) = data
  BY <1>2, <1>5, <1>10, Popped
<1>14. RestoredInit(x, n) = init
  BY <1>6, <1>11, <1>12 DEF RestoredInit, Type
<1>15. y.Init = al.Init
  <2> DEFINE s == al.Init
             u == x.Init
  <2>0. /\ s \in Seq(Bit) /\ u \in Seq(Bit) /\ Len(u) = Len(s)
        /\ o \in Nat /\ n \in Nat /\ o + n <= Len(s)
        /\ \A i \in 1..Len(s) : i - o \notin 1..n => u[i] = s[i]
    BY <1>1, <1>2, <1>3, <1>4, <1>5
  <2> HIDE DEF s, u
  <2>1. Fill(u, o, Slice(s, o, n)) = s
    BY <2>0, FilledBack
  <2> USE DEF s, u
  <2> QED
    BY <1>7, <1>8, <1>14, <2>1
<1>16. type # "Uninitialized" => y.Data = al.Data
  <2> DEFINE s == al.Data
             u == x.Data
  <2>0. /\ s \in Seq(Byte) /\ u \in Seq(Byte) /\ Len(u) = Len(s)
        /\ o \in Nat /\ n \in Nat /\ o + n <= Len(s)
        /\ \A i \in 1..Len(s) : i - o \notin 1..n => u[i] = s[i]
    BY <1>1, <1>2, <1>3, <1>4, <1>5
  <2> HIDE DEF s, u
  <2>1. Fill(u, o, Slice(s, o, n)) = s
    BY <2>0, FilledBack
  <2> USE DEF s, u
  <2> QED
    BY <1>8, <1>11, <1>13, <2>1 DEF data
<1>17. ASSUME type = "Uninitialized", NEW i \in 1..Len(al.Data), al.Init[i] = Complete
       PROVE  y.Data[i] = al.Data[i]
  <2>1. y.Data = x.Data
    BY <1>8, <1>11, <1>17
  <2>2. i - o \notin 1..n
    <3> SUFFICES ASSUME i - o \in 1..n PROVE FALSE
      OBVIOUS
    <3>1. init[i - o] = al.Init[o + (i - o)]
      BY <1>9
    <3>2. o + (i - o) = i
      BY <1>2, <1>4
    <3>3. Zeros(n)[i - o] = 0
      BY Constant
    <3> QED
      BY <1>6, <1>17, <3>1, <3>2, <3>3 DEF Complete
  <2> QED
    BY <1>5, <2>1, <2>2
<1>18. Len(y.Data) = Len(al.Data)
  BY <1>1, <1>8, <1>11, <1>16
<1>19. Same(y, al)
  BY <1>1, <1>5, <1>6, <1>8, <1>11, <1>12, <1>13, <1>15, <1>16, <1>17, <1>18 DEF Same
<1>20. CanRewind(x, a, n)
  BY <1>a, <1>11, <1>12, <1>13 DEF CanRewind
<1> QED
  BY <1>19, <1>20 DEF y

\* What rewindArea leaves is an allocation of the same place and size.
LEMMA RewindFormed ==
  ASSUME NEW x, Formed(x), NEW a \in Nat, NEW n \in Nat, CanRewind(x, a, n)
  PROVE  /\ Formed(rewindArea(x, a, n)) /\ rewindArea(x, a, n).Address = x.Address
         /\ Len(rewindArea(x, a, n).Data) = Len(x.Data)
         /\ RestoredInit(x, n) \in Seq(Bit) /\ Len(RestoredInit(x, n)) = n
<1> DEFINE o == a - x.Address
           y == rewindArea(x, a, n)
           t == Last(x.PreviousType)
<1>1. x \in Allocation /\ Len(x.Init) = Len(x.Data)
  BY DEF Formed
<1>2. /\ x.Address \in Nat /\ x.Data \in Seq(Byte) /\ x.Init \in Seq(Bit)
      /\ x.PreviousType \in Seq(Type)
      /\ x.PreviousData \in Seq(Byte) /\ x.PreviousInit \in Seq(Bit)
  BY <1>1, AllocationFields
<1>3. o \in Nat /\ x.PreviousType # <<>> /\ (t = "Partial" => n <= Len(x.PreviousInit))
      /\ (t # "Uninitialized" => n <= Len(x.PreviousData))
  BY <1>2 DEF CanRewind, Covers
<1>4. /\ y.Address = x.Address
      /\ y.PreviousType = Front(x.PreviousType)
      /\ y.PreviousInit = IF t = "Partial" THEN DropLast(x.PreviousInit, n)
                          ELSE x.PreviousInit
      /\ y.PreviousData = IF t # "Uninitialized" THEN DropLast(x.PreviousData, n)
                          ELSE x.PreviousData
      /\ y.Init = Fill(x.Init, o, RestoredInit(x, n))
      /\ y.Data = IF t # "Uninitialized" THEN Fill(x.Data, o, LastPart(x.PreviousData, n))
                  ELSE x.Data
  BY <1>1, RewindFields
<1>5. y = [x EXCEPT !.PreviousType = y.PreviousType, !.PreviousInit = y.PreviousInit,
                    !.PreviousData = y.PreviousData, !.Init = y.Init, !.Data = y.Data]
  BY <1>1, <1>4 DEF rewindArea, Allocation, RestoredInit
<1>6. t \in Type
  BY <1>2, <1>3, FrontFacts
<1>7. Front(x.PreviousType) \in Seq(Type)
  BY <1>2, <1>3, FrontFacts
<1> HIDE DEF o, y
<1>8. y.PreviousInit \in Seq(Bit)
  BY <1>2, <1>3, <1>4, LastPartFacts
<1>9. y.PreviousData \in Seq(Byte)
  BY <1>2, <1>3, <1>4, LastPartFacts
<1>10. RestoredInit(x, n) \in Seq(Bit) /\ Len(RestoredInit(x, n)) = n
  <2>1. /\ Zeros(n) \in Seq(Bit) /\ Len(Zeros(n)) = n
        /\ Ones(n) \in Seq(Bit) /\ Len(Ones(n)) = n
    BY Constant
  <2>2. t = "Partial" => /\ LastPart(x.PreviousInit, n) \in Seq(Bit)
                         /\ Len(LastPart(x.PreviousInit, n)) = n
    <3> DEFINE s == x.PreviousInit
    <3>1. s \in Seq(Bit) /\ (t = "Partial" => n <= Len(s))
      BY <1>2, <1>3
    <3> HIDE DEF s, t
    <3>2. t = "Partial" => LastPart(s, n) \in Seq(Bit) /\ Len(LastPart(s, n)) = n
      BY <3>1, LastPartFacts
    <3> QED
      BY <3>2 DEF s
  <2>3. /\ t = "Uninitialized" => RestoredInit(x, n) = Zeros(n)
        /\ t = "Partial" => RestoredInit(x, n) = LastPart(x.PreviousInit, n)
        /\ t = "Complete" => RestoredInit(x, n) = Ones(n)
    BY DEF RestoredInit
  <2> QED
    BY <1>6, <2>1, <2>2, <2>3 DEF Type
<1>11. y.Init \in Seq(Bit) /\ Len(y.Init) = Len(x.Init)
  BY <1>2, <1>3, <1>4, <1>10, FillFacts
<1>12. y.Data \in Seq(Byte) /\ Len(y.Data) = Len(x.Data)
  <2>1. CASE t # "Uninitialized"
    <3> DEFINE part == LastPart(x.PreviousData, n)
    <3>1. part \in Seq(Byte)
      BY <1>2, <1>3, <2>1, LastPartFacts
    <3> HIDE DEF part
    <3>2. Fill(x.Data, o, part) \in Seq(Byte) /\ Len(Fill(x.Data, o, part)) = Len(x.Data)
      BY <1>2, <1>3, <3>1, FillFacts
    <3> QED
      BY <1>4, <2>1, <3>2 DEF part
  <2> QED
    BY <1>2, <1>4, <2>1
<1>13. y \in Allocation
  BY <1>1, <1>4, <1>5, <1>7, <1>8, <1>9, <1>11, <1>12 DEF Allocation, Byte, Bit, Type
<1> QED
  BY <1>1, <1>4, <1>10, <1>11, <1>12, <1>13 DEF Formed, y

\* rewindArea does not tell allocations apart that are the same.
LEMMA SameRewind ==
  ASSUME NEW x, Formed(x), NEW y, Formed(y), Same(x, y),
         NEW a \in Nat, NEW n \in Nat, CanRewind(x, a, n)
  PROVE  CanRewind(y, a, n) /\ Same(rewindArea(x, a, n), rewindArea(y, a, n))
<1> DEFINE o == a - x.Address
           t == Last(x.PreviousType)
           u == rewindArea(x, a, n)
           v == rewindArea(y, a, n)
<1>1. x \in Allocation /\ Len(x.Init) = Len(x.Data) /\ y \in Allocation /\ Len(y.Init) = Len(y.Data)
  BY DEF Formed
<1>2. /\ x.Address = y.Address /\ x.Init = y.Init
      /\ x.PreviousType = y.PreviousType
      /\ x.PreviousInit = y.PreviousInit /\ x.PreviousData = y.PreviousData
      /\ Len(x.Data) = Len(y.Data)
      /\ \A i \in 1..Len(x.Data) : x.Init[i] = Complete => x.Data[i] = y.Data[i]
  BY DEF Same
<1>3. CanRewind(y, a, n)
  BY <1>2 DEF CanRewind, Covers, Size
<1>4. RestoredInit(x, n) = RestoredInit(y, n)
  BY <1>2 DEF RestoredInit
<1>5. /\ u.Address = x.Address
      /\ u.PreviousType = Front(x.PreviousType)
      /\ u.PreviousInit = IF t = "Partial" THEN DropLast(x.PreviousInit, n)
                          ELSE x.PreviousInit
      /\ u.PreviousData = IF t # "Uninitialized" THEN DropLast(x.PreviousData, n)
                          ELSE x.PreviousData
      /\ u.Init = Fill(x.Init, o, RestoredInit(x, n))
      /\ u.Data = IF t # "Uninitialized" THEN Fill(x.Data, o, LastPart(x.PreviousData, n))
                  ELSE x.Data
  BY <1>1, RewindFields
<1>6. /\ v.Address = x.Address
      /\ v.PreviousType = Front(x.PreviousType)
      /\ v.PreviousInit = IF t = "Partial" THEN DropLast(x.PreviousInit, n)
                          ELSE x.PreviousInit
      /\ v.PreviousData = IF t # "Uninitialized" THEN DropLast(x.PreviousData, n)
                          ELSE x.PreviousData
      /\ v.Init = Fill(x.Init, o, RestoredInit(x, n))
      /\ v.Data = IF t # "Uninitialized" THEN Fill(y.Data, o, LastPart(x.PreviousData, n))
                  ELSE y.Data
  BY <1>1, <1>2, <1>4, RewindFields
<1>7. /\ x.Address \in Nat /\ x.Data \in Seq(Byte) /\ x.Init \in Seq(Bit)
      /\ x.PreviousType \in Seq(Type) /\ y.Data \in Seq(Byte)
      /\ x.PreviousData \in Seq(Byte) /\ x.PreviousInit \in Seq(Bit)
  BY <1>1, AllocationFields
<1>8. o \in Nat /\ (t # "Uninitialized" => n <= Len(x.PreviousData))
  BY <1>7 DEF CanRewind, Covers
<1>9. Len(u.Data) = Len(x.Data) /\ Len(v.Data) = Len(x.Data)
      /\ RestoredInit(x, n) \in Seq(Bit) /\ Len(RestoredInit(x, n)) = n
  BY <1>2, <1>3, RewindFormed
<1>10. t = "Uninitialized" => RestoredInit(x, n) = Zeros(n)
  BY DEF RestoredInit
<1> DEFINE init == RestoredInit(x, n)
           xi == x.Init
           xd == x.Data
           yd == y.Data
           part == LastPart(x.PreviousData, n)
<1>11. t # "Uninitialized" => part \in Seq(Byte) /\ Len(part) = n
  BY <1>7, <1>8, LastPartFacts
<1>12. xi \in Seq(Bit) /\ xd \in Seq(Byte) /\ yd \in Seq(Byte)
       /\ init \in Seq(Bit) /\ Len(init) = n /\ u.Init = Fill(xi, o, init)
       /\ Len(xi) = Len(xd) /\ Len(yd) = Len(xd)
       /\ (t # "Uninitialized" => u.Data = Fill(xd, o, part) /\ v.Data = Fill(yd, o, part))
       /\ (t = "Uninitialized" => u.Data = xd /\ v.Data = yd /\ init = Zeros(n))
       /\ \A i \in 1..Len(xd) : xi[i] = Complete => xd[i] = yd[i]
  BY <1>1, <1>2, <1>5, <1>6, <1>7, <1>9, <1>10
<1> HIDE DEF o, t, u, v, init, xi, xd, yd, part
<1>13. \A i \in 1..Len(xi) : u.Init[i] = IF i - o \in 1..n THEN init[i - o] ELSE xi[i]
  <2>1. \A i \in 1..Len(xi) : Fill(xi, o, init)[i] = IF i - o \in 1..Len(init) THEN init[i - o] ELSE xi[i]
    BY <1>8, <1>12, FillFacts
  <2> QED
    BY <1>12, <2>1
<1>14. ASSUME NEW i \in 1..Len(xd), u.Init[i] = Complete
       PROVE  u.Data[i] = v.Data[i]
  <2>1. CASE t = "Uninitialized"
    <3>1. i - o \in 1..n => init[i - o] = 0
      BY <1>12, <2>1, Constant
    <3>2. i - o \notin 1..n
      BY <1>12, <1>13, <1>14, <3>1 DEF Complete
    <3>3. xi[i] = Complete
      BY <1>12, <1>13, <1>14, <3>2
    <3> QED
      BY <1>12, <2>1, <3>3
  <2>2. CASE t # "Uninitialized"
    <3>1. u.Data[i] = IF i - o \in 1..n THEN part[i - o] ELSE xd[i]
      <4>1. Fill(xd, o, part)[i] = IF i - o \in 1..Len(part) THEN part[i - o] ELSE xd[i]
        BY <1>8, <1>11, <1>12, <2>2, FillFacts
      <4> QED
        BY <1>11, <1>12, <2>2, <4>1
    <3>2. v.Data[i] = IF i - o \in 1..n THEN part[i - o] ELSE yd[i]
      <4>1. Fill(yd, o, part)[i] = IF i - o \in 1..Len(part) THEN part[i - o] ELSE yd[i]
        BY <1>8, <1>11, <1>12, <2>2, FillFacts
      <4> QED
        BY <1>11, <1>12, <2>2, <4>1
    <3> QED
      BY <1>12, <1>13, <1>14, <3>1, <3>2
  <2> QED
    BY <2>1, <2>2
<1>15. Same(u, v)
  BY <1>5, <1>6, <1>9, <1>14 DEF Same, xd
<1> QED
  BY <1>3, <1>15 DEF u, v

LEMMA ResizeFields ==
  ASSUME NEW x, Formed(x), NEW n \in Nat
  PROVE  LET y == resize(x, n)
         IN  /\ Formed(y) /\ y.Address = x.Address /\ y.PreviousType = x.PreviousType
             /\ y.PreviousInit = x.PreviousInit /\ y.PreviousData = x.PreviousData
             /\ Len(y.Data) = n
             /\ \A i \in 1..n : /\ y.Data[i] = IF i <= Len(x.Data) THEN x.Data[i] ELSE 0
                                /\ y.Init[i] = IF i <= Len(x.Data) THEN x.Init[i] ELSE 0
<1> DEFINE y == resize(x, n)
<1>1. x \in Allocation /\ Len(x.Init) = Len(x.Data)
  BY DEF Formed
<1>2. /\ y.Address = x.Address /\ y.PreviousType = x.PreviousType
      /\ y.PreviousInit = x.PreviousInit /\ y.PreviousData = x.PreviousData
      /\ y.Data = Resized(x.Data, n) /\ y.Init = Resized(x.Init, n)
      /\ y = [x EXCEPT !.Data = y.Data, !.Init = y.Init]
  BY <1>1 DEF resize, Allocation
<1>3. x.Data \in Seq(Byte) /\ x.Init \in Seq(Bit) /\ 0 \in Byte /\ 0 \in Bit
  BY <1>1, AllocationFields DEF Byte, Bit
<1>4. /\ Resized(x.Data, n) \in Seq(Byte) /\ Len(Resized(x.Data, n)) = n
      /\ \A i \in 1..n : Resized(x.Data, n)[i] = IF i <= Len(x.Data) THEN x.Data[i] ELSE 0
  <2> DEFINE s == x.Data
  <2>1. s \in Seq(Byte)
    BY <1>3
  <2> HIDE DEF s
  <2>2. /\ Resized(s, n) \in Seq(Byte) /\ Len(Resized(s, n)) = n
        /\ \A i \in 1..n : Resized(s, n)[i] = IF i <= Len(s) THEN s[i] ELSE 0
    BY <1>3, <2>1, ResizedFacts
  <2> QED
    BY <2>2 DEF s
<1>5. /\ Resized(x.Init, n) \in Seq(Bit) /\ Len(Resized(x.Init, n)) = n
      /\ \A i \in 1..n : Resized(x.Init, n)[i] = IF i <= Len(x.Init) THEN x.Init[i] ELSE 0
  <2> DEFINE s == x.Init
  <2>1. s \in Seq(Bit)
    BY <1>3
  <2> HIDE DEF s
  <2>2. /\ Resized(s, n) \in Seq(Bit) /\ Len(Resized(s, n)) = n
        /\ \A i \in 1..n : Resized(s, n)[i] = IF i <= Len(s) THEN s[i] ELSE 0
    BY <1>3, <2>1, ResizedFacts
  <2> QED
    BY <2>2 DEF s
<1> HIDE DEF y
<1>6. y.Data \in Seq(Byte) /\ y.Init \in Seq(Bit) /\ Len(y.Data) = n /\ Len(y.Init) = n
  BY <1>2, <1>4, <1>5
<1>7. y \in Allocation
  BY <1>1, <1>2, <1>6 DEF Allocation, Byte, Bit
<1> QED
  BY <1>1, <1>2, <1>4, <1>5, <1>6, <1>7 DEF Formed, y

LEMMA SameResize ==
  ASSUME NEW x, Formed(x), NEW y, Formed(y), Same(x, y), NEW n \in Nat
  PROVE  Same(resize(x, n), resize(y, n))
<1> DEFINE u == resize(x, n)
           v == resize(y, n)
<1>1. /\ Formed(u) /\ u.Address = x.Address /\ u.PreviousType = x.PreviousType
      /\ u.PreviousInit = x.PreviousInit /\ u.PreviousData = x.PreviousData
      /\ Len(u.Data) = n
      /\ \A i \in 1..n : /\ u.Data[i] = IF i <= Len(x.Data) THEN x.Data[i] ELSE 0
                         /\ u.Init[i] = IF i <= Len(x.Data) THEN x.Init[i] ELSE 0
  BY ResizeFields
<1>2. /\ Formed(v) /\ v.Address = y.Address /\ v.PreviousType = y.PreviousType
      /\ v.PreviousInit = y.PreviousInit /\ v.PreviousData = y.PreviousData
      /\ Len(v.Data) = n
      /\ \A i \in 1..n : /\ v.Data[i] = IF i <= Len(y.Data) THEN y.Data[i] ELSE 0
                         /\ v.Init[i] = IF i <= Len(y.Data) THEN y.Init[i] ELSE 0
  BY ResizeFields
<1> HIDE DEF u, v
<1>3. u.Init \in Seq(Bit) /\ v.Init \in Seq(Bit) /\ Len(u.Init) = n /\ Len(v.Init) = n
      /\ Len(x.Data) \in Nat
  BY <1>1, <1>2, AllocationFields DEF Formed
<1>4. u.Init = v.Init
  <2>1. \A i \in 1..Len(u.Init) : u.Init[i] = v.Init[i]
    BY <1>1, <1>2, <1>3 DEF Same
  <2> QED
    BY <1>3, <2>1, SeqEqual
<1>5. ASSUME NEW i \in 1..n, u.Init[i] = Complete PROVE u.Data[i] = v.Data[i]
  BY <1>1, <1>2, <1>3, <1>5 DEF Same, Complete
<1>6. Same(u, v)
  BY <1>1, <1>2, <1>4, <1>5 DEF Same
<1> QED
  BY <1>6 DEF u, v

LEMMA SameIsEquivalence ==
  ASSUME NEW x, NEW y, NEW z
  PROVE  /\ Same(x, x)
         /\ Same(x, y) => Same(y, x)
         /\ Same(x, y) /\ Same(y, z) => Same(x, z)
BY DEF Same

\* The operations that overwrite an area save it first.
LEMMA ClearSaves ==
  ASSUME NEW al, Formed(al), NEW a \in Nat, NEW n \in Nat, Covers(al, a, n)
  PROVE  /\ Formed(clearArea(al, a, n)) /\ HasSaved(clearArea(al, a, n), al, a, n)
         /\ \A i \in 1..Len(al.Data) : clearArea(al, a, n).Init[i] =
              IF i - (a - al.Address) \in 1..n THEN 0 ELSE al.Init[i]
<1> DEFINE c == clearArea(al, a, n)
           o == a - al.Address
           type == SavedType(al, a, n)
<1>1. al \in Allocation /\ Len(al.Init) = Len(al.Data)
  BY DEF Formed
<1>2. /\ al.Address \in Nat /\ al.Data \in Seq(Byte) /\ al.Init \in Seq(Bit)
      /\ al.PreviousType \in Seq(Type)
      /\ al.PreviousData \in Seq(Byte) /\ al.PreviousInit \in Seq(Bit)
  BY <1>1, AllocationFields
<1>3. /\ c.Address = al.Address /\ c.Data = al.Data
      /\ c.PreviousType = Append(al.PreviousType, type)
      /\ c.PreviousInit = IF type = "Partial" THEN al.PreviousInit \o SavedInit(al, a, n)
                          ELSE al.PreviousInit
      /\ c.PreviousData = IF type # "Uninitialized" THEN al.PreviousData \o Slice(al.Data, o, n)
                          ELSE al.PreviousData
      /\ c.Init = Fill(al.Init, o, Zeros(n))
  BY <1>1, ClearFields
<1>4. c = [al EXCEPT !.PreviousType = c.PreviousType, !.PreviousInit = c.PreviousInit,
                     !.PreviousData = c.PreviousData, !.Init = c.Init]
  BY <1>1, <1>3 DEF clearArea, Allocation, SavedType, SavedInit
<1>5. o \in Nat /\ o + n <= Len(al.Data) /\ o + n <= Len(al.Init)
  BY <1>1, <1>2 DEF Covers, Size
<1>6. type \in Type
  BY DEF SavedType, Type
<1>7. SavedInit(al, a, n) \in Seq(Bit)
  <2> DEFINE s == al.Init
  <2>1. s \in Seq(Bit) /\ o + n <= Len(s)
    BY <1>2, <1>5
  <2> HIDE DEF s, o
  <2>2. Slice(s, o, n) \in Seq(Bit)
    BY <1>5, <2>1, SliceFacts
  <2> QED
    BY <2>2 DEF s, o, SavedInit
<1> HIDE DEF c, o, type
<1>8. Slice(al.Data, o, n) \in Seq(Byte)
  <2> DEFINE s == al.Data
  <2>1. s \in Seq(Byte) /\ o + n <= Len(s)
    BY <1>2, <1>5
  <2> HIDE DEF s
  <2>2. Slice(s, o, n) \in Seq(Byte)
    BY <1>5, <2>1, SliceFacts
  <2> QED
    BY <2>2 DEF s
<1>9. /\ c.Init \in Seq(Bit) /\ Len(c.Init) = Len(al.Data)
      /\ \A i \in 1..Len(al.Data) : c.Init[i] = IF i - o \in 1..n THEN 0 ELSE al.Init[i]
  <2> DEFINE s == al.Init
             z == Zeros(n)
  <2>1. s \in Seq(Bit) /\ z \in Seq(Bit) /\ Len(z) = n /\ (\A i \in 1..n : z[i] = 0)
        /\ c.Init = Fill(s, o, z)
    BY <1>2, <1>3, Constant
  <2> HIDE DEF s, z
  <2>2. /\ Fill(s, o, z) \in Seq(Bit) /\ Len(Fill(s, o, z)) = Len(s)
        /\ \A i \in 1..Len(s) : Fill(s, o, z)[i] = IF i - o \in 1..Len(z) THEN z[i - o] ELSE s[i]
    BY <1>5, <2>1, FillFacts
  <2>3. Len(s) = Len(al.Data) /\ s = al.Init
    BY <1>1 DEF s
  <2> QED
    BY <2>1, <2>2, <2>3
<1>10. c.PreviousType \in Seq(Type)
  BY <1>2, <1>3, <1>6
<1>11. c.PreviousInit \in Seq(Bit)
  BY <1>2, <1>3, <1>7
<1>12. c.PreviousData \in Seq(Byte)
  BY <1>2, <1>3, <1>8
<1>13. c \in Allocation
  BY <1>1, <1>4, <1>9, <1>10, <1>11, <1>12 DEF Allocation, Byte, Bit, Type
<1>14. Formed(c)
  BY <1>3, <1>9, <1>13 DEF Formed
<1>15. HasSaved(c, al, a, n)
  BY <1>3, <1>9 DEF HasSaved, type, o
<1> QED
  BY <1>9, <1>14, <1>15 DEF c, o

\* x is al with n bytes of data and their initialization from a on.
IsWritten(x, al, a, n, data, init) ==
  \A i \in 1..Len(al.Data) :
    LET k == i - (a - al.Address)
    IN  /\ x.Data[i] = IF k \in 1..n THEN data[k] ELSE al.Data[i]
        /\ x.Init[i] = IF k \in 1..n THEN init[k] ELSE al.Init[i]

LEMMA AddSaves ==
  ASSUME NEW al, Formed(al), NEW a \in Nat, NEW data \in Seq(Byte), NEW init \in Seq(Bit),
         NEW n \in Nat, n = Len(data), n = Len(init), Covers(al, a, n)
  PROVE  /\ Formed(addArea(al, a, data, init))
         /\ HasSaved(addArea(al, a, data, init), al, a, n)
         /\ IsWritten(addArea(al, a, data, init), al, a, n, data, init)
<1> DEFINE c == clearArea(al, a, n)
           o == a - al.Address
           x == addArea(al, a, data, init)
<1>1. /\ Formed(c) /\ HasSaved(c, al, a, n)
      /\ \A i \in 1..Len(al.Data) : c.Init[i] = IF i - o \in 1..n THEN 0 ELSE al.Init[i]
  BY ClearSaves
<1>2. c \in Allocation /\ al \in Allocation /\ c.Data = al.Data
  <2>1. c \in Allocation /\ al \in Allocation
    BY <1>1 DEF Formed
  <2> QED
    BY <2>1, ClearFields
<1>3. c.Data \in Seq(Byte) /\ c.Init \in Seq(Bit) /\ Len(c.Init) = Len(c.Data)
      /\ Len(c.Data) = Len(al.Data) /\ al.Address \in Nat
  BY <1>1, <1>2, AllocationFields DEF Formed
<1>4. o \in Nat
  BY <1>3 DEF Covers
<1>5. /\ x.Data = Fill(c.Data, o, data) /\ x.Init = Fill(c.Init, o, init)
      /\ x.Address = c.Address /\ x.PreviousType = c.PreviousType
      /\ x.PreviousInit = c.PreviousInit /\ x.PreviousData = c.PreviousData
      /\ x = [c EXCEPT !.Data = x.Data, !.Init = x.Init]
  <2>1. x = [c EXCEPT !.Data = Fill(c.Data, o, data), !.Init = Fill(c.Init, o, init)]
    BY DEF addArea
  <2> HIDE DEF x, c
  <2> QED
    BY <1>2, <2>1 DEF Allocation
<1> HIDE DEF x, c, o
<1>6. /\ x.Data \in Seq(Byte) /\ Len(x.Data) = Len(al.Data)
      /\ \A i \in 1..Len(al.Data) : x.Data[i] = IF i - o \in 1..n THEN data[i - o] ELSE al.Data[i]
  <2> DEFINE s == c.Data
  <2>1. Len(s) = Len(al.Data) /\ x.Data = Fill(s, o, data) /\ s = al.Data
    BY <1>2, <1>3, <1>5
  <2>a. s \in Seq(Byte)
    BY <1>3
  <2> HIDE DEF s
  <2>2. ASSUME NEW p \in Seq(Byte)
        PROVE  /\ Fill(s, o, p) \in Seq(Byte) /\ Len(Fill(s, o, p)) = Len(s)
               /\ \A i \in 1..Len(s) :
                    Fill(s, o, p)[i] = IF i - o \in 1..Len(p) THEN p[i - o] ELSE s[i]
    BY <1>4, <2>a, FillFacts
  <2> DEFINE f == Fill(s, o, data)
  <2>3. f \in Seq(Byte) /\ Len(f) = Len(s)
    BY <2>2
  <2>4. \A i \in 1..Len(s) : f[i] = IF i - o \in 1..n THEN data[i - o] ELSE s[i]
    BY <2>2
  <2> QED
    BY <2>1, <2>3, <2>4
<1>7. /\ x.Init \in Seq(Bit) /\ Len(x.Init) = Len(al.Data)
      /\ \A i \in 1..Len(al.Data) : x.Init[i] = IF i - o \in 1..n THEN init[i - o] ELSE al.Init[i]
  <2> DEFINE s == c.Init
  <2>1. s \in Seq(Bit) /\ Len(s) = Len(al.Data) /\ x.Init = Fill(s, o, init)
        /\ \A i \in 1..Len(al.Data) : i - o \notin 1..n => s[i] = al.Init[i]
    BY <1>1, <1>3, <1>5
  <2> HIDE DEF s
  <2>2. /\ Fill(s, o, init) \in Seq(Bit) /\ Len(Fill(s, o, init)) = Len(s)
        /\ \A i \in 1..Len(s) : Fill(s, o, init)[i] = IF i - o \in 1..Len(init) THEN init[i - o] ELSE s[i]
    BY <1>4, <2>1, FillFacts
  <2> QED
    BY <2>1, <2>2
<1>8. x \in Allocation
  BY <1>2, <1>5, <1>6, <1>7 DEF Allocation, Byte, Bit
<1>9. Formed(x)
  BY <1>6, <1>7, <1>8 DEF Formed
<1>10. HasSaved(x, al, a, n)
  <2>1. \A i \in 1..Len(al.Data) : i - (a - al.Address) \notin 1..n =>
          x.Init[i] = al.Init[i] /\ x.Data[i] = al.Data[i]
    BY <1>6, <1>7 DEF o
  <2> QED
    BY <1>1, <1>5, <1>6, <2>1 DEF HasSaved
<1>11. IsWritten(x, al, a, n, data, init)
  BY <1>6, <1>7 DEF IsWritten, o
<1> QED
  BY <1>9, <1>10, <1>11 DEF x

\* A shrunk allocation that has its size again still holds what it saved.
LEMMA ShrinkSaves ==
  ASSUME NEW al, Formed(al), NEW size \in Nat, size < Len(al.Data)
  PROVE  LET a == al.Address + size
             n == Len(al.Data) - size
             x == resize(clearArea(al, a, n), size)
             y == resize(x, Len(al.Data))
         IN  /\ Formed(x) /\ Len(x.Data) = size /\ x.Address = al.Address
             /\ Formed(y) /\ HasSaved(y, al, a, n) /\ Covers(al, a, n)
             /\ \A i \in 1..size : x.Data[i] = al.Data[i] /\ x.Init[i] = al.Init[i]
<1> DEFINE m == Len(al.Data)
           a == al.Address + size
           n == m - size
           c == clearArea(al, a, n)
           x == resize(c, size)
           y == resize(x, m)
<1>1. al \in Allocation /\ al.Address \in Nat /\ m \in Nat
  <2>1. al \in Allocation
    BY DEF Formed
  <2> QED
    BY <2>1, AllocationFields
<1>2. a \in Nat /\ n \in Nat /\ Covers(al, a, n) /\ a - al.Address = size /\ n = m - size
  BY <1>1 DEF Covers, Size
<1> HIDE DEF a, n
<1>3. /\ Formed(c) /\ HasSaved(c, al, a, n)
      /\ \A i \in 1..m : c.Init[i] = IF i - (a - al.Address) \in 1..n THEN 0 ELSE al.Init[i]
  BY <1>2, ClearSaves
<1>4. c.Data = al.Data
  BY <1>1, ClearFields
<1> HIDE DEF c
<1>5. /\ Formed(x) /\ x.Address = c.Address /\ x.PreviousType = c.PreviousType
      /\ x.PreviousInit = c.PreviousInit /\ x.PreviousData = c.PreviousData
      /\ Len(x.Data) = size
      /\ \A i \in 1..size : /\ x.Data[i] = IF i <= Len(c.Data) THEN c.Data[i] ELSE 0
                            /\ x.Init[i] = IF i <= Len(c.Data) THEN c.Init[i] ELSE 0
  BY <1>3, ResizeFields
<1> HIDE DEF x
<1>6. /\ Formed(y) /\ y.Address = x.Address /\ y.PreviousType = x.PreviousType
      /\ y.PreviousInit = x.PreviousInit /\ y.PreviousData = x.PreviousData
      /\ Len(y.Data) = m
      /\ \A i \in 1..m : /\ y.Data[i] = IF i <= Len(x.Data) THEN x.Data[i] ELSE 0
                         /\ y.Init[i] = IF i <= Len(x.Data) THEN x.Init[i] ELSE 0
  <2>1. Formed(x) /\ m \in Nat
    BY <1>1, <1>5
  <2> HIDE DEF m
  <2> QED
    BY <2>1, ResizeFields
<1> HIDE DEF y
<1>7. ASSUME NEW i \in 1..size
      PROVE  x.Data[i] = al.Data[i] /\ x.Init[i] = al.Init[i]
  <2>1. i \in 1..m /\ i <= m /\ i - (a - al.Address) \notin 1..n
    BY <1>1, <1>2
  <2> QED
    BY <1>3, <1>4, <1>5, <2>1
<1>8. ASSUME NEW i \in 1..m, i - (a - al.Address) \notin 1..n
      PROVE  y.Init[i] = al.Init[i] /\ y.Data[i] = al.Data[i]
  <2>1. i \in 1..size /\ i <= size
    BY <1>1, <1>2, <1>8
  <2> QED
    BY <1>5, <1>6, <1>7, <2>1
<1>9. HasSaved(y, al, a, n)
  BY <1>3, <1>5, <1>6, <1>8 DEF HasSaved, m
<1>10. x.Address = al.Address
  BY <1>3, <1>5 DEF HasSaved
<1> QED
  BY <1>2, <1>5, <1>6, <1>7, <1>9, <1>10 DEF a, n, c, x, y, m

LEMMA GrownIsCut ==
  ASSUME NEW al, Formed(al), NEW size \in Nat, Len(al.Data) <= size
  PROVE  Same(resize(resize(al, size), Len(al.Data)), al)
<1> DEFINE m == Len(al.Data)
           x == resize(al, size)
           y == resize(x, m)
<1>1. al \in Allocation /\ m \in Nat /\ al.Init \in Seq(Bit) /\ Len(al.Init) = m
  <2>1. al \in Allocation
    BY DEF Formed
  <2> QED
    BY <2>1, AllocationFields DEF Formed
<1>2. /\ Formed(x) /\ x.Address = al.Address /\ x.PreviousType = al.PreviousType
      /\ x.PreviousInit = al.PreviousInit /\ x.PreviousData = al.PreviousData
      /\ Len(x.Data) = size
      /\ \A i \in 1..size : /\ x.Data[i] = IF i <= m THEN al.Data[i] ELSE 0
                            /\ x.Init[i] = IF i <= m THEN al.Init[i] ELSE 0
  BY ResizeFields
<1> HIDE DEF x
<1>3. /\ Formed(y) /\ y.Address = x.Address /\ y.PreviousType = x.PreviousType
      /\ y.PreviousInit = x.PreviousInit /\ y.PreviousData = x.PreviousData
      /\ Len(y.Data) = m
      /\ \A i \in 1..m : /\ y.Data[i] = IF i <= Len(x.Data) THEN x.Data[i] ELSE 0
                         /\ y.Init[i] = IF i <= Len(x.Data) THEN x.Init[i] ELSE 0
  BY <1>1, <1>2, ResizeFields
<1> HIDE DEF y
<1>4. ASSUME NEW i \in 1..m PROVE y.Data[i] = al.Data[i] /\ y.Init[i] = al.Init[i]
  <2>1. i \in 1..size /\ i <= size /\ i <= m
    BY <1>1
  <2> QED
    BY <1>2, <1>3, <2>1
<1>5. y.Init \in Seq(Bit) /\ Len(y.Init) = m
  BY <1>3, AllocationFields DEF Formed
<1>6. y.Init = al.Init
  BY <1>1, <1>4, <1>5, SeqEqual
<1>7. Same(y, al)
  BY <1>2, <1>3, <1>4, <1>6 DEF Same, m
<1> QED
  BY <1>7 DEF x, y, m

-----------------------------------------------------------------------------
(***************************************************************************)
(* The memory: A are the current allocations and P the removed ones.        *)
(***************************************************************************)
Well(A, P) ==
  /\ DOMAIN A \subseteq Addresses
  /\ \A s \in DOMAIN A : Formed(A[s]) /\ A[s].Address = s /\ Len(A[s].Data) \in 1..MaxSize
  /\ P \in Seq(Allocation)
  /\ \A i \in 1..Len(P) : Formed(P[i]) /\ Len(P[i].Data) \in 1..MaxSize

SameMemory(A, P, B, Q) ==
  /\ DOMAIN A = DOMAIN B /\ \A s \in DOMAIN A : Same(A[s], B[s])
  /\ Len(P) = Len(Q) /\ \A i \in 1..Len(P) : Same(P[i], Q[i])

\* StartFor, Found, With and Without for any allocations.
StartIn(A, a)    == Max({s \in DOMAIN A : s <= a})
FoundIn(A, a, n) == {s \in DOMAIN A : s <= a} # {} /\ Covers(A[StartIn(A, a)], a, n)
PutIn(A, s, al)  == [t \in DOMAIN A \cup {s} |-> IF t = s THEN al ELSE A[t]]
TakeOut(A, s)    == [t \in DOMAIN A \ {s} |-> A[t]]

EventSet ==
  [op : {"add", "remove", "block", "copy", "clear"}, address : Addresses, size : Sizes]
    \cup [op : {"resize"}, address : Addresses, current : Sizes, size : Sizes]

(***************************************************************************)
(* How an event is taken back: an allocation disappears, a removed one      *)
(* returns, one is edited, or nothing happens.                              *)
(***************************************************************************)
Drops(e)    == e.size # 0 /\ (e.op = "add" \/ (e.op = "resize" /\ e.current = 0))
Restores(e) == \/ e.op = "remove" /\ e.size # 0
               \/ e.op = "resize" /\ e.size = 0 /\ e.current # 0
Edits(e, A) == \/ e.op \in {"block", "copy"}
               \/ e.op = "clear" /\ FoundIn(A, e.address, e.size)
               \/ e.op = "resize" /\ e.size # 0 /\ e.current # 0

CanUndo(e, al) ==
  IF e.op = "resize"
  THEN /\ Size(al) = e.size
       /\ e.current > e.size =>
            CanRewind(resize(al, e.current), e.address + e.size, e.current - e.size)
  ELSE CanRewind(al, e.address, e.size)

Undone(e, al) ==
  IF e.op = "resize"
  THEN IF e.current > e.size
       THEN rewindArea(resize(al, e.current), e.address + e.size, e.current - e.size)
       ELSE resize(al, e.current)
  ELSE rewindArea(al, e.address, e.size)

CanBack(e, A, P) ==
  /\ Drops(e) => e.address \in DOMAIN A
  /\ Restores(e) => P # <<>> /\ Last(P).Address = e.address /\ e.address \notin DOMAIN A
  /\ Edits(e, A) => /\ FoundIn(A, e.address, e.size)
                    /\ CanUndo(e, A[StartIn(A, e.address)])

BackA(e, A, P) ==
  IF Drops(e) THEN TakeOut(A, e.address)
  ELSE IF Restores(e) THEN PutIn(A, e.address, Last(P))
  ELSE IF Edits(e, A)
  THEN PutIn(A, StartIn(A, e.address), Undone(e, A[StartIn(A, e.address)]))
  ELSE A
BackP(e, P) == IF Restores(e) THEN Front(P) ELSE P

LEMMA EventFields ==
  ASSUME NEW e \in EventSet
  PROVE  /\ e.op \in {"add", "remove", "block", "copy", "clear", "resize"}
         /\ e.address \in Addresses /\ e.address \in Nat /\ e.size \in Nat /\ e.size \in 0..MaxSize
         /\ e.op = "resize" => e.current \in Nat /\ e.current \in 0..MaxSize
         /\ ~(Drops(e) /\ Restores(e))
         /\ \A A : ~(Drops(e) /\ Edits(e, A)) /\ ~(Restores(e) /\ Edits(e, A))
<1>1. /\ e.op \in {"add", "remove", "block", "copy", "clear", "resize"}
      /\ e.address \in Addresses /\ e.size \in 0..MaxSize
      /\ e.op = "resize" => e.current \in 0..MaxSize
  BY DEF EventSet, Sizes
<1>2. Addresses \subseteq Nat /\ \A k \in 0..MaxSize : k \in Nat
  BY ConstantsAssumption
<1>3. e.address \in Nat /\ e.size \in Nat /\ (e.op = "resize" => e.current \in Nat)
  BY <1>1, <1>2
<1>4. ~(Drops(e) /\ Restores(e))
      /\ \A A : ~(Drops(e) /\ Edits(e, A)) /\ ~(Restores(e) /\ Edits(e, A))
  BY <1>1 DEF Drops, Restores, Edits
<1> QED
  BY <1>1, <1>3, <1>4

\* A set of numbers that is bounded has a largest one.
LEMMA LargestNumber ==
  ASSUME NEW T \in SUBSET Nat, T # {}, NEW bound \in Nat, \A t \in T : t <= bound
  PROVE  Max(T) \in T /\ \A t \in T : t <= Max(T)
<1> DEFINE R == OpToRel(<, Nat)
           U == {n \in Nat : bound - n \in T}
<1>1. IsWellFoundedOn(R, Nat)
  BY NatLessThanWellFounded, Zenon
<1>2. ASSUME NEW x \in Nat, NEW y \in Nat, y < x
      PROVE  <<y, x>> \in R
  BY <1>2, Zenon DEF OpToRel
<1>3. U # {} /\ U \subseteq Nat
  <2>1. PICK t \in T : TRUE
    OBVIOUS
  <2>2. bound - t \in Nat /\ bound - (bound - t) = t
    OBVIOUS
  <2>3. bound - t \in U
    BY <2>2
  <2> QED
    BY <2>3
<1> HIDE DEF R
<1>4. \A x \in U : x \in Nat /\ bound - x \in T
  OBVIOUS
<1>5. \A t \in T : bound - t \in U
  OBVIOUS
<1> HIDE DEF U
<1>6. \E x \in U : \A y \in U : ~(<<y, x>> \in R)
  BY <1>1, <1>3, WFMin, Zenon
<1>7. PICK x \in U : \A y \in U : ~(<<y, x>> \in R)
  BY <1>6, Zenon
<1>8. ASSUME NEW t \in T PROVE t <= bound - x
  <2>1. bound - t \in U /\ bound - t \in Nat /\ x \in Nat
    BY <1>4, <1>5
  <2>2. ~(bound - t < x)
    BY <1>2, <1>7, <2>1, Zenon
  <2> QED
    BY <2>1, <2>2
<1>9. \E m \in T : \A t \in T : m >= t
  <2>1. bound - x \in T
    BY <1>4
  <2>2. \A t \in T : bound - x >= t
    BY <1>4, <1>8
  <2> QED
    BY <2>1, <2>2
<1> QED
  BY <1>9 DEF Max

LEMMA StartFacts ==
  ASSUME NEW A, DOMAIN A \subseteq Addresses, NEW a \in Nat,
         {s \in DOMAIN A : s <= a} # {}
  PROVE  /\ StartIn(A, a) \in DOMAIN A /\ StartIn(A, a) <= a
         /\ \A s \in DOMAIN A : s <= a => s <= StartIn(A, a)
<1> DEFINE T == {s \in DOMAIN A : s <= a}
<1>1. T \in SUBSET Nat /\ T # {} /\ \A t \in T : t <= a
  BY ConstantsAssumption
<1>2. \A s : s \in T <=> s \in DOMAIN A /\ s <= a
  OBVIOUS
<1> HIDE DEF T
<1>3. Max(T) \in T /\ \A t \in T : t <= Max(T)
  BY <1>1, LargestNumber
<1>4. StartIn(A, a) = Max(T)
  BY DEF StartIn, T
<1> QED
  BY <1>2, <1>3, <1>4

LEMMA FoundFacts ==
  ASSUME NEW A, DOMAIN A \subseteq Addresses, NEW a \in Nat, NEW n, FoundIn(A, a, n)
  PROVE  /\ StartIn(A, a) \in DOMAIN A /\ StartIn(A, a) <= a
         /\ \A s \in DOMAIN A : s <= a => s <= StartIn(A, a)
         /\ Covers(A[StartIn(A, a)], a, n)
BY StartFacts DEF FoundIn

LEMMA SameMemoryIsTransitive ==
  ASSUME NEW A, NEW P, NEW B, NEW Q, NEW C, NEW R,
         SameMemory(A, P, B, Q), SameMemory(B, Q, C, R)
  PROVE  SameMemory(A, P, C, R)
<1>1. ASSUME NEW s \in DOMAIN A PROVE Same(A[s], C[s])
  <2>1. Same(A[s], B[s]) /\ Same(B[s], C[s])
    BY DEF SameMemory
  <2> QED
    BY <2>1, SameIsEquivalence
<1>2. ASSUME NEW i \in 1..Len(P) PROVE Same(P[i], R[i])
  <2>1. Same(P[i], Q[i]) /\ Same(Q[i], R[i])
    BY DEF SameMemory
  <2> QED
    BY <2>1, SameIsEquivalence
<1> QED
  BY <1>1, <1>2 DEF SameMemory

LEMMA SameFound ==
  ASSUME NEW A, NEW P, NEW B, NEW Q, SameMemory(A, P, B, Q), DOMAIN A \subseteq Addresses,
         NEW a \in Nat, NEW n
  PROVE  StartIn(A, a) = StartIn(B, a) /\ (FoundIn(A, a, n) <=> FoundIn(B, a, n))
<1>1. DOMAIN A = DOMAIN B /\ \A s \in DOMAIN A : Same(A[s], B[s])
  BY DEF SameMemory
<1>2. StartIn(A, a) = StartIn(B, a)
  BY <1>1 DEF StartIn
<1>3. {s \in DOMAIN A : s <= a} # {} => StartIn(A, a) \in DOMAIN A
  BY StartFacts
<1>4. {s \in DOMAIN A : s <= a} # {} =>
        (Covers(A[StartIn(A, a)], a, n) <=> Covers(B[StartIn(A, a)], a, n))
  BY <1>1, <1>3 DEF Same, Covers, Size
<1> QED
  BY <1>1, <1>2, <1>4 DEF FoundIn

\* Undoing an edit leaves an allocation of the same place.
LEMMA UndoneFormed ==
  ASSUME NEW e \in EventSet, NEW x, Formed(x), Len(x.Data) \in 1..MaxSize, CanUndo(e, x),
         e.op = "resize" => e.current # 0
  PROVE  /\ Formed(Undone(e, x)) /\ Undone(e, x).Address = x.Address
         /\ Len(Undone(e, x).Data) \in 1..MaxSize
<1>1. /\ e.address \in Nat /\ e.size \in Nat
      /\ e.op = "resize" => e.current \in Nat /\ e.current \in 1..MaxSize
  <2>1. e.address \in Nat /\ e.size \in Nat /\ (e.op = "resize" => e.current \in 0..MaxSize)
    BY EventFields
  <2>2. \A k \in 0..MaxSize : k # 0 => k \in 1..MaxSize /\ k \in Nat
    BY ConstantsAssumption
  <2> QED
    BY <2>1, <2>2
<1>2. CASE e.op # "resize"
  <2>1. CanRewind(x, e.address, e.size) /\ Undone(e, x) = rewindArea(x, e.address, e.size)
    BY <1>2 DEF CanUndo, Undone
  <2> QED
    BY <1>1, <2>1, RewindFormed
<1>3. CASE e.op = "resize"
  <2> DEFINE y == resize(x, e.current)
  <2>1. Formed(y) /\ y.Address = x.Address /\ Len(y.Data) = e.current
    BY <1>1, <1>3, ResizeFields
  <2>2. CASE e.current > e.size
    <3> DEFINE a == e.address + e.size
               n == e.current - e.size
    <3>1. a \in Nat /\ n \in Nat
      BY <1>1, <1>3, <2>2
    <3>2. CanRewind(y, a, n) /\ Undone(e, x) = rewindArea(y, a, n)
      BY <1>3, <2>2 DEF CanUndo, Undone
    <3> HIDE DEF a, n, y
    <3>3. /\ Formed(rewindArea(y, a, n)) /\ rewindArea(y, a, n).Address = y.Address
          /\ Len(rewindArea(y, a, n).Data) = Len(y.Data)
      BY <2>1, <3>1, <3>2, RewindFormed
    <3> QED
      BY <1>1, <1>3, <2>1, <3>2, <3>3
  <2>3. CASE ~(e.current > e.size)
    <3>1. Undone(e, x) = y
      BY <1>3, <2>3 DEF Undone
    <3> QED
      BY <1>1, <1>3, <2>1, <3>1
  <2> QED
    BY <2>2, <2>3
<1> QED
  BY <1>2, <1>3

\* Undoing an edit does not tell allocations apart that are the same.
LEMMA SameUndone ==
  ASSUME NEW e \in EventSet, NEW x, Formed(x), NEW y, Formed(y), Same(x, y), CanUndo(e, x)
  PROVE  CanUndo(e, y) /\ Same(Undone(e, x), Undone(e, y))
<1>1. e.address \in Nat /\ e.size \in Nat /\ (e.op = "resize" => e.current \in Nat)
  BY EventFields
<1>2. CASE e.op # "resize"
  <2>1. CanRewind(x, e.address, e.size)
    BY <1>2 DEF CanUndo
  <2>2. CanRewind(y, e.address, e.size)
        /\ Same(rewindArea(x, e.address, e.size), rewindArea(y, e.address, e.size))
    BY <1>1, <2>1, SameRewind
  <2> QED
    BY <1>2, <2>2 DEF CanUndo, Undone
<1>3. CASE e.op = "resize"
  <2> DEFINE u == resize(x, e.current)
             v == resize(y, e.current)
             a == e.address + e.size
             n == e.current - e.size
  <2>1. Formed(u) /\ Formed(v) /\ Same(u, v)
    BY <1>1, <1>3, ResizeFields, SameResize
  <2>2. Size(y) = e.size
    BY <1>3 DEF CanUndo, Same, Size
  <2>3. CASE e.current > e.size
    <3>1. a \in Nat /\ n \in Nat
      BY <1>1, <1>3, <2>3
    <3>2. CanRewind(u, a, n) /\ Undone(e, x) = rewindArea(u, a, n)
          /\ Undone(e, y) = rewindArea(v, a, n)
      BY <1>3, <2>3 DEF CanUndo, Undone
    <3>a. CanRewind(v, a, n) => CanUndo(e, y)
      BY <1>3, <2>2, <2>3 DEF CanUndo
    <3> HIDE DEF a, n, u, v
    <3>3. CanRewind(v, a, n) /\ Same(rewindArea(u, a, n), rewindArea(v, a, n))
      BY <2>1, <3>1, <3>2, SameRewind
    <3> QED
      BY <3>2, <3>3, <3>a
  <2>4. CASE ~(e.current > e.size)
    BY <1>3, <2>1, <2>2, <2>4 DEF CanUndo, Undone
  <2> QED
    BY <2>3, <2>4
<1> QED
  BY <1>2, <1>3

\* Taking back an event leaves a well-formed memory.
LEMMA BackWell ==
  ASSUME NEW e \in EventSet, NEW A, NEW P, Well(A, P), CanBack(e, A, P)
  PROVE  Well(BackA(e, A, P), BackP(e, P))
<1> DEFINE B == BackA(e, A, P)
           Q == BackP(e, P)
<1>1. /\ DOMAIN A \subseteq Addresses
      /\ \A s \in DOMAIN A : Formed(A[s]) /\ A[s].Address = s /\ Len(A[s].Data) \in 1..MaxSize
      /\ P \in Seq(Allocation)
      /\ \A i \in 1..Len(P) : Formed(P[i]) /\ Len(P[i].Data) \in 1..MaxSize
  BY DEF Well
<1>2. /\ e.address \in Addresses /\ e.address \in Nat /\ e.size \in Nat
      /\ ~(Drops(e) /\ Restores(e))
      /\ ~(Drops(e) /\ Edits(e, A)) /\ ~(Restores(e) /\ Edits(e, A))
  BY EventFields
<1>3. CASE Drops(e)
  <2>1. B = TakeOut(A, e.address) /\ Q = P
    BY <1>2, <1>3 DEF BackA, BackP
  <2> HIDE DEF B, Q
  <2>2. DOMAIN B = DOMAIN A \ {e.address} /\ \A t \in DOMAIN B : B[t] = A[t]
    BY <2>1 DEF TakeOut
  <2>3. Well(B, Q)
    BY <1>1, <2>1, <2>2 DEF Well
  <2> QED
    BY <2>3 DEF B, Q
<1>4. CASE Restores(e)
  <2>1. B = PutIn(A, e.address, Last(P)) /\ Q = Front(P)
    BY <1>2, <1>4 DEF BackA, BackP
  <2>2. P # <<>> /\ Last(P).Address = e.address
    BY <1>4 DEF CanBack
  <2>3. /\ Front(P) \in Seq(Allocation) /\ Len(Front(P)) = Len(P) - 1 /\ Len(P) \in Nat \ {0}
        /\ Last(P) = P[Len(P)]
        /\ \A i \in 1..(Len(P) - 1) : Front(P)[i] = P[i]
    BY <1>1, <2>2, FrontFacts
  <2>4. Formed(Last(P)) /\ Len(Last(P).Data) \in 1..MaxSize
    BY <1>1, <2>3
  <2>5. \A i \in 1..Len(Front(P)) : Formed(Front(P)[i]) /\ Len(Front(P)[i].Data) \in 1..MaxSize
    BY <1>1, <2>3
  <2> HIDE DEF B, Q
  <2>6. DOMAIN B = DOMAIN A \cup {e.address} /\ B[e.address] = Last(P)
        /\ \A t \in DOMAIN A : t # e.address => B[t] = A[t]
    BY <2>1 DEF PutIn
  <2>7. ASSUME NEW s \in DOMAIN B
        PROVE  Formed(B[s]) /\ B[s].Address = s /\ Len(B[s].Data) \in 1..MaxSize
    BY <1>1, <2>2, <2>4, <2>6
  <2>8. DOMAIN B \subseteq Addresses
    BY <1>1, <1>2, <2>6
  <2>9. Q \in Seq(Allocation)
        /\ \A i \in 1..Len(Q) : Formed(Q[i]) /\ Len(Q[i].Data) \in 1..MaxSize
    BY <2>1, <2>3, <2>5
  <2>10. Well(B, Q)
    BY <2>7, <2>8, <2>9 DEF Well
  <2> QED
    BY <2>10 DEF B, Q
<1>5. CASE Edits(e, A)
  <2> DEFINE s == StartIn(A, e.address)
             x == Undone(e, A[s])
  <2>1. B = PutIn(A, s, x) /\ Q = P
    BY <1>2, <1>5 DEF BackA, BackP
  <2>2. FoundIn(A, e.address, e.size) /\ CanUndo(e, A[s])
    BY <1>5 DEF CanBack
  <2>3. s \in DOMAIN A
    BY <1>1, <1>2, <2>2, FoundFacts
  <2>4. e.op = "resize" => e.current # 0
    BY <1>5 DEF Edits
  <2>5. Formed(A[s]) /\ A[s].Address = s /\ Len(A[s].Data) \in 1..MaxSize
    BY <1>1, <2>3
  <2>6. Formed(x) /\ x.Address = s /\ Len(x.Data) \in 1..MaxSize
    BY <2>2, <2>4, <2>5, UndoneFormed
  <2> HIDE DEF s, x, B, Q
  <2>7. DOMAIN B = DOMAIN A /\ B[s] = x /\ \A t \in DOMAIN A : t # s => B[t] = A[t]
    BY <2>1, <2>3 DEF PutIn
  <2>8. Well(B, Q)
    BY <1>1, <2>1, <2>6, <2>7 DEF Well
  <2> QED
    BY <2>8 DEF B, Q
<1>6. CASE ~Drops(e) /\ ~Restores(e) /\ ~Edits(e, A)
  BY <1>6 DEF BackA, BackP
<1> QED
  BY <1>3, <1>4, <1>5, <1>6

\* Memories that are the same can take back the same events, and are the same
\* after that.
LEMMA SameBack ==
  ASSUME NEW e \in EventSet, NEW A, NEW P, Well(A, P), NEW B, NEW Q, Well(B, Q),
         SameMemory(A, P, B, Q), CanBack(e, A, P)
  PROVE  /\ CanBack(e, B, Q)
         /\ SameMemory(BackA(e, A, P), BackP(e, P), BackA(e, B, Q), BackP(e, Q))
<1> DEFINE C == BackA(e, A, P)
           D == BackA(e, B, Q)
           s == StartIn(A, e.address)
<1>1. /\ DOMAIN A \subseteq Addresses /\ P \in Seq(Allocation) /\ Q \in Seq(Allocation)
      /\ \A t \in DOMAIN A : Formed(A[t])
      /\ \A t \in DOMAIN B : Formed(B[t])
  BY DEF Well
<1>2. /\ DOMAIN A = DOMAIN B /\ \A t \in DOMAIN A : Same(A[t], B[t])
      /\ Len(P) = Len(Q) /\ \A i \in 1..Len(P) : Same(P[i], Q[i])
  BY DEF SameMemory
<1>3. /\ e.address \in Addresses /\ e.address \in Nat /\ e.size \in Nat
      /\ ~(Drops(e) /\ Restores(e))
      /\ ~(Drops(e) /\ Edits(e, A)) /\ ~(Restores(e) /\ Edits(e, A))
      /\ ~(Drops(e) /\ Edits(e, B)) /\ ~(Restores(e) /\ Edits(e, B))
  BY EventFields
<1>4. /\ s = StartIn(B, e.address)
      /\ FoundIn(A, e.address, e.size) <=> FoundIn(B, e.address, e.size)
  BY <1>1, <1>3, SameFound
<1>5. Edits(e, A) <=> Edits(e, B)
  BY <1>4 DEF Edits
<1>6. CASE Drops(e)
  <2>1. C = TakeOut(A, e.address) /\ D = TakeOut(B, e.address) /\ BackP(e, P) = P /\ BackP(e, Q) = Q
    BY <1>3, <1>6 DEF BackA, BackP
  <2>2. CanBack(e, B, Q)
    BY <1>2, <1>3, <1>6 DEF CanBack
  <2> HIDE DEF C, D
  <2>3. /\ DOMAIN C = DOMAIN A \ {e.address} /\ \A t \in DOMAIN C : C[t] = A[t]
        /\ DOMAIN D = DOMAIN B \ {e.address} /\ \A t \in DOMAIN D : D[t] = B[t]
    BY <2>1 DEF TakeOut
  <2>4. SameMemory(C, P, D, Q)
    BY <1>2, <2>3 DEF SameMemory
  <2> QED
    BY <2>1, <2>2, <2>4 DEF C, D
<1>7. CASE Restores(e)
  <2>1. C = PutIn(A, e.address, Last(P)) /\ D = PutIn(B, e.address, Last(Q))
        /\ BackP(e, P) = Front(P) /\ BackP(e, Q) = Front(Q)
    BY <1>3, <1>7 DEF BackA, BackP
  <2>2. P # <<>> /\ Last(P).Address = e.address /\ e.address \notin DOMAIN A
    BY <1>7 DEF CanBack
  <2>3. Q # <<>>
    BY <1>1, <1>2, <2>2
  <2>4. /\ Len(Front(P)) = Len(P) - 1 /\ Len(P) \in Nat \ {0}
        /\ Last(P) = P[Len(P)]
        /\ \A i \in 1..(Len(P) - 1) : Front(P)[i] = P[i]
    BY <1>1, <2>2, FrontFacts
  <2>5. /\ Len(Front(Q)) = Len(Q) - 1
        /\ Last(Q) = Q[Len(Q)]
        /\ \A i \in 1..(Len(Q) - 1) : Front(Q)[i] = Q[i]
    BY <1>1, <2>3, FrontFacts
  <2>6. Same(Last(P), Last(Q))
    BY <1>2, <2>4, <2>5
  <2>7. CanBack(e, B, Q)
    <3>1. Last(Q).Address = e.address
      BY <2>2, <2>6 DEF Same
    <3> QED
      BY <1>2, <1>3, <1>7, <2>2, <2>3, <3>1 DEF CanBack
  <2> HIDE DEF C, D
  <2>8. /\ DOMAIN C = DOMAIN A \cup {e.address} /\ C[e.address] = Last(P)
        /\ \A t \in DOMAIN A : t # e.address => C[t] = A[t]
    BY <2>1 DEF PutIn
  <2>9. /\ DOMAIN D = DOMAIN B \cup {e.address} /\ D[e.address] = Last(Q)
        /\ \A t \in DOMAIN B : t # e.address => D[t] = B[t]
    BY <2>1 DEF PutIn
  <2>10. ASSUME NEW t \in DOMAIN C PROVE Same(C[t], D[t])
    BY <1>2, <2>6, <2>8, <2>9
  <2>11. Len(Front(P)) = Len(Front(Q)) /\ \A i \in 1..Len(Front(P)) : Same(Front(P)[i], Front(Q)[i])
    BY <1>2, <2>4, <2>5
  <2>12. SameMemory(C, Front(P), D, Front(Q))
    BY <1>2, <2>8, <2>9, <2>10, <2>11 DEF SameMemory
  <2> QED
    BY <2>1, <2>7, <2>12 DEF C, D
<1>8. CASE Edits(e, A)
  <2> DEFINE x == Undone(e, A[s])
             y == Undone(e, B[s])
  <2>1. C = PutIn(A, s, x) /\ D = PutIn(B, s, y) /\ BackP(e, P) = P /\ BackP(e, Q) = Q
    BY <1>3, <1>4, <1>5, <1>8 DEF BackA, BackP
  <2>2. FoundIn(A, e.address, e.size) /\ CanUndo(e, A[s])
    BY <1>8 DEF CanBack
  <2>3. s \in DOMAIN A
    BY <1>1, <1>3, <2>2, FoundFacts
  <2>4. Formed(A[s]) /\ Formed(B[s]) /\ Same(A[s], B[s])
    BY <1>1, <1>2, <2>3
  <2>5. CanUndo(e, B[s]) /\ Same(x, y)
    BY <2>2, <2>4, SameUndone
  <2>6. CanBack(e, B, Q)
    BY <1>3, <1>4, <1>5, <1>8, <2>2, <2>5 DEF CanBack
  <2> HIDE DEF s, x, y, C, D
  <2>7. DOMAIN C = DOMAIN A /\ C[s] = x /\ \A t \in DOMAIN A : t # s => C[t] = A[t]
    BY <2>1, <2>3 DEF PutIn
  <2>8. DOMAIN D = DOMAIN B /\ D[s] = y /\ \A t \in DOMAIN B : t # s => D[t] = B[t]
    BY <1>2, <2>1, <2>3 DEF PutIn
  <2>9. ASSUME NEW t \in DOMAIN C PROVE Same(C[t], D[t])
    BY <1>2, <2>5, <2>7, <2>8
  <2>10. SameMemory(C, P, D, Q)
    BY <1>2, <2>7, <2>8, <2>9 DEF SameMemory
  <2> QED
    BY <2>1, <2>6, <2>10 DEF C, D
<1>9. CASE ~Drops(e) /\ ~Restores(e) /\ ~Edits(e, A)
  <2>1. C = A /\ D = B /\ BackP(e, P) = P /\ BackP(e, Q) = Q
    BY <1>5, <1>9 DEF BackA, BackP
  <2>2. CanBack(e, B, Q)
    BY <1>5, <1>9 DEF CanBack
  <2> QED
    BY <2>1, <2>2
<1> QED
  BY <1>6, <1>7, <1>8, <1>9

-----------------------------------------------------------------------------
(***************************************************************************)
(* Moving forward: e took the memory from A, P to B, Q, which is well       *)
(* formed and from which e can be taken back.                               *)
(***************************************************************************)
Reversible(e, A, P, B, Q) ==
  /\ Well(B, Q) /\ CanBack(e, B, Q)
  /\ SameMemory(BackA(e, B, Q), BackP(e, Q), A, P)

LEMMA SameMemoryIsReflexive ==
  ASSUME NEW A, NEW P
  PROVE  SameMemory(A, P, A, P)
BY SameIsEquivalence DEF SameMemory

LEMMA NothingIsReversible ==
  ASSUME NEW e \in EventSet, NEW A, NEW P, Well(A, P),
         ~Drops(e), ~Restores(e), ~Edits(e, A)
  PROVE  Reversible(e, A, P, A, P)
BY SameMemoryIsReflexive DEF Reversible, CanBack, BackA, BackP

LEMMA AddIsReversible ==
  ASSUME NEW e \in EventSet, NEW A, NEW P, Well(A, P), Drops(e), e.address \notin DOMAIN A,
         NEW al, Formed(al), al.Address = e.address, Len(al.Data) \in 1..MaxSize
  PROVE  Reversible(e, A, P, PutIn(A, e.address, al), P)
<1> DEFINE B == PutIn(A, e.address, al)
           C == BackA(e, B, P)
<1>1. e.address \in Addresses /\ ~Restores(e) /\ ~Edits(e, B)
  BY EventFields
<1>2. /\ DOMAIN B = DOMAIN A \cup {e.address} /\ B[e.address] = al
      /\ \A t \in DOMAIN A : t # e.address => B[t] = A[t]
  BY DEF PutIn
<1> HIDE DEF B
<1>3. Well(B, P)
  BY <1>1, <1>2 DEF Well
<1>4. CanBack(e, B, P)
  BY <1>1, <1>2 DEF CanBack
<1>5. C = TakeOut(B, e.address) /\ BackP(e, P) = P
  BY <1>1 DEF BackA, BackP
<1> HIDE DEF C
<1>6. DOMAIN C = DOMAIN A /\ \A t \in DOMAIN A : C[t] = A[t]
  BY <1>2, <1>5 DEF TakeOut
<1>7. SameMemory(C, P, A, P)
  BY <1>6, SameIsEquivalence DEF SameMemory
<1> QED
  BY <1>3, <1>4, <1>5, <1>7 DEF Reversible, C, B

LEMMA RemoveIsReversible ==
  ASSUME NEW e \in EventSet, NEW A, NEW P, Well(A, P), Restores(e), e.address \in DOMAIN A
  PROVE  Reversible(e, A, P, TakeOut(A, e.address), Append(P, A[e.address]))
<1> DEFINE a == e.address
           B == TakeOut(A, a)
           Q == Append(P, A[a])
           C == BackA(e, B, Q)
<1>1. e.address \in Addresses /\ ~Drops(e)
  BY EventFields
<1>2. /\ DOMAIN A \subseteq Addresses
      /\ \A s \in DOMAIN A : Formed(A[s]) /\ A[s].Address = s /\ Len(A[s].Data) \in 1..MaxSize
      /\ P \in Seq(Allocation)
      /\ \A i \in 1..Len(P) : Formed(P[i]) /\ Len(P[i].Data) \in 1..MaxSize
  BY DEF Well
<1>3. A[a] \in Allocation
  BY <1>2 DEF Formed
<1>4. /\ Q \in Seq(Allocation) /\ Q # <<>> /\ Len(Q) = Len(P) + 1 /\ Len(P) \in Nat
      /\ Front(Q) = P /\ Last(Q) = A[a]
      /\ \A i \in 1..Len(P) : Q[i] = P[i]
      /\ Q[Len(P) + 1] = A[a]
  BY <1>2, <1>3, FrontOfAppend
<1>5. DOMAIN B = DOMAIN A \ {a} /\ \A t \in DOMAIN B : B[t] = A[t]
  BY DEF TakeOut
<1> HIDE DEF B, Q
<1>6. ASSUME NEW i \in 1..Len(Q) PROVE Formed(Q[i]) /\ Len(Q[i].Data) \in 1..MaxSize
  <2>1. i \in 1..Len(P) \/ i = Len(P) + 1
    BY <1>4
  <2> QED
    BY <1>2, <1>4, <2>1
<1>7. Well(B, Q)
  BY <1>2, <1>4, <1>5, <1>6 DEF Well
<1>8. ~Edits(e, B)
  BY EventFields
<1>9. CanBack(e, B, Q)
  BY <1>1, <1>2, <1>4, <1>5, <1>8 DEF CanBack
<1>10. C = PutIn(B, a, Last(Q)) /\ BackP(e, Q) = Front(Q)
  BY <1>1 DEF BackA, BackP
<1> HIDE DEF C
<1>11. DOMAIN C = DOMAIN A /\ \A t \in DOMAIN A : C[t] = A[t]
  BY <1>4, <1>5, <1>10 DEF PutIn
<1>12. SameMemory(C, Front(Q), A, P)
  BY <1>4, <1>11, SameIsEquivalence DEF SameMemory
<1> QED
  BY <1>7, <1>9, <1>10, <1>12 DEF Reversible, B, C, Q

LEMMA EditIsReversible ==
  ASSUME NEW e \in EventSet, NEW A, NEW P, Well(A, P),
         NEW s, s = StartIn(A, e.address), {t \in DOMAIN A : t <= e.address} # {},
         \/ e.op \in {"block", "copy", "clear"}
         \/ e.op = "resize" /\ e.size # 0 /\ e.current # 0,
         NEW al, Formed(al), al.Address = s, Len(al.Data) \in 1..MaxSize,
         Covers(al, e.address, e.size), CanUndo(e, al), Same(Undone(e, al), A[s])
  PROVE  Reversible(e, A, P, PutIn(A, s, al), P)
<1> DEFINE B == PutIn(A, s, al)
           C == BackA(e, B, P)
           x == Undone(e, al)
<1>1. e.address \in Addresses /\ e.address \in Nat /\ DOMAIN A \subseteq Addresses
  BY EventFields DEF Well
<1>2. s \in DOMAIN A
  BY <1>1, StartFacts
<1>3. DOMAIN B = DOMAIN A /\ B[s] = al /\ \A t \in DOMAIN A : t # s => B[t] = A[t]
  BY <1>2 DEF PutIn
<1> HIDE DEF B
<1>4. Well(B, P)
  BY <1>3 DEF Well
<1>5. StartIn(B, e.address) = s /\ FoundIn(B, e.address, e.size)
  BY <1>3 DEF StartIn, FoundIn
<1>6. Edits(e, B)
  BY <1>5 DEF Edits
<1>7. ~Drops(e) /\ ~Restores(e)
  BY <1>6, EventFields
<1>8. CanBack(e, B, P)
  BY <1>3, <1>5, <1>7 DEF CanBack
<1>9. C = PutIn(B, s, x) /\ BackP(e, P) = P
  BY <1>3, <1>5, <1>6, <1>7 DEF BackA, BackP
<1> HIDE DEF C, x
<1>10. DOMAIN C = DOMAIN A /\ C[s] = x /\ \A t \in DOMAIN A : t # s => C[t] = A[t]
  BY <1>2, <1>3, <1>9 DEF PutIn
<1>11. ASSUME NEW t \in DOMAIN C PROVE Same(C[t], A[t])
  BY <1>10, SameIsEquivalence DEF x
<1>12. SameMemory(C, P, A, P)
  BY <1>10, <1>11, SameIsEquivalence DEF SameMemory
<1> QED
  BY <1>4, <1>8, <1>9, <1>12 DEF Reversible, B, C

LEMMA MemcpyFacts ==
  ASSUME NEW S, NEW seq \in Seq(S), NEW from \in Nat, NEW to \in Nat, NEW n \in Nat,
         NEW order, from + n <= Len(seq), from < to + n, to < from + n
  PROVE  Memcpy(seq, from, to, n, order) \in Seq(S) /\ Len(Memcpy(seq, from, to, n, order)) = n
<1> DEFINE d == IF to > from THEN to - from ELSE from - to
           Source(i) == CASE order = "ascending" /\ to > from  -> i % d
                          [] order = "descending" /\ to < from -> n - 1 - ((n - 1 - i) % d)
                          [] OTHER -> i
           f == [i \in 1..n |-> seq[from + Source(i - 1) + 1]]
<1>1. d \in Nat /\ d < n /\ (to # from => d > 0)
  OBVIOUS
<1> HIDE DEF d
<1>2. ASSUME NEW i \in Nat, d > 0 PROVE i % d \in 0..(d - 1)
  BY <1>1, <1>2
<1>3. ASSUME NEW i \in 0..(n - 1) PROVE Source(i) \in 0..(n - 1)
  <2>1. CASE order = "ascending" /\ to > from
    <3>1. i % d \in 0..(d - 1)
      BY <1>1, <1>2, <2>1
    <3>2. i % d \in 0..(n - 1)
      BY <1>1, <3>1
    <3> QED
      BY <2>1, <3>2
  <2>2. CASE order = "descending" /\ to < from
    <3> DEFINE k == (n - 1 - i) % d
    <3>1. n - 1 - i \in Nat
      OBVIOUS
    <3>2. k \in 0..(d - 1)
      BY <1>1, <1>2, <2>2, <3>1
    <3> HIDE DEF k
    <3>3. n - 1 - k \in 0..(n - 1)
      BY <1>1, <3>2
    <3> QED
      BY <2>2, <3>3 DEF k
  <2>3. CASE ~(order = "ascending" /\ to > from) /\ ~(order = "descending" /\ to < from)
    BY <2>3
  <2> QED
    BY <2>1, <2>2, <2>3
<1>a. f = Memcpy(seq, from, to, n, order)
  BY DEF Memcpy, d
<1> HIDE DEF Source
<1>4. ASSUME NEW i \in 1..n PROVE seq[from + Source(i - 1) + 1] \in S
  <2>1. i - 1 \in 0..(n - 1)
    OBVIOUS
  <2> DEFINE j == Source(i - 1)
  <2>2. j \in 0..(n - 1)
    BY <1>3, <2>1
  <2> HIDE DEF j
  <2>3. from + j + 1 \in 1..Len(seq)
    BY <2>2
  <2> QED
    BY <2>3 DEF j
<1>5. f \in [1..n -> S]
  BY <1>4
<1> HIDE DEF f
<1> QED
  BY <1>a, <1>5, FunctionIsSeq

\* No two allocations meet.
Apart(A) == \A s, t \in DOMAIN A : s < t => s + Len(A[s].Data) <= t

LEMMA SamePlaces ==
  ASSUME NEW A, NEW B, DOMAIN A = DOMAIN B, Apart(A),
         \A s \in DOMAIN A : Len(A[s].Data) = Len(B[s].Data)
  PROVE  Apart(B)
BY DEF Apart

\* The operators of MemoryState, in terms of those for any allocations.
LEMMA CurrentMemory ==
  /\ \A a, al : With(a, al) = PutIn(Allocations, a, al)
  /\ \A a : Without(a) = TakeOut(Allocations, a)
  /\ \A a : StartFor(a) = StartIn(Allocations, a)
            /\ getAllocation(a) = Allocations[StartIn(Allocations, a)]
  /\ \A a, n : Found(a, n) <=> FoundIn(Allocations, a, n)
BY DEF With, Without, PutIn, TakeOut, StartFor, StartIn, NotAbove, getAllocation, Found, FoundIn

LEMMA WellFields ==
  ASSUME NEW A, NEW P, Well(A, P), NEW s \in DOMAIN A
  PROVE  /\ s \in Nat /\ s \in Addresses /\ Formed(A[s]) /\ A[s] \in Allocation /\ A[s].Address = s
         /\ Len(A[s].Data) \in 1..MaxSize /\ Len(A[s].Data) \in Nat \ {0}
         /\ A[s].Data \in Seq(Byte) /\ A[s].Init \in Seq(Bit) /\ Len(A[s].Init) = Len(A[s].Data)
<1>1. s \in Addresses /\ Formed(A[s]) /\ A[s].Address = s /\ Len(A[s].Data) \in 1..MaxSize
  BY DEF Well
<1>2. A[s] \in Allocation /\ Len(A[s].Init) = Len(A[s].Data)
  BY <1>1 DEF Formed
<1>3. A[s].Data \in Seq(Byte) /\ A[s].Init \in Seq(Bit)
  BY <1>2, AllocationFields
<1>4. s \in Nat /\ MaxSize \in Nat
  BY <1>1, ConstantsAssumption
<1>5. \A k \in 1..MaxSize : k \in Nat \ {0}
  BY <1>4
<1> QED
  BY <1>1, <1>2, <1>3, <1>4, <1>5

\* What the effects of the operations that move forward have in common.
IsReversible(e) ==
  /\ Reversible(e, Allocations, PreviousAllocations, Allocations', PreviousAllocations')
  /\ Apart(Allocations')

LEMMA AddStep ==
  ASSUME NEW e \in EventSet, Well(Allocations, PreviousAllocations), Apart(Allocations),
         NEW n \in Sizes, AddAllocation(e.address, n), ~Restores(e), ~Edits(e, Allocations),
         Drops(e) <=> n # 0
  PROVE  IsReversible(e)
<1> DEFINE a == e.address
<1>1. a \in Nat /\ a \in Addresses /\ n \in Nat /\ (n # 0 => n \in 1..MaxSize)
  BY EventFields, ConstantsAssumption DEF Sizes
<1>2. CASE n = 0
  <2>1. Allocations' = Allocations /\ PreviousAllocations' = PreviousAllocations
    BY <1>2 DEF AddAllocation
  <2> QED
    BY <1>2, <2>1, NothingIsReversible DEF IsReversible
<1>3. CASE n # 0
  <2> DEFINE al == MemoryAllocation(a, n)
  <2>1. Allocations' = PutIn(Allocations, a, al) /\ PreviousAllocations' = PreviousAllocations
    BY <1>3, CurrentMemory DEF AddAllocation
  <2>2. \A s \in DOMAIN Allocations : a + n <= s \/ s + Len(Allocations[s].Data) <= a
    BY DEF AddAllocation, IsFree, Size
  <2>3. a \notin DOMAIN Allocations
    <3> SUFFICES ASSUME a \in DOMAIN Allocations PROVE FALSE
      OBVIOUS
    <3>1. Len(Allocations[a].Data) \in Nat \ {0}
      BY WellFields
    <3> QED
      BY <1>1, <1>3, <2>2, <3>1
  <2>4. /\ Zeros(n) \in Seq(Bit) /\ Zeros(n) \in Seq(Byte) /\ Len(Zeros(n)) = n
        /\ <<>> \in Seq(Bit) /\ <<>> \in Seq(Byte) /\ <<>> \in Seq(Type)
    <3>1. Zeros(n) \in [1..n -> Byte]
      BY DEF Zeros, Byte
    <3> QED
      BY <1>1, <3>1, Constant, FunctionIsSeq
  <2>5. al \in Allocation /\ al.Address = a /\ al.Data = Zeros(n) /\ al.Init = Zeros(n)
    BY <1>1, <2>4 DEF MemoryAllocation, Allocation, Byte, Bit, Type
  <2>6. Formed(al) /\ Len(al.Data) = n /\ Len(al.Data) \in 1..MaxSize
    BY <1>1, <1>3, <2>4, <2>5 DEF Formed
  <2> HIDE DEF al
  <2>7. Reversible(e, Allocations, PreviousAllocations, Allocations', PreviousAllocations')
    BY <1>3, <2>1, <2>3, <2>5, <2>6, AddIsReversible
  <2>8. /\ DOMAIN Allocations' = DOMAIN Allocations \cup {a} /\ Allocations'[a] = al
        /\ \A t \in DOMAIN Allocations : t # a => Allocations'[t] = Allocations[t]
    BY <2>1 DEF PutIn
  <2>9. Apart(Allocations')
    <3> SUFFICES ASSUME NEW s \in DOMAIN Allocations', NEW t \in DOMAIN Allocations', s < t
                 PROVE  s + Len(Allocations'[s].Data) <= t
      BY DEF Apart
    <3>1. CASE s # a /\ t # a
      BY <2>8, <3>1 DEF Apart
    <3>2. CASE s = a
      <4>1. t \in DOMAIN Allocations /\ t # a
        BY <1>1, <2>8, <3>2
      <4>2. Len(Allocations[t].Data) \in Nat /\ t \in Nat
        BY <4>1, WellFields
      <4>3. a + n <= t
        BY <1>1, <2>2, <3>2, <4>1, <4>2
      <4> QED
        BY <2>6, <2>8, <3>2, <4>3
    <3>3. CASE t = a
      <4>1. s \in DOMAIN Allocations /\ s # a
        BY <1>1, <2>8, <3>3
      <4>2. Len(Allocations[s].Data) \in Nat /\ s \in Nat
        BY <4>1, WellFields
      <4>3. s + Len(Allocations[s].Data) <= a
        BY <1>1, <2>2, <3>3, <4>1, <4>2
      <4> QED
        BY <2>8, <3>3, <4>1, <4>3
    <3> QED
      BY <3>1, <3>2, <3>3
  <2> QED
    BY <2>7, <2>9 DEF IsReversible
<1> QED
  BY <1>2, <1>3

LEMMA RemoveStep ==
  ASSUME NEW e \in EventSet, Well(Allocations, PreviousAllocations), Apart(Allocations),
         NEW n \in Sizes, RemoveAllocation(e.address, n), ~Drops(e), ~Edits(e, Allocations),
         Restores(e) <=> n # 0
  PROVE  IsReversible(e)
<1> DEFINE a == e.address
<1>1. CASE n = 0
  <2>1. Allocations' = Allocations /\ PreviousAllocations' = PreviousAllocations
    BY <1>1 DEF RemoveAllocation
  <2> QED
    BY <1>1, <2>1, NothingIsReversible DEF IsReversible
<1>2. CASE n # 0
  <2>1. /\ a \in DOMAIN Allocations
        /\ PreviousAllocations' = Append(PreviousAllocations, Allocations[a])
        /\ Allocations' = TakeOut(Allocations, a)
    BY <1>2, CurrentMemory DEF RemoveAllocation
  <2>2. Reversible(e, Allocations, PreviousAllocations, Allocations', PreviousAllocations')
    BY <1>2, <2>1, RemoveIsReversible
  <2>3. /\ DOMAIN Allocations' = DOMAIN Allocations \ {a}
        /\ \A t \in DOMAIN Allocations' : Allocations'[t] = Allocations[t]
    BY <2>1 DEF TakeOut
  <2>4. Apart(Allocations')
    BY <2>3 DEF Apart
  <2> QED
    BY <2>2, <2>4 DEF IsReversible
<1> QED
  BY <1>1, <1>2

LEMMA SavedStep ==
  ASSUME NEW e \in EventSet, e.op \in {"block", "copy", "clear"},
         Well(Allocations, PreviousAllocations), Apart(Allocations),
         NEW s, s = StartIn(Allocations, e.address),
         FoundIn(Allocations, e.address, e.size),
         NEW x, Formed(x), HasSaved(x, Allocations[s], e.address, e.size),
         Allocations' = PutIn(Allocations, s, x), PreviousAllocations' = PreviousAllocations
  PROVE  IsReversible(e)
<1> DEFINE al == Allocations[s]
<1>1. e.address \in Nat /\ e.size \in Nat /\ DOMAIN Allocations \subseteq Addresses
  BY EventFields DEF Well
<1>2. s \in DOMAIN Allocations /\ Covers(al, e.address, e.size)
      /\ {t \in DOMAIN Allocations : t <= e.address} # {}
  BY <1>1, FoundFacts DEF FoundIn
<1>3. Formed(al) /\ al.Address = s /\ Len(al.Data) \in 1..MaxSize
  BY <1>2, WellFields
<1>4. x.Address = al.Address /\ Len(x.Data) = Len(al.Data)
  BY DEF HasSaved
<1> HIDE DEF al
<1>5. CanRewind(x, e.address, e.size) /\ Same(rewindArea(x, e.address, e.size), al)
  BY <1>1, <1>2, <1>3, SavedIsRestored DEF al
<1>6. CanUndo(e, x) /\ Same(Undone(e, x), al)
  BY <1>5 DEF CanUndo, Undone
<1>7. Covers(x, e.address, e.size)
  BY <1>2, <1>4 DEF Covers, Size
<1>8. Reversible(e, Allocations, PreviousAllocations, Allocations', PreviousAllocations')
  <2>1. x.Address = s /\ Len(x.Data) \in 1..MaxSize
    BY <1>3, <1>4
  <2> QED
    BY <1>2, <1>6, <1>7, <2>1, EditIsReversible DEF al
<1>9. /\ DOMAIN Allocations' = DOMAIN Allocations /\ Allocations'[s] = x
      /\ \A t \in DOMAIN Allocations : t # s => Allocations'[t] = Allocations[t]
  BY <1>2 DEF PutIn
<1>10. \A t \in DOMAIN Allocations : Len(Allocations[t].Data) = Len(Allocations'[t].Data)
  BY <1>4, <1>9 DEF al
<1>11. Apart(Allocations')
  BY <1>9, <1>10, SamePlaces
<1> QED
  BY <1>8, <1>11 DEF IsReversible

LEMMA ResizeStep ==
  ASSUME NEW e \in EventSet, e.op = "resize", e.size # 0, e.current # 0,
         Well(Allocations, PreviousAllocations), Apart(Allocations),
         ResizeInPlace(e.address, e.current, e.size)
  PROVE  IsReversible(e)
<1> DEFINE a == e.address
           al == Allocations[a]
           n == e.size
           m == e.current
           cut == IF n < m THEN clearArea(al, a + n, m - n) ELSE al
           x == resize(cut, n)
<1>1. a \in Nat /\ n \in Nat \ {0} /\ n \in 1..MaxSize /\ m \in Nat \ {0} /\ m \in 1..MaxSize
      /\ DOMAIN Allocations \subseteq Addresses
  <2>1. /\ a \in Nat /\ n \in 0..MaxSize /\ m \in 0..MaxSize
        /\ DOMAIN Allocations \subseteq Addresses
    BY EventFields DEF Well
  <2>2. \A k \in 0..MaxSize : k # 0 => k \in Nat \ {0} /\ k \in 1..MaxSize
    BY ConstantsAssumption
  <2> QED
    BY <2>1, <2>2
<1>2. a \in DOMAIN Allocations /\ PreviousAllocations' = PreviousAllocations
  BY DEF ResizeInPlace
<1>3. StartIn(Allocations, a) = a /\ {t \in DOMAIN Allocations : t <= a} # {}
  <2>1. {t \in DOMAIN Allocations : t <= a} # {}
    BY <1>1, <1>2
  <2>2. /\ StartIn(Allocations, a) \in DOMAIN Allocations /\ StartIn(Allocations, a) <= a
        /\ a <= StartIn(Allocations, a)
    BY <1>1, <1>2, <2>1, StartFacts
  <2>3. StartIn(Allocations, a) \in Nat
    BY <2>2, WellFields
  <2> QED
    BY <1>1, <2>1, <2>2, <2>3
<1>4. /\ Len(al.Data) = m
      /\ n > m => IsFree(a + m, n - m)
      /\ Allocations' = PutIn(Allocations, a, x)
  <2>1. getAllocation(a) = al
    BY <1>3, CurrentMemory
  <2> QED
    BY <2>1, CurrentMemory DEF ResizeInPlace, Size
<1>5. Formed(al) /\ al.Address = a
  BY <1>2, WellFields
<1> HIDE DEF al
<1>6. Formed(x) /\ x.Address = a /\ Len(x.Data) = n /\ CanUndo(e, x) /\ Same(Undone(e, x), al)
  <2>1. CASE n < m
    <3> DEFINE y == resize(x, m)
               b == a + n
               k == m - n
    <3>1. cut = clearArea(al, b, k) /\ b \in Nat /\ k \in Nat
      BY <1>1, <2>1
    <3>2. /\ Formed(x) /\ Len(x.Data) = n /\ x.Address = al.Address
          /\ Formed(y) /\ HasSaved(y, al, b, k) /\ Covers(al, b, k)
      BY <1>1, <1>4, <1>5, <2>1, ShrinkSaves
    <3>a. m > n
      BY <1>1, <2>1
    <3>b. /\ Size(x) = n /\ CanRewind(y, b, k) => CanUndo(e, x)
          /\ Undone(e, x) = rewindArea(y, b, k)
      BY <3>a DEF CanUndo, Undone
    <3> HIDE DEF y, b, k
    <3>3. CanRewind(y, b, k) /\ Same(rewindArea(y, b, k), al)
      BY <1>5, <3>1, <3>2, SavedIsRestored
    <3> QED
      BY <1>5, <3>2, <3>3, <3>b DEF Size
  <2>2. CASE ~(n < m)
    <3>1. cut = al /\ m <= n /\ ~(m > n)
      BY <1>1, <2>2
    <3>2. Formed(x) /\ x.Address = al.Address /\ Len(x.Data) = n
      BY <1>1, <1>5, <3>1, ResizeFields
    <3>3. Same(resize(resize(al, n), m), al)
      BY <1>1, <1>4, <1>5, <3>1, GrownIsCut
    <3>4. CanUndo(e, x) /\ Undone(e, x) = resize(x, m)
      BY <3>1, <3>2 DEF CanUndo, Undone, Size
    <3> QED
      BY <1>5, <3>1, <3>2, <3>3, <3>4
  <2> QED
    BY <2>1, <2>2
<1> HIDE DEF x
<1>7. Reversible(e, Allocations, PreviousAllocations, Allocations', PreviousAllocations')
  <2>1. Covers(x, e.address, e.size)
    BY <1>1, <1>6 DEF Covers, Size
  <2> QED
    BY <1>1, <1>2, <1>3, <1>4, <1>6, <2>1, EditIsReversible DEF al
<1>8. /\ DOMAIN Allocations' = DOMAIN Allocations /\ Allocations'[a] = x
      /\ \A t \in DOMAIN Allocations : t # a => Allocations'[t] = Allocations[t]
  BY <1>2, <1>4 DEF PutIn
<1>9. Apart(Allocations')
  <2> SUFFICES ASSUME NEW s \in DOMAIN Allocations, NEW t \in DOMAIN Allocations, s < t
               PROVE  s + Len(Allocations'[s].Data) <= t
    BY <1>8 DEF Apart
  <2>1. CASE s # a
    BY <1>8, <2>1 DEF Apart
  <2>2. CASE s = a
    <3>1. a + m <= t /\ t \in Nat /\ Len(Allocations[t].Data) \in Nat \ {0}
      BY <1>2, <1>4, <2>2, WellFields DEF Apart, al
    <3>2. n > m => a + m + (n - m) <= t \/ t + Len(Allocations[t].Data) <= a + m
      BY <1>4 DEF IsFree, Size
    <3>3. a + n <= t
      BY <1>1, <3>1, <3>2
    <3> QED
      BY <1>6, <1>8, <2>2, <3>3
  <2> QED
    BY <2>1, <2>2
<1> QED
  BY <1>7, <1>9 DEF IsReversible

LEMMA SizesAreNumbers ==
  /\ \A n \in Sizes : n \in Nat
  /\ \A n \in 1..MaxSize : n \in Nat /\ n \in Sizes
  /\ Addresses \subseteq Nat
BY ConstantsAssumption DEF Sizes

\* A memory event was applied, and can be taken back.
Advances(e) ==
  /\ e \in EventSet /\ IsReversible(e)
  /\ Len(events) < MaxEvents /\ events' = Append(events, e) /\ past' = Append(past, View)

LEMMA AllocationsAdvance ==
  ASSUME Well(Allocations, PreviousAllocations), Apart(Allocations),
         NEW a \in Addresses, NEW n \in Sizes,
         allocationAdd(a, n) \/ allocationRemove(a, n)
  PROVE  \E e : Advances(e)
<1>1. CASE allocationAdd(a, n)
  <2> DEFINE e == Event("add", a, n)
  <2>1. e \in EventSet /\ e.op = "add" /\ e.address = a /\ e.size = n
    BY DEF Event, EventSet
  <2>2. AddAllocation(a, n) /\ Applied(e)
    BY <1>1 DEF allocationAdd
  <2> HIDE DEF e
  <2>3. ~Restores(e) /\ ~Edits(e, Allocations) /\ (Drops(e) <=> n # 0)
    BY <2>1 DEF Restores, Edits, Drops
  <2>4. IsReversible(e)
    BY <2>1, <2>2, <2>3, AddStep
  <2> QED
    BY <2>1, <2>2, <2>4 DEF Advances, Applied
<1>2. CASE allocationRemove(a, n)
  <2> DEFINE e == Event("remove", a, n)
  <2>1. e \in EventSet /\ e.op = "remove" /\ e.address = a /\ e.size = n
    BY DEF Event, EventSet
  <2>2. RemoveAllocation(a, n) /\ Applied(e)
    BY <1>2 DEF allocationRemove
  <2> HIDE DEF e
  <2>3. ~Drops(e) /\ ~Edits(e, Allocations) /\ (Restores(e) <=> n # 0)
    BY <2>1 DEF Restores, Edits, Drops
  <2>4. IsReversible(e)
    BY <2>1, <2>2, <2>3, RemoveStep
  <2> QED
    BY <2>1, <2>2, <2>4 DEF Advances, Applied
<1> QED
  BY <1>1, <1>2

LEMMA ResizeAdvances ==
  ASSUME Well(Allocations, PreviousAllocations), Apart(Allocations),
         NEW a \in Addresses, NEW current \in Sizes, NEW size \in Sizes,
         allocationResize(a, current, size)
  PROVE  \E e : Advances(e)
<1> DEFINE e == [op |-> "resize", address |-> a, current |-> current, size |-> size]
<1>1. e \in EventSet /\ e.op = "resize" /\ e.address = a /\ e.size = size /\ e.current = current
  BY DEF Event, EventSet
<1>2. Applied(e)
  BY DEF allocationResize
<1> HIDE DEF e
<1>3. CASE current = 0
  <2>1. AddAllocation(a, size)
    BY <1>3 DEF allocationResize
  <2>2. ~Restores(e) /\ ~Edits(e, Allocations) /\ (Drops(e) <=> size # 0)
    BY <1>1, <1>3 DEF Restores, Edits, Drops
  <2>3. IsReversible(e)
    BY <1>1, <2>1, <2>2, AddStep
  <2> QED
    BY <1>1, <1>2, <2>3 DEF Advances, Applied
<1>4. CASE current # 0 /\ size = 0
  <2>1. RemoveAllocation(a, current)
    BY <1>4 DEF allocationResize
  <2>2. ~Drops(e) /\ ~Edits(e, Allocations) /\ (Restores(e) <=> current # 0)
    BY <1>1, <1>4 DEF Restores, Edits, Drops
  <2>3. IsReversible(e)
    BY <1>1, <2>1, <2>2, RemoveStep
  <2> QED
    BY <1>1, <1>2, <2>3 DEF Advances, Applied
<1>5. CASE current # 0 /\ size # 0
  <2>1. ResizeInPlace(a, current, size)
    BY <1>5 DEF allocationResize
  <2>2. IsReversible(e)
    BY <1>1, <1>5, <2>1, ResizeStep
  <2> QED
    BY <1>1, <1>2, <2>2 DEF Advances, Applied
<1> QED
  BY <1>3, <1>4, <1>5

LEMMA BytesFacts ==
  ASSUME NEW data \in Bytes
  PROVE  data \in Seq(Byte) /\ Len(data) \in Sizes /\ Len(data) \in Nat \ {0}
         /\ data \in Seq(Values) /\ DOMAIN data = 1..Len(data)
<1>1. PICK n \in 1..MaxSize : data \in [1..n -> Values]
  BY DEF Bytes
<1>2. n \in Nat /\ n \in Sizes /\ n # 0
  BY <1>1, ConstantsAssumption DEF Sizes
<1>3. data \in [1..n -> Byte]
  BY <1>1 DEF Byte
<1> QED
  BY <1>1, <1>2, <1>3, FunctionIsSeq

LEMMA BlockAdvances ==
  ASSUME Well(Allocations, PreviousAllocations), Apart(Allocations),
         NEW a \in Addresses, NEW data \in Bytes, addBlock(a, data)
  PROVE  \E e : Advances(e)
<1> DEFINE n == Len(data)
           e == Event("block", a, n)
           s == StartIn(Allocations, a)
           x == addArea(Allocations[s], a, data, Ones(n))
<1>1. data \in Seq(Byte) /\ n \in Sizes /\ n \in Nat /\ a \in Nat
  BY BytesFacts, SizesAreNumbers
<1> HIDE DEF n
<1>2. e \in EventSet /\ e.op = "block" /\ e.address = a /\ e.size = n
  BY <1>1 DEF Event, EventSet
<1>3. /\ FoundIn(Allocations, a, n) /\ Applied(e)
      /\ Allocations' = PutIn(Allocations, s, x) /\ PreviousAllocations' = PreviousAllocations
  BY CurrentMemory DEF addBlock, n
<1>4. s \in DOMAIN Allocations /\ Covers(Allocations[s], a, n)
  BY <1>1, <1>3, FoundFacts DEF Well
<1>5. Formed(Allocations[s])
  BY <1>4, WellFields
<1>6. Ones(n) \in Seq(Bit) /\ n = Len(Ones(n)) /\ n = Len(data)
  BY <1>1, Constant DEF n
<1>7. Formed(x) /\ HasSaved(x, Allocations[s], a, n)
  BY <1>1, <1>4, <1>5, <1>6, AddSaves
<1> HIDE DEF e, s, x
<1>8. IsReversible(e)
  BY <1>2, <1>3, <1>7, SavedStep DEF s
<1> QED
  BY <1>2, <1>3, <1>8 DEF Advances, Applied

LEMMA ClearAdvances ==
  ASSUME Well(Allocations, PreviousAllocations), Apart(Allocations),
         NEW a \in Addresses, NEW n \in 1..MaxSize, addClear(a, n)
  PROVE  \E e : Advances(e)
<1> DEFINE e == Event("clear", a, n)
           s == StartIn(Allocations, a)
           x == clearArea(Allocations[s], a, n)
<1>1. n \in Sizes /\ n \in Nat /\ a \in Nat
  BY SizesAreNumbers
<1>2. e \in EventSet /\ e.op = "clear" /\ e.address = a /\ e.size = n
  BY <1>1 DEF Event, EventSet
<1>3. Applied(e) /\ PreviousAllocations' = PreviousAllocations
  BY DEF addClear
<1>4. CASE FoundIn(Allocations, a, n)
  <2>1. Allocations' = PutIn(Allocations, s, x)
    BY <1>4, CurrentMemory DEF addClear
  <2>2. s \in DOMAIN Allocations /\ Covers(Allocations[s], a, n)
    BY <1>1, <1>4, FoundFacts DEF Well
  <2>3. Formed(Allocations[s])
    BY <2>2, WellFields
  <2>4. Formed(x) /\ HasSaved(x, Allocations[s], a, n)
    BY <1>1, <2>2, <2>3, ClearSaves
  <2> HIDE DEF e, s, x
  <2>5. IsReversible(e)
    BY <1>2, <1>3, <1>4, <2>1, <2>4, SavedStep DEF s
  <2> QED
    BY <1>2, <1>3, <2>5 DEF Advances, Applied
<1>5. CASE ~FoundIn(Allocations, a, n)
  <2>1. Allocations' = Allocations
    BY <1>5, CurrentMemory DEF addClear
  <2> HIDE DEF e
  <2>2. ~Drops(e) /\ ~Restores(e) /\ ~Edits(e, Allocations)
    BY <1>2, <1>5 DEF Drops, Restores, Edits
  <2>3. IsReversible(e)
    BY <1>2, <1>3, <2>1, <2>2, NothingIsReversible DEF IsReversible
  <2> QED
    BY <1>2, <1>3, <2>3 DEF Advances, Applied
<1> QED
  BY <1>4, <1>5

(***************************************************************************)
(* What addCopy writes: as many bytes as it copies.                         *)
(***************************************************************************)
Overlap(from, to, n) == from < to + n /\ to < from + n
CopyOf(seq, from, to, s, t, n, order) ==
  IF Overlap(from, to, n) THEN Memcpy(seq, from - s, to - t, n, order)
  ELSE Slice(seq, from - s, n)

LEMMA CopyFacts ==
  ASSUME NEW S, NEW seq \in Seq(S), NEW from \in Nat, NEW to \in Nat, NEW n \in Nat,
         NEW s \in Nat, NEW t \in Nat, NEW order, s <= from, from + n <= s + Len(seq), t <= to,
         Overlap(from, to, n) => s = t
  PROVE  /\ CopyOf(seq, from, to, s, t, n, order) \in Seq(S)
         /\ Len(CopyOf(seq, from, to, s, t, n, order)) = n
<1> DEFINE k == from - s
           j == to - t
<1>1. k \in Nat /\ j \in Nat /\ k + n <= Len(seq)
      /\ (Overlap(from, to, n) => k < j + n /\ j < k + n)
  BY DEF Overlap
<1>2. CopyOf(seq, from, to, s, t, n, order)
        = IF Overlap(from, to, n) THEN Memcpy(seq, k, j, n, order) ELSE Slice(seq, k, n)
  BY DEF CopyOf
<1> HIDE DEF k, j
<1>3. Slice(seq, k, n) \in Seq(S) /\ Len(Slice(seq, k, n)) = n
  BY <1>1, SliceFacts
<1>4. Overlap(from, to, n) => /\ Memcpy(seq, k, j, n, order) \in Seq(S)
                              /\ Len(Memcpy(seq, k, j, n, order)) = n
  BY <1>1, MemcpyFacts
<1> QED
  BY <1>2, <1>3, <1>4

\* Areas of different allocations do not overlap.
LEMMA OverlapWithin ==
  ASSUME NEW A, NEW P, Well(A, P), Apart(A), NEW from \in Nat, NEW to \in Nat, NEW n \in Nat,
         FoundIn(A, from, n), FoundIn(A, to, n), Overlap(from, to, n)
  PROVE  StartIn(A, from) = StartIn(A, to)
<1> DEFINE s == StartIn(A, from)
           t == StartIn(A, to)
<1>1. s \in DOMAIN A /\ Covers(A[s], from, n) /\ t \in DOMAIN A /\ Covers(A[t], to, n)
  BY FoundFacts DEF Well
<1>2. s \in Nat /\ t \in Nat /\ A[s].Address = s /\ A[t].Address = t
      /\ Len(A[s].Data) \in Nat /\ Len(A[t].Data) \in Nat
  BY <1>1, WellFields
<1>3. from + n <= s + Len(A[s].Data) /\ to + n <= t + Len(A[t].Data) /\ s <= from /\ t <= to
  BY <1>1, <1>2 DEF Covers, Size
<1>4. (s < t => s + Len(A[s].Data) <= t) /\ (t < s => t + Len(A[t].Data) <= s)
  BY <1>1 DEF Apart
<1>5. from < to + n /\ to < from + n
  BY DEF Overlap
<1> HIDE DEF s, t
<1> DEFINE k == s + Len(A[s].Data)
           j == t + Len(A[t].Data)
<1>a. k \in Nat /\ j \in Nat
  BY <1>2
<1>6. /\ s \in Nat /\ t \in Nat /\ k \in Nat /\ j \in Nat
      /\ from + n <= k /\ to + n <= j /\ s <= from /\ t <= to
      /\ (s < t => k <= t) /\ (t < s => j <= s)
  BY <1>2, <1>3, <1>4, <1>a
<1> HIDE DEF k, j
<1>7. ~(s < t) /\ ~(t < s)
  BY <1>5, <1>6
<1>8. s = t
  BY <1>6, <1>7
<1> QED
  BY <1>8 DEF s, t

LEMMA CopyAdvances ==
  ASSUME Well(Allocations, PreviousAllocations), Apart(Allocations),
         NEW from \in Addresses, NEW to \in Addresses, NEW n \in 1..MaxSize,
         NEW order, addCopy(from, to, n, order)
  PROVE  \E e : Advances(e)
<1> DEFINE e == Event("copy", to, n)
           s == StartIn(Allocations, from)
           t == StartIn(Allocations, to)
           target == Allocations[t]
           source == IF s = t THEN clearArea(target, to, n) ELSE Allocations[s]
           data == CopyOf(source.Data, from, to, s, t, n, order)
           init == CopyOf(source.Init, from, to, s, t, n, order)
           x == addArea(target, to, data, init)
<1>1. n \in Sizes /\ n \in Nat /\ from \in Nat /\ to \in Nat
  BY SizesAreNumbers
<1>2. e \in EventSet /\ e.op = "copy" /\ e.address = to /\ e.size = n
  BY <1>1 DEF Event, EventSet
<1>3. /\ Applied(e) /\ PreviousAllocations' = PreviousAllocations
      /\ FoundIn(Allocations, from, n) /\ FoundIn(Allocations, to, n)
      /\ Allocations' = PutIn(Allocations, t, x)
  BY CurrentMemory DEF addCopy, CopyOf, Overlap
<1>4. /\ s \in DOMAIN Allocations /\ Covers(Allocations[s], from, n)
      /\ t \in DOMAIN Allocations /\ Covers(target, to, n)
  BY <1>1, <1>3, FoundFacts DEF Well
<1>5. /\ s \in Nat /\ t \in Nat /\ Allocations[s].Address = s /\ target.Address = t
      /\ Formed(Allocations[s]) /\ Formed(target)
  BY <1>4, WellFields
<1>6. Overlap(from, to, n) => s = t
  BY <1>1, <1>3, OverlapWithin
<1>7. Formed(source) /\ Len(source.Data) = Len(Allocations[s].Data)
  <2>1. Formed(clearArea(target, to, n)) /\ HasSaved(clearArea(target, to, n), target, to, n)
    BY <1>1, <1>4, <1>5, ClearSaves
  <2> QED
    BY <1>5, <2>1 DEF HasSaved
<1>8. s <= from /\ from + n <= s + Len(Allocations[s].Data) /\ t <= to
  BY <1>4, <1>5 DEF Covers, Size
<1> HIDE DEF s, t, target, source
<1>9. source.Data \in Seq(Byte) /\ source.Init \in Seq(Bit) /\ Len(source.Init) = Len(source.Data)
  <2>1. source \in Allocation /\ Len(source.Init) = Len(source.Data)
    BY <1>7 DEF Formed
  <2> QED
    BY <2>1, AllocationFields
<1>10. data \in Seq(Byte) /\ Len(data) = n
  <2> DEFINE q == source.Data
  <2>1. q \in Seq(Byte) /\ from + n <= s + Len(q)
    BY <1>7, <1>8, <1>9
  <2> HIDE DEF q
  <2>a. /\ from \in Nat /\ to \in Nat /\ n \in Nat /\ s \in Nat /\ t \in Nat
        /\ s <= from /\ t <= to /\ (Overlap(from, to, n) => s = t)
    BY <1>1, <1>5, <1>6, <1>8
  <2>2. /\ CopyOf(q, from, to, s, t, n, order) \in Seq(Byte)
        /\ Len(CopyOf(q, from, to, s, t, n, order)) = n
    BY <2>1, <2>a, CopyFacts, SMTT(30)
  <2> QED
    BY <2>2 DEF q
<1>11. init \in Seq(Bit) /\ Len(init) = n
  <2> DEFINE q == source.Init
  <2>1. q \in Seq(Bit) /\ from + n <= s + Len(q)
    BY <1>7, <1>8, <1>9
  <2> HIDE DEF q
  <2>a. /\ from \in Nat /\ to \in Nat /\ n \in Nat /\ s \in Nat /\ t \in Nat
        /\ s <= from /\ t <= to /\ (Overlap(from, to, n) => s = t)
    BY <1>1, <1>5, <1>6, <1>8
  <2>2. /\ CopyOf(q, from, to, s, t, n, order) \in Seq(Bit)
        /\ Len(CopyOf(q, from, to, s, t, n, order)) = n
    BY <2>1, <2>a, CopyFacts, SMTT(30)
  <2> QED
    BY <2>2 DEF q
<1> HIDE DEF data, init
<1>12. Formed(x) /\ HasSaved(x, target, to, n)
  BY <1>1, <1>4, <1>5, <1>10, <1>11, AddSaves
<1> HIDE DEF e, x
<1>13. IsReversible(e)
  BY <1>2, <1>3, <1>12, SavedStep DEF t, target
<1> QED
  BY <1>2, <1>3, <1>13 DEF Advances, Applied

\* Every operation that moves forward can be taken back.
LEMMA ForwardAdvances ==
  ASSUME Well(Allocations, PreviousAllocations), Apart(Allocations), MoveForward
  PROVE  \E e : Advances(e)
<1>1. CASE \E a \in Addresses, n \in Sizes : allocationAdd(a, n) \/ allocationRemove(a, n)
  BY <1>1, AllocationsAdvance
<1>2. CASE \E a \in Addresses, current, size \in Sizes : allocationResize(a, current, size)
  BY <1>2, ResizeAdvances
<1>3. CASE \E a \in Addresses, data \in Bytes : addBlock(a, data)
  BY <1>3, BlockAdvances
<1>4. CASE \E from, to \in Addresses, n \in 1..MaxSize,
             order \in {"whole", "ascending", "descending"} : addCopy(from, to, n, order)
  BY <1>4, CopyAdvances
<1>5. CASE \E a \in Addresses, n \in 1..MaxSize : addClear(a, n)
  BY <1>5, ClearAdvances
<1> QED
  BY <1>1, <1>2, <1>3, <1>4, <1>5 DEF MoveForward

-----------------------------------------------------------------------------
(***************************************************************************)
(* Moving backward.                                                         *)
(***************************************************************************)
Retreats(e) ==
  /\ CanBack(e, Allocations, PreviousAllocations)
  /\ Allocations' = BackA(e, Allocations, PreviousAllocations)
  /\ PreviousAllocations' = BackP(e, PreviousAllocations)

\* What the operations that move backward have in common.
LEMMA BackwardRetreats ==
  ASSUME events \in Seq(EventSet), MoveBackward
  PROVE  /\ events # <<>> /\ Last(events) \in EventSet /\ Retreats(Last(events))
         /\ events' = Front(events) /\ past' = Front(past)
<1> DEFINE e == Last(events)
<1>1. events # <<>>
  BY DEF MoveBackward, allocationUnadd, allocationUnremove, allocationUnresize, removeBlock,
         removeCopy, removeClear, IsLast
<1>2. e \in EventSet
  BY <1>1, FrontFacts
<1>3. TakenBack
  BY DEF MoveBackward, allocationUnadd, allocationUnremove, allocationUnresize, removeBlock,
         removeCopy, removeClear
<1> DEFINE a == e.address
           n == e.size
           A == Allocations
           P == PreviousAllocations
<1>4. CASE allocationUnadd
  <2>1. e.op = "add" /\ Unadd(a, n)
    BY <1>4 DEF allocationUnadd, IsLast
  <2> HIDE DEF e
  <2>2. ~Restores(e) /\ ~Edits(e, A) /\ (Drops(e) <=> n # 0)
    BY <2>1 DEF Drops, Restores, Edits
  <2>3. CanBack(e, A, P)
    BY <2>1, <2>2 DEF CanBack, Unadd, CanUnadd
  <2>4. A' = BackA(e, A, P) /\ P' = BackP(e, P)
    BY <2>1, <2>2, CurrentMemory DEF Unadd, BackA, BackP
  <2> QED
    BY <1>1, <1>2, <1>3, <2>3, <2>4 DEF Retreats, TakenBack, e
<1>5. CASE allocationUnremove
  <2>1. e.op = "remove" /\ Unremove(a, n)
    BY <1>5 DEF allocationUnremove, IsLast
  <2> HIDE DEF e
  <2>2. ~Drops(e) /\ ~Edits(e, A) /\ (Restores(e) <=> n # 0)
    BY <2>1 DEF Drops, Restores, Edits
  <2>3. CanBack(e, A, P)
    BY <2>1, <2>2 DEF CanBack, Unremove, CanUnremove
  <2>4. A' = BackA(e, A, P) /\ P' = BackP(e, P)
    BY <2>1, <2>2, CurrentMemory DEF Unremove, BackA, BackP
  <2> QED
    BY <1>1, <1>2, <1>3, <2>3, <2>4 DEF Retreats, TakenBack, e
<1>6. CASE allocationUnresize
  <2> DEFINE c == e.current
  <2>1. /\ e.op = "resize" /\ CanUnresize(a, n, c)
        /\ n = 0 => Unremove(a, c)
        /\ n # 0 /\ c = 0 => Unadd(a, n)
        /\ n # 0 /\ c # 0 => UnresizeInPlace(a, n, c)
    BY <1>6 DEF allocationUnresize, IsLast
  <2> HIDE DEF e
  <2>2. CASE n = 0
    <3>1. ~Drops(e) /\ ~Edits(e, A) /\ (Restores(e) <=> c # 0)
      BY <2>1, <2>2 DEF Drops, Restores, Edits
    <3>2. CanBack(e, A, P)
      BY <2>1, <2>2, <3>1 DEF CanBack, Unremove, CanUnremove
    <3>3. A' = BackA(e, A, P) /\ P' = BackP(e, P)
      BY <2>1, <2>2, <3>1, CurrentMemory DEF Unremove, BackA, BackP
    <3> QED
      BY <1>1, <1>2, <1>3, <3>2, <3>3 DEF Retreats, TakenBack, e
  <2>3. CASE n # 0 /\ c = 0
    <3>1. ~Restores(e) /\ ~Edits(e, A) /\ Drops(e)
      BY <2>1, <2>3 DEF Drops, Restores, Edits
    <3>2. CanBack(e, A, P)
      BY <2>1, <2>3, <3>1 DEF CanBack, Unadd, CanUnadd
    <3>3. A' = BackA(e, A, P) /\ P' = BackP(e, P)
      BY <2>1, <2>3, <3>1, CurrentMemory DEF Unadd, BackA, BackP
    <3> QED
      BY <1>1, <1>2, <1>3, <3>2, <3>3 DEF Retreats, TakenBack, e
  <2>4. CASE n # 0 /\ c # 0
    <3> DEFINE s == StartIn(A, a)
    <3>1. ~Restores(e) /\ Edits(e, A) /\ ~Drops(e)
      BY <2>1, <2>4 DEF Drops, Restores, Edits
    <3>2. /\ FoundIn(A, a, n) /\ Size(A[s]) = n
          /\ c > n => CanRewind(resize(A[s], c), a + n, c - n)
      BY <2>1, <2>4, CurrentMemory DEF CanUnresize
    <3>3. CanBack(e, A, P)
      BY <2>1, <3>1, <3>2 DEF CanBack, CanUndo
    <3>4. A' = PutIn(A, s, Undone(e, A[s])) /\ P' = P
      BY <2>1, <2>4, CurrentMemory DEF UnresizeInPlace, Undone
    <3>5. A' = BackA(e, A, P) /\ P' = BackP(e, P)
      BY <3>1, <3>4 DEF BackA, BackP
    <3> QED
      BY <1>1, <1>2, <1>3, <3>3, <3>5 DEF Retreats, TakenBack, e
  <2> QED
    BY <2>2, <2>3, <2>4
<1>7. ASSUME e.op \in {"block", "copy", "clear"}, RewindAt(a, n)
      PROVE  Retreats(e)
  <2> DEFINE s == StartIn(A, a)
  <2> HIDE DEF e
  <2>1. /\ FoundIn(A, a, n) /\ CanRewind(A[s], a, n)
        /\ A' = PutIn(A, s, rewindArea(A[s], a, n)) /\ P' = P
    BY <1>7, CurrentMemory DEF RewindAt, CanRewindAt
  <2>2. ~Restores(e) /\ Edits(e, A) /\ ~Drops(e)
    BY <1>7, <2>1 DEF Drops, Restores, Edits
  <2>3. CanUndo(e, A[s]) /\ Undone(e, A[s]) = rewindArea(A[s], a, n)
    BY <1>7, <2>1 DEF CanUndo, Undone
  <2>4. CanBack(e, A, P)
    BY <2>1, <2>2, <2>3 DEF CanBack
  <2>5. A' = BackA(e, A, P) /\ P' = BackP(e, P)
    BY <2>1, <2>2, <2>3 DEF BackA, BackP
  <2> QED
    BY <2>4, <2>5 DEF Retreats
<1>8. CASE removeBlock \/ removeCopy
  <2>1. e.op \in {"block", "copy", "clear"} /\ RewindAt(a, n)
    BY <1>8 DEF removeBlock, removeCopy, IsLast
  <2> QED
    BY <1>1, <1>2, <1>3, <1>7, <2>1 DEF TakenBack
<1>9. CASE removeClear
  <2>1. e.op = "clear" /\ (FoundIn(A, a, n) => RewindAt(a, n))
        /\ (~FoundIn(A, a, n) => A' = A /\ P' = P)
    BY <1>9, CurrentMemory DEF removeClear, IsLast
  <2>2. CASE FoundIn(A, a, n)
    BY <1>1, <1>2, <1>3, <1>7, <2>1, <2>2 DEF TakenBack
  <2>3. CASE ~FoundIn(A, a, n)
    <3> HIDE DEF e
    <3>1. ~Restores(e) /\ ~Edits(e, A) /\ ~Drops(e)
      BY <2>1, <2>3 DEF Drops, Restores, Edits
    <3>2. Retreats(e)
      BY <2>1, <2>3, <3>1 DEF CanBack, BackA, BackP, Retreats
    <3> QED
      BY <1>1, <1>2, <1>3, <3>2 DEF TakenBack, e
  <2> QED
    BY <2>2, <2>3
<1> QED
  BY <1>4, <1>5, <1>6, <1>8, <1>9 DEF MoveBackward

\* CanBack is what the assertions of the operations say.
LEMMA BackMeansTakenBack ==
  ASSUME events \in Seq(EventSet), events # <<>>,
         CanBack(Last(events), Allocations, PreviousAllocations)
  PROVE  LET e == Last(events)
         IN  CASE e.op = "add"    -> CanUnadd(e.address, e.size)
               [] e.op = "remove" -> CanUnremove(e.address, e.size)
               [] e.op = "resize" -> CanUnresize(e.address, e.size, e.current)
               [] e.op \in {"block", "copy"} -> CanRewindAt(e.address, e.size)
               [] e.op = "clear"  -> Found(e.address, e.size) => CanRewindAt(e.address, e.size)
<1> DEFINE e == Last(events)
           a == e.address
           n == e.size
           A == Allocations
           P == PreviousAllocations
<1>1. e.op \in {"add", "remove", "block", "copy", "clear", "resize"}
  BY FrontFacts, EventFields
<1> HIDE DEF e
<1>2. /\ Drops(e) => a \in DOMAIN A
      /\ Restores(e) => P # <<>> /\ Last(P).Address = a /\ a \notin DOMAIN A
      /\ Edits(e, A) => FoundIn(A, a, n) /\ CanUndo(e, A[StartIn(A, a)])
  BY DEF CanBack, e
<1>3. CASE e.op = "add"
  <2>1. CanUnadd(a, n)
    BY <1>2, <1>3 DEF CanUnadd, Drops
  <2> QED
    BY <1>3, <2>1 DEF e
<1>4. CASE e.op = "remove"
  <2>1. CanUnremove(a, n)
    BY <1>2, <1>4 DEF CanUnremove, Restores
  <2> QED
    BY <1>4, <2>1 DEF e
<1>5. CASE e.op = "resize"
  <2>1. CASE n = 0
    <3>1. CanUnremove(a, e.current)
      BY <1>2, <1>5, <2>1 DEF CanUnremove, Restores
    <3> QED
      BY <1>5, <2>1, <3>1 DEF CanUnresize, e
  <2>2. CASE n # 0 /\ e.current = 0
    <3>1. CanUnadd(a, n)
      BY <1>2, <1>5, <2>2 DEF CanUnadd, Drops
    <3> QED
      BY <1>5, <2>2, <3>1 DEF CanUnresize, e
  <2>3. CASE n # 0 /\ e.current # 0
    <3>1. FoundIn(A, a, n) /\ CanUndo(e, A[StartIn(A, a)])
      BY <1>2, <1>5, <2>3 DEF Edits
    <3>2. CanUnresize(a, n, e.current)
      BY <1>5, <2>3, <3>1, CurrentMemory DEF CanUnresize, CanUndo
    <3> QED
      BY <1>5, <3>2 DEF e
  <2> QED
    BY <2>1, <2>2, <2>3
<1>6. ASSUME e.op \in {"block", "copy", "clear"}, e.op = "clear" => Found(a, n)
      PROVE  CanRewindAt(a, n)
  <2>1. FoundIn(A, a, n) /\ CanUndo(e, A[StartIn(A, a)])
    BY <1>2, <1>6, CurrentMemory DEF Edits
  <2> QED
    BY <1>6, <2>1, CurrentMemory DEF CanRewindAt, CanUndo
<1>7. CASE e.op \in {"block", "copy"}
  BY <1>6, <1>7 DEF e
<1>8. CASE e.op = "clear"
  BY <1>6, <1>8 DEF e
<1> QED
  BY <1>1, <1>3, <1>4, <1>5, <1>7, <1>8

-----------------------------------------------------------------------------
(***************************************************************************)
(* The invariant.  The current memory cannot be told apart from the last    *)
(* state of a history: the states between the events, from each of which    *)
(* taking back its event leads to the one before it, and of each of which   *)
(* past shows what a viewer saw.                                            *)
(***************************************************************************)
ViewOf(A) == [s \in DOMAIN A |-> Shown(A[s])]
ViewSet   == UNION {[D -> Seq(Byte \cup {Uninit})] : D \in SUBSET Addresses}

History(hA, hP) ==
  /\ \A i \in 1..(Len(events) + 1) : Well(hA[i], hP[i]) /\ Apart(hA[i])
  /\ \A i \in 1..Len(events) :
       /\ CanBack(events[i], hA[i + 1], hP[i + 1])
       /\ SameMemory(BackA(events[i], hA[i + 1], hP[i + 1]), BackP(events[i], hP[i + 1]),
                     hA[i], hP[i])
       /\ past[i] = ViewOf(hA[i])
  /\ SameMemory(Allocations, PreviousAllocations,
                hA[Len(events) + 1], hP[Len(events) + 1])

MemoryInv ==
  /\ Well(Allocations, PreviousAllocations)
  /\ events \in Seq(EventSet) /\ Len(events) <= MaxEvents
  /\ past \in Seq(ViewSet) /\ Len(past) = Len(events)
  /\ \E hA, hP : History(hA, hP)

LEMMA ShownFacts ==
  ASSUME NEW x, Formed(x)
  PROVE  /\ Shown(x) \in Seq(Byte \cup {Uninit}) /\ Len(Shown(x)) = Len(x.Data)
         /\ \A i \in 1..Len(x.Data) :
              Shown(x)[i] = IF x.Init[i] = Complete THEN x.Data[i] ELSE Uninit
<1>1. x.Data \in Seq(Byte) /\ Len(x.Data) \in Nat
  <2>1. x \in Allocation
    BY DEF Formed
  <2> QED
    BY <2>1, AllocationFields
<1>2. Shown(x) \in [1..Len(x.Data) -> Byte \cup {Uninit}]
  BY <1>1 DEF Shown, Size
<1>3. \A i \in 1..Len(x.Data) : Shown(x)[i] = IF x.Init[i] = Complete THEN x.Data[i] ELSE Uninit
  BY DEF Shown, Size
<1> QED
  BY <1>1, <1>2, <1>3, FunctionIsSeq

LEMMA SameShown ==
  ASSUME NEW x, NEW y, Same(x, y)
  PROVE  Shown(x) = Shown(y)
BY DEF Same, Shown, Size

LEMMA SameView ==
  ASSUME NEW A, NEW P, NEW B, NEW Q, SameMemory(A, P, B, Q)
  PROVE  ViewOf(A) = ViewOf(B)
<1>1. DOMAIN A = DOMAIN B
  BY DEF SameMemory
<1>2. \A s \in DOMAIN A : Shown(A[s]) = Shown(B[s])
  BY SameShown DEF SameMemory
<1> QED
  BY <1>1, <1>2 DEF ViewOf

LEMMA ViewInSet ==
  ASSUME NEW A, NEW P, Well(A, P)
  PROVE  ViewOf(A) \in ViewSet
<1>1. DOMAIN A \in SUBSET Addresses
  BY DEF Well
<1>2. \A s \in DOMAIN A : Shown(A[s]) \in Seq(Byte \cup {Uninit})
  BY ShownFacts DEF Well
<1>3. ViewOf(A) \in [DOMAIN A -> Seq(Byte \cup {Uninit})]
  BY <1>2 DEF ViewOf
<1> QED
  BY <1>1, <1>3 DEF ViewSet

\* The allocations of memories that are the same are in the same places.
LEMMA SameApart ==
  ASSUME NEW A, NEW P, NEW B, NEW Q, SameMemory(A, P, B, Q), Apart(B)
  PROVE  Apart(A)
<1>1. DOMAIN A = DOMAIN B /\ \A s \in DOMAIN A : Len(A[s].Data) = Len(B[s].Data)
  BY DEF SameMemory, Same
<1> QED
  BY <1>1, SamePlaces

LEMMA InvIsApart ==
  ASSUME MemoryInv
  PROVE  Apart(Allocations)
<1>1. PICK hA, hP : History(hA, hP)
  BY DEF MemoryInv
<1>2. Len(events) + 1 \in 1..(Len(events) + 1)
  BY DEF MemoryInv
<1>3. /\ Apart(hA[Len(events) + 1])
      /\ SameMemory(Allocations, PreviousAllocations, hA[Len(events) + 1], hP[Len(events) + 1])
  BY <1>1, <1>2 DEF History
<1> QED
  BY <1>3, SameApart

\* The latest event can be taken back, and that shows what was seen before it.
LEMMA LatestIsReversible ==
  ASSUME MemoryInv, events # <<>>
  PROVE  LET e == Last(events)
             A == Allocations
             P == PreviousAllocations
         IN  /\ CanBack(e, A, P) /\ Well(BackA(e, A, P), BackP(e, P))
             /\ ViewOf(BackA(e, A, P)) = Last(past) /\ past # <<>>
             /\ \A hA, hP : History(hA, hP) =>
                  SameMemory(BackA(e, A, P), BackP(e, P), hA[Len(events)], hP[Len(events)])
<1> DEFINE e == Last(events)
           A == Allocations
           P == PreviousAllocations
           n == Len(events)
<1>1. /\ Well(A, P) /\ events \in Seq(EventSet)
      /\ past \in Seq(ViewSet) /\ Len(past) = Len(events)
  BY DEF MemoryInv
<1>2. n \in Nat \ {0} /\ e = events[n] /\ e \in EventSet /\ n \in 1..n /\ n + 1 \in 1..(n + 1)
  <2>1. n \in Nat \ {0} /\ e = events[n] /\ e \in EventSet
    BY <1>1, FrontFacts
  <2>2. \A k \in Nat \ {0} : k \in 1..k /\ k + 1 \in 1..(k + 1)
    OBVIOUS
  <2> QED
    BY <2>1, <2>2
<1>3. past # <<>> /\ Last(past) = past[n]
  <2>1. past # <<>>
    BY <1>1, <1>2
  <2> QED
    BY <1>1, <2>1, FrontFacts
<1> HIDE DEF n, e
<1>4. ASSUME NEW hA, NEW hP, History(hA, hP)
      PROVE  /\ CanBack(e, A, P) /\ past[n] = ViewOf(hA[n])
             /\ SameMemory(BackA(e, A, P), BackP(e, P), hA[n], hP[n])
  <2>1. /\ Well(hA[n + 1], hP[n + 1])
        /\ SameMemory(A, P, hA[n + 1], hP[n + 1])
        /\ CanBack(e, hA[n + 1], hP[n + 1])
        /\ SameMemory(BackA(e, hA[n + 1], hP[n + 1]), BackP(e, hP[n + 1]), hA[n], hP[n])
        /\ past[n] = ViewOf(hA[n])
    BY <1>2, <1>4 DEF History, n
  <2>2. SameMemory(hA[n + 1], hP[n + 1], A, P)
    BY <2>1, SameIsEquivalence DEF SameMemory
  <2>3. CanBack(e, A, P)
    BY <1>1, <1>2, <2>1, <2>2, SameBack
  <2>4. SameMemory(BackA(e, A, P), BackP(e, P),
                   BackA(e, hA[n + 1], hP[n + 1]), BackP(e, hP[n + 1]))
    BY <1>1, <1>2, <2>1, <2>3, SameBack
  <2>5. SameMemory(BackA(e, A, P), BackP(e, P), hA[n], hP[n])
    BY <2>1, <2>4, SameMemoryIsTransitive
  <2> QED
    BY <2>1, <2>3, <2>5
<1>5. PICK hA, hP : History(hA, hP)
  BY DEF MemoryInv
<1>6. CanBack(e, A, P) /\ past[n] = ViewOf(hA[n])
      /\ SameMemory(BackA(e, A, P), BackP(e, P), hA[n], hP[n])
  BY <1>4, <1>5
<1>7. Well(BackA(e, A, P), BackP(e, P))
  BY <1>1, <1>2, <1>6, BackWell
<1>8. ViewOf(BackA(e, A, P)) = Last(past)
  BY <1>3, <1>6, SameView
<1> QED
  BY <1>3, <1>4, <1>6, <1>7, <1>8 DEF n, e

LEMMA InvInit ==
  ASSUME Init
  PROVE  MemoryInv
<1>1. Allocations = <<>> /\ PreviousAllocations = <<>> /\ events = <<>> /\ past = <<>>
  BY DEF Init
<1>2. Well(<<>>, <<>>) /\ Apart(<<>>)
  BY DEF Well, Apart
<1>3. SameMemory(<<>>, <<>>, <<>>, <<>>)
  BY SameMemoryIsReflexive
<1> DEFINE h == [i \in {1} |-> <<>>]
<1>4. h[1] = <<>>
  OBVIOUS
<1> HIDE DEF h
<1>5. Len(events) = 0 /\ Len(past) = 0 /\ Len(events) + 1 = 1
      /\ (\A i \in 1..Len(events) : FALSE) /\ (\A i \in 1..1 : i = 1)
  BY <1>1
<1>6. History(h, h)
  BY <1>1, <1>2, <1>3, <1>4, <1>5 DEF History
<1>7. events \in Seq(EventSet) /\ Len(events) <= MaxEvents /\ past \in Seq(ViewSet)
      /\ Len(past) = Len(events)
  BY <1>1, <1>5, ConstantsAssumption
<1>8. \E hA, hP : History(hA, hP)
  BY <1>6
<1>9. Well(Allocations, PreviousAllocations)
  BY <1>1, <1>2
<1> QED
  BY <1>7, <1>8, <1>9 DEF MemoryInv

LEMMA InvForward ==
  ASSUME MemoryInv, NEW e, Advances(e)
  PROVE  MemoryInv'
<1> DEFINE A == Allocations
           P == PreviousAllocations
           n == Len(events)
<1>1. /\ Well(A, P) /\ events \in Seq(EventSet) /\ n <= MaxEvents
      /\ past \in Seq(ViewSet) /\ Len(past) = n
  BY DEF MemoryInv
<1>2. /\ e \in EventSet /\ n < MaxEvents
      /\ events' = Append(events, e) /\ past' = Append(past, View)
  BY DEF Advances
<1>3. /\ Well(A', P') /\ CanBack(e, A', P') /\ Apart(A')
      /\ SameMemory(BackA(e, A', P'), BackP(e, P'), A, P)
  BY DEF Advances, IsReversible, Reversible
<1>4. PICK hA, hP : History(hA, hP)
  BY DEF MemoryInv
<1>5. View = ViewOf(A) /\ View \in ViewSet
  BY <1>1, ViewInSet DEF View, ViewOf
<1>6. /\ events' \in Seq(EventSet) /\ Len(events') = n + 1 /\ n \in Nat
      /\ \A i \in 1..n : events'[i] = events[i]
      /\ events'[n + 1] = e
  BY <1>1, <1>2, FrontOfAppend
<1>7. /\ past' \in Seq(ViewSet) /\ Len(past') = n + 1
      /\ \A i \in 1..n : past'[i] = past[i]
      /\ past'[n + 1] = View
  BY <1>1, <1>2, <1>5, FrontOfAppend
<1>8. PICK B, Q : B = A' /\ Q = P'
  OBVIOUS
<1>a. PICK m \in Nat : m = n
  BY <1>6
<1> DEFINE gA == [i \in 1..(m + 2) |-> IF i = m + 2 THEN B ELSE hA[i]]
           gP == [i \in 1..(m + 2) |-> IF i = m + 2 THEN Q ELSE hP[i]]
<1>9. /\ gA[m + 2] = B /\ gP[m + 2] = Q
      /\ \A i \in 1..(m + 1) : gA[i] = hA[i] /\ gP[i] = hP[i]
  BY <1>a
<1> HIDE DEF gA, gP
<1>10. /\ \A i \in 1..(m + 1) : Well(hA[i], hP[i]) /\ Apart(hA[i])
       /\ \A i \in 1..m :
            /\ CanBack(events[i], hA[i + 1], hP[i + 1])
            /\ SameMemory(BackA(events[i], hA[i + 1], hP[i + 1]), BackP(events[i], hP[i + 1]),
                          hA[i], hP[i])
            /\ past[i] = ViewOf(hA[i])
       /\ SameMemory(A, P, hA[m + 1], hP[m + 1])
  BY <1>4, <1>a DEF History
<1>11. ASSUME NEW i \in 1..(m + 2) PROVE Well(gA[i], gP[i]) /\ Apart(gA[i])
  <2>1. i \in 1..(m + 1) \/ i = m + 2
    BY <1>a
  <2> QED
    BY <1>3, <1>8, <1>9, <1>10, <2>1
<1>12. ASSUME NEW i \in 1..(m + 1)
       PROVE  /\ CanBack(events'[i], gA[i + 1], gP[i + 1])
              /\ SameMemory(BackA(events'[i], gA[i + 1], gP[i + 1]),
                            BackP(events'[i], gP[i + 1]), gA[i], gP[i])
              /\ past'[i] = ViewOf(gA[i])
  <2>1. CASE i \in 1..m
    <3>1. i + 1 \in 1..(m + 1) /\ i \in 1..(m + 1)
      BY <1>a, <2>1
    <3>2. gA[i] = hA[i] /\ gP[i] = hP[i] /\ gA[i + 1] = hA[i + 1] /\ gP[i + 1] = hP[i + 1]
          /\ events'[i] = events[i] /\ past'[i] = past[i]
      BY <1>6, <1>7, <1>9, <1>a, <2>1, <3>1
    <3> QED
      BY <1>10, <2>1, <3>2
  <2>2. CASE i = m + 1
    <3>1. i + 1 = m + 2 /\ m + 1 \in 1..(m + 1)
      BY <1>a, <2>2
    <3>2. gA[i] = hA[m + 1] /\ gP[i] = hP[m + 1] /\ gA[i + 1] = B /\ gP[i + 1] = Q
          /\ events'[i] = e /\ past'[i] = View
      BY <1>6, <1>7, <1>9, <1>a, <2>2, <3>1
    <3>3. SameMemory(BackA(e, B, Q), BackP(e, Q), hA[m + 1], hP[m + 1])
      BY <1>3, <1>8, <1>10, SameMemoryIsTransitive
    <3>4. View = ViewOf(hA[m + 1])
      BY <1>5, <1>10, SameView
    <3> QED
      BY <1>3, <1>8, <3>2, <3>3, <3>4
  <2> QED
    BY <1>a, <2>1, <2>2
<1>13. SameMemory(A', P', gA[m + 2], gP[m + 2])
  BY <1>8, <1>9, SameMemoryIsReflexive
<1>14. Len(events') = m + 1 /\ Len(events') + 1 = m + 2
  BY <1>6, <1>a
<1>15. History(gA, gP)'
  BY <1>11, <1>12, <1>13, <1>14 DEF History
<1>16. (\E fA, fP : History(fA, fP))'
  BY <1>15
<1>17. Len(events') <= MaxEvents
  BY <1>2, <1>6, ConstantsAssumption
<1> QED
  BY <1>3, <1>6, <1>7, <1>16, <1>17 DEF MemoryInv

LEMMA InvBackward ==
  ASSUME MemoryInv, MoveBackward
  PROVE  MemoryInv'
<1> DEFINE A == Allocations
           P == PreviousAllocations
           e == Last(events)
           n == Len(events)
<1>1. /\ Well(A, P) /\ events \in Seq(EventSet) /\ n <= MaxEvents
      /\ past \in Seq(ViewSet) /\ Len(past) = n
  BY DEF MemoryInv
<1>2. /\ events # <<>> /\ e \in EventSet /\ Retreats(e)
      /\ events' = Front(events) /\ past' = Front(past)
  BY <1>1, BackwardRetreats
<1>3. A' = BackA(e, A, P) /\ P' = BackP(e, P)
  BY <1>2 DEF Retreats
<1>4. PICK hA, hP : History(hA, hP)
  BY DEF MemoryInv
<1>5. Well(A', P') /\ past # <<>> /\ SameMemory(A', P', hA[n], hP[n])
  BY <1>2, <1>3, <1>4, LatestIsReversible
<1>6. /\ events' \in Seq(EventSet) /\ Len(events') = n - 1 /\ n \in Nat \ {0}
      /\ \A i \in 1..(n - 1) : events'[i] = events[i]
  BY <1>1, <1>2, FrontFacts
<1>7. /\ past' \in Seq(ViewSet) /\ Len(past') = n - 1
      /\ \A i \in 1..(n - 1) : past'[i] = past[i]
  BY <1>1, <1>2, <1>5, FrontFacts
<1>8. PICK m \in Nat \ {0} : m = n
  BY <1>6
<1>9. Len(events') = m - 1 /\ Len(events') + 1 = m
      /\ \A i \in 1..(m - 1) : i \in 1..m /\ events'[i] = events[i] /\ past'[i] = past[i]
  BY <1>6, <1>7, <1>8
<1>10. /\ \A i \in 1..m : Well(hA[i], hP[i]) /\ Apart(hA[i])
       /\ \A i \in 1..m :
            /\ CanBack(events[i], hA[i + 1], hP[i + 1])
            /\ SameMemory(BackA(events[i], hA[i + 1], hP[i + 1]), BackP(events[i], hP[i + 1]),
                          hA[i], hP[i])
            /\ past[i] = ViewOf(hA[i])
  <2>1. \A i \in 1..m : i \in 1..(m + 1)
    BY <1>8
  <2> QED
    BY <1>4, <1>8, <2>1 DEF History
<1>11. History(hA, hP)'
  <2>1. \A i \in 1..(m - 1) :
          /\ CanBack(events'[i], hA[i + 1], hP[i + 1])
          /\ SameMemory(BackA(events'[i], hA[i + 1], hP[i + 1]),
                        BackP(events'[i], hP[i + 1]), hA[i], hP[i])
          /\ past'[i] = ViewOf(hA[i])
    BY <1>9, <1>10
  <2>2. SameMemory(A', P', hA[m], hP[m])
    BY <1>5, <1>8
  <2> QED
    BY <1>9, <1>10, <2>1, <2>2 DEF History
<1>12. (\E fA, fP : History(fA, fP))'
  BY <1>11
<1>13. Len(events') <= MaxEvents
  BY <1>1, <1>6, ConstantsAssumption
<1> QED
  BY <1>5, <1>6, <1>7, <1>12, <1>13 DEF MemoryInv

LEMMA InvNext ==
  ASSUME MemoryInv, [Next]_vars
  PROVE  MemoryInv'
<1>1. CASE MoveForward
  <2>1. \E e : Advances(e)
    BY <1>1, InvIsApart, ForwardAdvances DEF MemoryInv
  <2> QED
    BY <2>1, InvForward
<1>2. CASE MoveBackward
  BY <1>2, InvBackward
<1>3. CASE UNCHANGED vars
  BY <1>3 DEF vars, MemoryInv, History
<1> QED
  BY <1>1, <1>2, <1>3 DEF Next

LEMMA InvImplies ==
  ASSUME MemoryInv
  PROVE  LatestCanBeTakenBack
<1>1. TypeOK
  <2>1. /\ Well(Allocations, PreviousAllocations) /\ Len(events) <= MaxEvents
        /\ Len(past) = Len(events)
    BY DEF MemoryInv
  <2> QED
    BY <2>1 DEF Well, TypeOK, Formed, Size
<1>2. CASE events = <<>>
  BY <1>1, <1>2 DEF LatestCanBeTakenBack
<1>3. CASE events # <<>>
  <2>1. CanBack(Last(events), Allocations, PreviousAllocations) /\ events \in Seq(EventSet)
    BY <1>3, LatestIsReversible DEF MemoryInv
  <2> QED
    BY <1>1, <1>3, <2>1, BackMeansTakenBack DEF LatestCanBeTakenBack
<1> QED
  BY <1>2, <1>3

(***************************************************************************)
(* Every assertion of the operations that take back memory events           *)
(* (lib/Trace/MemoryState.cpp) holds whenever they are called, however many *)
(* events were applied before, in whichever order and however the areas     *)
(* they save share the vectors of an allocation.                            *)
(***************************************************************************)
THEOREM EventsCanBeTakenBack == Spec => []LatestCanBeTakenBack
<1>1. Init => MemoryInv
  BY InvInit
<1>2. MemoryInv /\ [Next]_vars => MemoryInv'
  BY InvNext
<1>3. MemoryInv => LatestCanBeTakenBack
  BY InvImplies
<1> QED
  BY <1>1, <1>2, <1>3, PTL DEF Spec

-----------------------------------------------------------------------------
(***************************************************************************)
(* The refinement of ReversibleMemory.                                      *)
(***************************************************************************)
LEMMA ViewFacts ==
  ASSUME NEW A, NEW P, Well(A, P)
  PROVE  /\ DOMAIN ViewOf(A) = DOMAIN A
         /\ \A s \in DOMAIN A : ViewOf(A)[s] = Shown(A[s])
         /\ \A s \in DOMAIN A : Len(ViewOf(A)[s]) = Len(A[s].Data)
<1>1. DOMAIN ViewOf(A) = DOMAIN A /\ \A s \in DOMAIN A : ViewOf(A)[s] = Shown(A[s])
  BY DEF ViewOf
<1>2. \A s \in DOMAIN A : Len(Shown(A[s])) = Len(A[s].Data)
  BY ShownFacts DEF Well
<1> QED
  BY <1>1, <1>2

LEMMA ViewIsViewOf == View = ViewOf(Allocations) /\ View' = ViewOf(Allocations')
BY DEF View, ViewOf

\* The allocation that is found is the one that holds the area.
LEMMA FoundIsAllocated ==
  ASSUME NEW A, NEW P, Well(A, P), Apart(A), NEW a \in Nat, NEW n \in Nat \ {0}
  PROVE  /\ FoundIn(A, a, n) <=> RM!IsAllocated(ViewOf(A), a, n)
         /\ FoundIn(A, a, n) => RM!StartOf(ViewOf(A), a, n) = StartIn(A, a)
<1> DEFINE s == StartIn(A, a)
           m == ViewOf(A)
<1>1. DOMAIN m = DOMAIN A /\ \A t \in DOMAIN A : Len(m[t]) = Len(A[t].Data)
  BY ViewFacts
<1> HIDE DEF m
<1>2. \A t \in DOMAIN A : RM!Holds(m, t, a, n) <=> t <= a /\ a + n <= t + Len(A[t].Data)
  BY <1>1 DEF RM!Holds
<1>3. \A t \in DOMAIN A : t \in Nat /\ A[t].Address = t /\ Len(A[t].Data) \in Nat \ {0}
  BY WellFields
<1>4. DOMAIN A \subseteq Addresses
  BY DEF Well
<1>5. ASSUME NEW t \in DOMAIN A, RM!Holds(m, t, a, n)
      PROVE  t = s /\ FoundIn(A, a, n)
  <2>1. t <= a /\ a + n <= t + Len(A[t].Data)
    BY <1>2, <1>5
  <2>2. {u \in DOMAIN A : u <= a} # {}
    BY <2>1
  <2>3. s \in DOMAIN A /\ s <= a /\ t <= s
    BY <1>4, <2>1, <2>2, StartFacts
  <2>4. t < s => t + Len(A[t].Data) <= s
    BY <2>3 DEF Apart
  <2>5. t = s
    BY <1>3, <2>1, <2>3, <2>4
  <2>6. Covers(A[s], a, n)
    BY <1>3, <2>1, <2>5 DEF Covers, Size
  <2> QED
    BY <2>2, <2>5, <2>6 DEF FoundIn
<1>6. ASSUME FoundIn(A, a, n) PROVE s \in DOMAIN A /\ RM!Holds(m, s, a, n)
  <2>1. s \in DOMAIN A /\ s <= a /\ Covers(A[s], a, n)
    BY <1>4, <1>6, FoundFacts
  <2> QED
    BY <1>2, <1>3, <2>1 DEF Covers, Size
<1>7. FoundIn(A, a, n) <=> RM!IsAllocated(m, a, n)
  BY <1>1, <1>5, <1>6 DEF RM!IsAllocated
<1>8. ASSUME FoundIn(A, a, n) PROVE RM!StartOf(m, a, n) = s
  <2>1. \E t \in DOMAIN m : RM!Holds(m, t, a, n)
    BY <1>1, <1>6, <1>8
  <2>2. RM!StartOf(m, a, n) \in DOMAIN m /\ RM!Holds(m, RM!StartOf(m, a, n), a, n)
    BY <2>1 DEF RM!StartOf
  <2> QED
    BY <1>1, <1>5, <2>2
<1> QED
  BY <1>7, <1>8 DEF m

\* An edit of an allocation changes the bytes that are shown of it.
LEMMA EditedView ==
  ASSUME NEW A, NEW P, Well(A, P), Apart(A), NEW a \in Nat, NEW n \in Nat \ {0},
         FoundIn(A, a, n), NEW x, Formed(x), Len(x.Data) = Len(A[StartIn(A, a)].Data),
         NEW S, NEW part \in Seq(S), Len(part) = n,
         \A i \in 1..Len(x.Data) :
           LET k == i - (a - StartIn(A, a))
           IN  Shown(x)[i] = IF k \in 1..n THEN part[k] ELSE Shown(A[StartIn(A, a)])[i]
  PROVE  ViewOf(PutIn(A, StartIn(A, a), x)) = RM!PutBytes(ViewOf(A), a, part)
<1> DEFINE s == StartIn(A, a)
           o == a - s
           m == ViewOf(A)
           B == PutIn(A, s, x)
           y == Shown(A[s])
<1>1. DOMAIN A \subseteq Addresses
  BY DEF Well
<1>2. s \in DOMAIN A /\ s <= a
  BY <1>1, FoundFacts
<1>3. RM!StartOf(m, a, n) = s
  BY FoundIsAllocated
<1>4. DOMAIN m = DOMAIN A /\ \A t \in DOMAIN A : m[t] = Shown(A[t])
  BY ViewFacts
<1>5. DOMAIN B = DOMAIN A /\ B[s] = x /\ \A t \in DOMAIN A : t # s => B[t] = A[t]
  BY <1>2 DEF PutIn
<1>6. /\ Shown(x) \in Seq(Byte \cup {Uninit}) /\ Len(Shown(x)) = Len(x.Data)
      /\ y \in Seq(Byte \cup {Uninit}) /\ Len(y) = Len(x.Data)
  <2>1. Formed(A[s])
    BY <1>2, WellFields
  <2> QED
    BY <2>1, ShownFacts
<1>7. \A i \in 1..Len(x.Data) : Shown(x)[i] = IF i - o \in 1..n THEN part[i - o] ELSE y[i]
  OBVIOUS
<1> HIDE DEF s, o, m, B, y
<1>8. Shown(x) = RM!Overlay(y, o, part)
  <2>1. DOMAIN y = 1..Len(x.Data) /\ DOMAIN part = 1..n /\ DOMAIN Shown(x) = 1..Len(x.Data)
        /\ Shown(x) = [i \in DOMAIN Shown(x) |-> Shown(x)[i]]
    BY <1>6
  <2> QED
    BY <1>7, <2>1 DEF RM!Overlay
<1>9. RM!PutBytes(m, a, part) = [m EXCEPT ![s] = RM!Overlay(m[s], o, part)]
  BY <1>3 DEF RM!PutBytes, o
<1>10. ViewOf(B) = [t \in DOMAIN A |-> IF t = s THEN Shown(x) ELSE m[t]]
  BY <1>4, <1>5 DEF ViewOf
<1>11. m = [t \in DOMAIN A |-> m[t]]
  BY <1>4 DEF m, ViewOf
<1>12. [m EXCEPT ![s] = Shown(x)] = [t \in DOMAIN A |-> IF t = s THEN Shown(x) ELSE m[t]]
  BY <1>2, <1>4, <1>11
<1>13. m[s] = y
  BY <1>2, <1>4 DEF y
<1> QED
  BY <1>8, <1>9, <1>10, <1>12, <1>13 DEF B, m, s

\* The effect of an operation on what is shown, as ReversibleMemory has it.
LEMMA AddIsShown ==
  ASSUME Well(Allocations, PreviousAllocations), NEW a \in Addresses, NEW n \in Sizes,
         AddAllocation(a, n), past' = Append(past, View)
  PROVE  RM!Allocate(a, n)
<1> DEFINE A == Allocations
<1>1. n \in Nat /\ a \in Nat
  BY SizesAreNumbers
<1>2. /\ DOMAIN View = DOMAIN A /\ \A s \in DOMAIN A : View[s] = Shown(A[s])
      /\ \A s \in DOMAIN A : Len(View[s]) = Len(A[s].Data)
  BY ViewFacts, ViewIsViewOf
<1>3. RM!IsFree(View, a, n)
  BY <1>2 DEF AddAllocation, IsFree, Size, RM!IsFree
<1>4. CASE n = 0
  <2>1. View' = View
    BY <1>4, ViewIsViewOf DEF AddAllocation
  <2> QED
    BY <1>3, <1>4, <2>1 DEF RM!Allocate, RM!Change
<1>5. CASE n # 0
  <2> DEFINE al == MemoryAllocation(a, n)
  <2>1. A' = PutIn(A, a, al)
    BY <1>5, CurrentMemory DEF AddAllocation
  <2>2. Shown(al) = RM!Nothing(n)
    <3>1. al.Data = Zeros(n) /\ al.Init = Zeros(n)
      BY DEF MemoryAllocation
    <3> HIDE DEF al
    <3>2. Len(al.Data) = n /\ \A i \in 1..n : al.Init[i] = 0
      BY <1>1, <3>1, Constant
    <3> QED
      BY <3>2 DEF Shown, Size, RM!Nothing, Complete
  <2> HIDE DEF al
  <2>3. View' = RM!With(View, a, RM!Nothing(n))
    <3>1. DOMAIN A' = DOMAIN A \cup {a} /\ A'[a] = al /\ \A t \in DOMAIN A : t # a => A'[t] = A[t]
      BY <2>1 DEF PutIn
    <3>2. View' = [s \in DOMAIN A' |-> Shown(A'[s])]
      BY ViewIsViewOf DEF ViewOf
    <3> QED
      BY <1>2, <2>2, <3>1, <3>2 DEF RM!With
  <2> QED
    BY <1>3, <1>5, <2>3 DEF RM!Allocate, RM!Change
<1> QED
  BY <1>4, <1>5

LEMMA RemoveIsShown ==
  ASSUME Well(Allocations, PreviousAllocations), NEW a \in Addresses, NEW n \in Sizes,
         RemoveAllocation(a, n), past' = Append(past, View)
  PROVE  RM!Release(a, n)
<1> DEFINE A == Allocations
<1>1. /\ DOMAIN View = DOMAIN A /\ \A s \in DOMAIN A : View[s] = Shown(A[s])
      /\ \A s \in DOMAIN A : Len(View[s]) = Len(A[s].Data)
  BY ViewFacts, ViewIsViewOf
<1>2. CASE n = 0
  <2>1. View' = View
    BY <1>2, ViewIsViewOf DEF RemoveAllocation
  <2> QED
    BY <1>2, <2>1 DEF RM!Release, RM!Change
<1>3. CASE n # 0
  <2>1. a \in DOMAIN A /\ Len(A[a].Data) = n /\ A' = TakeOut(A, a)
    BY <1>3, CurrentMemory DEF RemoveAllocation, Size
  <2>2. View' = RM!Without(View, a)
    <3>1. DOMAIN A' = DOMAIN A \ {a} /\ \A t \in DOMAIN A' : A'[t] = A[t]
      BY <2>1 DEF TakeOut
    <3>2. View' = [s \in DOMAIN A' |-> Shown(A'[s])]
      BY ViewIsViewOf DEF ViewOf
    <3> QED
      BY <1>1, <3>1, <3>2 DEF RM!Without
  <2> QED
    BY <1>1, <1>3, <2>1, <2>2 DEF RM!Release, RM!Change
<1> QED
  BY <1>2, <1>3

LEMMA ResizeIsShown ==
  ASSUME Well(Allocations, PreviousAllocations), NEW a \in Addresses,
         NEW m \in Sizes, NEW n \in Sizes, m # 0, n # 0,
         ResizeInPlace(a, m, n), past' = Append(past, View)
  PROVE  RM!Resize(a, n)
<1> DEFINE A == Allocations
           al == A[a]
           cut == IF n < m THEN clearArea(al, a + n, m - n) ELSE al
           x == resize(cut, n)
<1>1. /\ DOMAIN View = DOMAIN A /\ \A s \in DOMAIN A : View[s] = Shown(A[s])
      /\ \A s \in DOMAIN A : Len(View[s]) = Len(A[s].Data)
  BY ViewFacts, ViewIsViewOf
<1>2. a \in Nat /\ m \in Nat /\ n \in Nat /\ DOMAIN A \subseteq Addresses /\ a \in DOMAIN A
  BY SizesAreNumbers DEF Well, ResizeInPlace
<1>3. StartIn(A, a) = a
  <2>1. {t \in DOMAIN A : t <= a} # {}
    BY <1>2
  <2>2. StartIn(A, a) \in DOMAIN A /\ StartIn(A, a) <= a /\ a <= StartIn(A, a)
    BY <1>2, <2>1, StartFacts
  <2>3. StartIn(A, a) \in Nat
    BY <2>2, WellFields
  <2> QED
    BY <1>2, <2>2, <2>3
<1>4. Len(al.Data) = m /\ A' = PutIn(A, a, x)
  <2>1. getAllocation(a) = al
    BY <1>3, CurrentMemory
  <2> QED
    BY <2>1, CurrentMemory DEF ResizeInPlace, Size
<1>5. Formed(al) /\ al.Address = a
  BY <1>2, WellFields
<1> HIDE DEF al
<1>6. /\ Formed(x) /\ Len(x.Data) = n
      /\ \A i \in 1..n : /\ i <= m => x.Data[i] = al.Data[i] /\ x.Init[i] = al.Init[i]
                         /\ i > m => x.Init[i] = 0
  <2>1. CASE n < m
    <3>1. cut = clearArea(al, al.Address + n, Len(al.Data) - n)
      BY <1>4, <1>5, <2>1
    <3>2. /\ Formed(x) /\ Len(x.Data) = n
          /\ \A i \in 1..n : x.Data[i] = al.Data[i] /\ x.Init[i] = al.Init[i]
      <4> DEFINE z == resize(clearArea(al, al.Address + n, Len(al.Data) - n), n)
      <4>1. x = z
        BY <3>1
      <4>2. Formed(al) /\ n \in Nat /\ n < Len(al.Data)
        BY <1>2, <1>4, <1>5, <2>1
      <4>3. /\ Formed(z) /\ Len(z.Data) = n
            /\ \A i \in 1..n : z.Data[i] = al.Data[i] /\ z.Init[i] = al.Init[i]
        BY ONLY <4>2, ShrinkSaves
      <4> HIDE DEF x, z
      <4> QED
        BY <4>1, <4>3
    <3>3. \A i \in 1..n : i <= m /\ ~(i > m)
      BY <1>2, <2>1
    <3> QED
      BY <3>2, <3>3
  <2>2. CASE ~(n < m)
    <3>1. x = resize(al, n)
      BY <2>2
    <3> HIDE DEF x
    <3>2. /\ Formed(x) /\ Len(x.Data) = n
          /\ \A i \in 1..n : /\ x.Data[i] = IF i <= Len(al.Data) THEN al.Data[i] ELSE 0
                             /\ x.Init[i] = IF i <= Len(al.Data) THEN al.Init[i] ELSE 0
      BY <1>2, <1>5, <3>1, ResizeFields
    <3> QED
      BY <1>2, <1>4, <3>2
  <2> QED
    BY <2>1, <2>2
<1> HIDE DEF x
<1>7. Shown(x) = [i \in 1..n |-> IF i <= Len(View[a]) THEN View[a][i] ELSE Uninit]
  <2>1. Len(View[a]) = m /\ View[a] = Shown(al)
    BY <1>1, <1>2, <1>4 DEF al
  <2>2. \A i \in 1..m : Shown(al)[i] = IF al.Init[i] = Complete THEN al.Data[i] ELSE Uninit
    BY <1>4, <1>5, ShownFacts
  <2>3. \A i \in 1..n : (IF x.Init[i] = Complete THEN x.Data[i] ELSE Uninit)
                          = IF i <= m THEN Shown(al)[i] ELSE Uninit
    <3> TAKE i \in 1..n
    <3>1. i <= m => i \in 1..m
      BY <1>2
    <3> QED
      BY <1>2, <1>6, <2>2, <3>1 DEF Complete
  <2> QED
    BY <1>6, <2>1, <2>3 DEF Shown, Size
<1>8. View' = RM!With(View, a, Shown(x))
  <2>1. DOMAIN A' = DOMAIN A \cup {a} /\ A'[a] = x /\ \A t \in DOMAIN A : t # a => A'[t] = A[t]
    BY <1>4 DEF PutIn
  <2>2. View' = [s \in DOMAIN A' |-> Shown(A'[s])]
    BY ViewIsViewOf DEF ViewOf
  <2> QED
    BY <1>1, <2>1, <2>2 DEF RM!With
<1> QED
  BY <1>1, <1>2, <1>7, <1>8 DEF RM!Resize, RM!Change

LEMMA BlockIsShown ==
  ASSUME Well(Allocations, PreviousAllocations), Apart(Allocations),
         NEW a \in Addresses, NEW data \in Bytes, addBlock(a, data)
  PROVE  RM!Write(a, data)
<1> DEFINE A == Allocations
           n == Len(data)
           s == StartIn(A, a)
           x == addArea(A[s], a, data, Ones(n))
<1>1. data \in Seq(Byte) /\ n \in Nat \ {0} /\ n \in Nat /\ a \in Nat
  BY BytesFacts, SizesAreNumbers
<1> HIDE DEF n
<1>2. FoundIn(A, a, n) /\ A' = PutIn(A, s, x) /\ past' = Append(past, View)
  BY CurrentMemory DEF addBlock, n, Applied
<1>3. s \in DOMAIN A /\ Covers(A[s], a, n)
  BY <1>1, <1>2, FoundFacts DEF Well
<1>4. Formed(A[s]) /\ A[s].Address = s
  BY <1>3, WellFields
<1>5. Ones(n) \in Seq(Bit) /\ n = Len(Ones(n)) /\ n = Len(data) /\ \A i \in 1..n : Ones(n)[i] = Complete
  BY <1>1, Constant DEF n
<1>6. /\ Formed(x) /\ HasSaved(x, A[s], a, n)
      /\ \A i \in 1..Len(A[s].Data) :
           /\ x.Data[i] = IF i - (a - s) \in 1..n THEN data[i - (a - s)] ELSE A[s].Data[i]
           /\ x.Init[i] = IF i - (a - s) \in 1..n THEN Ones(n)[i - (a - s)] ELSE A[s].Init[i]
  <2> DEFINE al == A[s]
             init == Ones(n)
  <2>1. Formed(al) /\ Covers(al, a, n) /\ al.Address = s /\ init \in Seq(Bit) /\ n = Len(init)
    BY <1>3, <1>4, <1>5
  <2> HIDE DEF al, init
  <2>2. PICK d \in Seq(Byte) : d = data /\ n = Len(d)
    BY <1>1, <1>5
  <2>a. a \in Nat /\ n \in Nat /\ n = Len(d)
    BY <1>1, <2>2
  <2>3. Formed(addArea(al, a, d, init)) /\ HasSaved(addArea(al, a, d, init), al, a, n)
    BY <2>1, <2>a, AddSaves
  <2>4. IsWritten(addArea(al, a, d, init), al, a, n, d, init)
    BY <2>1, <2>a, AddSaves
  <2> QED
    BY <2>1, <2>2, <2>3, <2>4 DEF al, init, IsWritten
<1>7. Len(x.Data) = Len(A[s].Data)
  BY <1>6 DEF HasSaved
<1> HIDE DEF x, s
<1>8. ASSUME NEW i \in 1..Len(x.Data)
      PROVE  Shown(x)[i] = IF i - (a - s) \in 1..n THEN data[i - (a - s)] ELSE Shown(A[s])[i]
  <2>1. Shown(x)[i] = IF x.Init[i] = Complete THEN x.Data[i] ELSE Uninit
    BY <1>6, ShownFacts
  <2>2. Shown(A[s])[i] = IF A[s].Init[i] = Complete THEN A[s].Data[i] ELSE Uninit
    BY <1>4, <1>7, ShownFacts
  <2>3. CASE i - (a - s) \in 1..n
    BY <1>5, <1>6, <1>7, <2>1, <2>3
  <2>4. CASE i - (a - s) \notin 1..n
    BY <1>6, <1>7, <2>1, <2>2, <2>4
  <2> QED
    BY <2>3, <2>4
<1>9. View' = RM!PutBytes(View, a, data)
  <2>1. FoundIn(A, a, n) /\ Formed(x) /\ Len(x.Data) = Len(A[s].Data)
    BY <1>2, <1>6, <1>7
  <2>2. PICK part : part = data
    OBVIOUS
  <2>3. part \in Seq(Byte) /\ Len(part) = n
    BY <1>1, <1>5, <2>2
  <2>4. \A i \in 1..Len(x.Data) :
          Shown(x)[i] = IF i - (a - s) \in 1..n THEN part[i - (a - s)] ELSE Shown(A[s])[i]
    BY <1>8, <2>2
  <2>5. ViewOf(PutIn(A, s, x)) = RM!PutBytes(ViewOf(A), a, part)
    BY <1>1, <2>1, <2>3, <2>4, EditedView DEF s
  <2> QED
    BY <1>2, <2>2, <2>5, ViewIsViewOf
<1>10. RM!IsAllocated(View, a, n)
  BY <1>1, <1>2, FoundIsAllocated, ViewIsViewOf
<1> QED
  BY <1>2, <1>9, <1>10 DEF RM!Write, RM!Change, n

LEMMA ClearIsShown ==
  ASSUME Well(Allocations, PreviousAllocations), Apart(Allocations),
         NEW a \in Addresses, NEW n \in 1..MaxSize, addClear(a, n)
  PROVE  RM!Clear(a, n)
<1> DEFINE A == Allocations
           s == StartIn(A, a)
           x == clearArea(A[s], a, n)
           part == RM!Nothing(n)
<1>1. n \in Nat \ {0} /\ n \in Nat /\ a \in Nat
  BY SizesAreNumbers, ConstantsAssumption
<1>2. past' = Append(past, View)
  BY DEF addClear, Applied
<1>3. FoundIn(A, a, n) <=> RM!IsAllocated(View, a, n)
  BY <1>1, FoundIsAllocated, ViewIsViewOf
<1>4. CASE FoundIn(A, a, n)
  <2>1. A' = PutIn(A, s, x)
    BY <1>4, CurrentMemory DEF addClear
  <2>2. s \in DOMAIN A /\ Covers(A[s], a, n)
    BY <1>1, <1>4, FoundFacts DEF Well
  <2>3. Formed(A[s]) /\ A[s].Address = s
    BY <2>2, WellFields
  <2>4. /\ Formed(x) /\ HasSaved(x, A[s], a, n)
        /\ \A i \in 1..Len(A[s].Data) :
             x.Init[i] = IF i - (a - s) \in 1..n THEN 0 ELSE A[s].Init[i]
    BY <1>1, <2>2, <2>3, ClearSaves
  <2>5. Len(x.Data) = Len(A[s].Data) /\ x.Data = A[s].Data
    <3>1. A[s] \in Allocation
      BY <2>3 DEF Formed
    <3> QED
      BY <3>1, ClearFields
  <2>6. part \in Seq({Uninit}) /\ Len(part) = n /\ \A k \in 1..n : part[k] = Uninit
    <3>1. part \in [1..n -> {Uninit}] /\ \A k \in 1..n : part[k] = Uninit
      BY DEF RM!Nothing
    <3> HIDE DEF part
    <3> QED
      BY <1>1, <3>1, FunctionIsSeq
  <2> HIDE DEF x, s, part
  <2>7. ASSUME NEW i \in 1..Len(x.Data)
        PROVE  Shown(x)[i] = IF i - (a - s) \in 1..n THEN part[i - (a - s)] ELSE Shown(A[s])[i]
    <3>1. Shown(x)[i] = IF x.Init[i] = Complete THEN x.Data[i] ELSE Uninit
      BY <2>4, ShownFacts
    <3>2. Shown(A[s])[i] = IF A[s].Init[i] = Complete THEN A[s].Data[i] ELSE Uninit
      BY <2>3, <2>5, ShownFacts
    <3>3. CASE i - (a - s) \in 1..n
      BY <2>4, <2>5, <2>6, <3>1, <3>3 DEF Complete
    <3>4. CASE i - (a - s) \notin 1..n
      BY <2>4, <2>5, <3>1, <3>2, <3>4
    <3> QED
      BY <3>3, <3>4
  <2>8. View' = RM!PutBytes(View, a, part)
    <3>1. ViewOf(PutIn(A, s, x)) = RM!PutBytes(ViewOf(A), a, part)
      BY <1>1, <1>4, <2>4, <2>5, <2>6, <2>7, EditedView DEF s
    <3> QED
      BY <2>1, <3>1, ViewIsViewOf
  <2> QED
    BY <1>2, <1>3, <1>4, <2>8 DEF RM!Clear, RM!Change, part
<1>5. CASE ~FoundIn(A, a, n)
  <2>1. A' = A
    BY <1>5, CurrentMemory DEF addClear
  <2>2. View' = View
    BY <2>1, ViewIsViewOf
  <2> QED
    BY <1>2, <1>3, <1>5, <2>2 DEF RM!Clear, RM!Change
<1> QED
  BY <1>4, <1>5

\* A copy within an allocation reads its source after the target was cleared:
\* that is what the source showed, unless they overlap.
LEMMA CopyIsShown ==
  ASSUME OverlappingCopies = FALSE,
         Well(Allocations, PreviousAllocations), Apart(Allocations),
         NEW from \in Addresses, NEW to \in Addresses, NEW n \in 1..MaxSize,
         NEW order, addCopy(from, to, n, order)
  PROVE  RM!Copy(from, to, n)
<1> DEFINE A == Allocations
           s == StartIn(A, from)
           t == StartIn(A, to)
           target == A[t]
           source == IF s = t THEN clearArea(target, to, n) ELSE A[s]
           data == Slice(source.Data, from - s, n)
           init == Slice(source.Init, from - s, n)
           x == addArea(target, to, data, init)
           j == from - s
           part == Slice(Shown(A[s]), j, n)
<1>1. n \in Nat \ {0} /\ n \in Nat /\ from \in Nat /\ to \in Nat
  BY SizesAreNumbers, ConstantsAssumption
<1>2. ~Overlap(from, to, n) /\ FoundIn(A, from, n) /\ FoundIn(A, to, n)
      /\ past' = Append(past, View)
  BY CurrentMemory DEF addCopy, Overlap, Applied
<1>3. A' = PutIn(A, t, x)
  BY <1>2, CurrentMemory DEF addCopy, Overlap
<1>4. /\ s \in DOMAIN A /\ Covers(A[s], from, n)
      /\ t \in DOMAIN A /\ Covers(target, to, n)
  BY <1>1, <1>2, FoundFacts DEF Well
<1>5. /\ s \in Nat /\ t \in Nat /\ A[s].Address = s /\ target.Address = t
      /\ Formed(A[s]) /\ Formed(target)
      /\ Len(A[s].Data) \in Nat
  BY <1>4, WellFields
<1>6. j \in Nat /\ j + n <= Len(A[s].Data)
  BY <1>1, <1>4, <1>5 DEF Covers, Size
<1>7. /\ Formed(source) /\ Len(source.Data) = Len(A[s].Data) /\ source.Data = A[s].Data
      /\ \A i \in 1..n : source.Init[j + i] = A[s].Init[j + i]
  <2>1. CASE s = t
    <3> DEFINE c == clearArea(target, to, n)
    <3>1. /\ Formed(c) /\ HasSaved(c, target, to, n)
          /\ \A i \in 1..Len(target.Data) :
               c.Init[i] = IF i - (to - t) \in 1..n THEN 0 ELSE target.Init[i]
      BY <1>1, <1>4, <1>5, ClearSaves
    <3>2. c.Data = target.Data
      <4>1. target \in Allocation
        BY <1>5 DEF Formed
      <4> QED
        BY <4>1, ClearFields
    <3>3. source = c /\ target = A[s]
      BY <2>1
    <3>4. \A i \in 1..n : j + i \in 1..Len(target.Data) /\ (j + i) - (to - t) \notin 1..n
      <4>1. from >= to + n \/ to >= from + n
        BY <1>1, <1>2 DEF Overlap
      <4>2. t \in Nat /\ j = from - t /\ j \in Nat /\ Len(target.Data) \in Nat
            /\ j + n <= Len(target.Data)
        BY <1>5, <1>6, <2>1
      <4> DEFINE length == Len(target.Data)
      <4> HIDE DEF j, target, length, s, t
      <4> SUFFICES ASSUME NEW i \in 1..n
                   PROVE  j + i \in 1..length /\ (j + i) - (to - t) \notin 1..n
        BY DEF length
      <4>3. i \in Nat /\ i >= 1 /\ i <= n /\ length \in Nat /\ j + n <= length
        BY <1>1, <4>2 DEF length
      <4>4. j + i \in 1..length
        BY <1>1, <4>2, <4>3
      <4>5. (j + i) - (to - t) = (from - to) + i
        BY <1>1, <4>2, <4>3
      <4>6. (from - to) + i \notin 1..n
        BY <1>1, <4>1, <4>3
      <4> QED
        BY <4>4, <4>5, <4>6
    <3> HIDE DEF c, target, source
    <3>5. \A i \in 1..n : c.Init[j + i] = target.Init[j + i]
      BY <3>1, <3>4
    <3> QED
      BY <3>1, <3>2, <3>3, <3>5
  <2>2. CASE s # t
    BY <1>5, <2>2
  <2> QED
    BY <2>1, <2>2
<1> HIDE DEF source
<1>8. source.Data \in Seq(Byte) /\ source.Init \in Seq(Bit) /\ Len(source.Init) = Len(source.Data)
  <2>1. source \in Allocation /\ Len(source.Init) = Len(source.Data)
    BY <1>7 DEF Formed
  <2> QED
    BY <2>1, AllocationFields
<1>9. data \in Seq(Byte) /\ Len(data) = n /\ \A k \in 1..n : data[k] = A[s].Data[j + k]
  <2> DEFINE q == source.Data
  <2>1. q \in Seq(Byte) /\ j + n <= Len(q) /\ q = A[s].Data
    BY <1>6, <1>7, <1>8
  <2> HIDE DEF q, j
  <2>2. \A p \in Seq(Byte) : j + n <= Len(p) =>
          /\ Slice(p, j, n) \in Seq(Byte) /\ Len(Slice(p, j, n)) = n
          /\ \A k \in 1..n : Slice(p, j, n)[k] = p[j + k]
    BY <1>1, <1>6, SliceFacts
  <2>3. /\ Slice(q, j, n) \in Seq(Byte) /\ Len(Slice(q, j, n)) = n
        /\ \A k \in 1..n : Slice(q, j, n)[k] = q[j + k]
    BY <2>1, <2>2
  <2> QED
    BY <2>1, <2>3 DEF q, j
<1>10. init \in Seq(Bit) /\ Len(init) = n /\ \A k \in 1..n : init[k] = A[s].Init[j + k]
  <2> DEFINE q == source.Init
  <2>1. q \in Seq(Bit) /\ j + n <= Len(q) /\ \A i \in 1..n : q[j + i] = A[s].Init[j + i]
    BY <1>6, <1>7, <1>8
  <2> HIDE DEF q, j
  <2>3. /\ Slice(q, j, n) \in Seq(Bit) /\ Len(Slice(q, j, n)) = n
        /\ \A k \in 1..n : Slice(q, j, n)[k] = q[j + k]
    BY <1>1, <1>6, <2>1, SliceFacts
  <2> QED
    BY <2>1, <2>3 DEF q, j
<1>11. /\ part \in Seq(Byte \cup {Uninit}) /\ Len(part) = n
       /\ \A k \in 1..n : part[k] = IF A[s].Init[j + k] = Complete THEN A[s].Data[j + k] ELSE Uninit
  <2> DEFINE q == Shown(A[s])
             S == Byte \cup {Uninit}
  <2>1. q \in Seq(S) /\ j + n <= Len(q)
        /\ \A i \in 1..Len(A[s].Data) :
             q[i] = IF A[s].Init[i] = Complete THEN A[s].Data[i] ELSE Uninit
    BY <1>5, <1>6, ShownFacts
  <2>a. \A k \in 1..n : j + k \in 1..Len(A[s].Data)
    <3> HIDE DEF j
    <3> QED
      BY <1>1, <1>5, <1>6
  <2> HIDE DEF q, j, S
  <2>2. /\ Slice(q, j, n) \in Seq(S) /\ Len(Slice(q, j, n)) = n
        /\ \A k \in 1..n : Slice(q, j, n)[k] = q[j + k]
    BY <1>1, <1>6, <2>1, SliceFacts
  <2> QED
    BY <2>1, <2>2, <2>a DEF q, S
<1> HIDE DEF data, init, target, part
<1>12. Formed(x) /\ HasSaved(x, target, to, n) /\ IsWritten(x, target, to, n, data, init)
  BY <1>1, <1>4, <1>5, <1>9, <1>10, AddSaves
<1>13. Len(x.Data) = Len(target.Data)
  BY <1>12 DEF HasSaved
<1> HIDE DEF x, j
<1>14. ASSUME NEW i \in 1..Len(x.Data)
       PROVE  Shown(x)[i] = IF i - (to - t) \in 1..n THEN part[i - (to - t)] ELSE Shown(target)[i]
  <2>1. Shown(x)[i] = IF x.Init[i] = Complete THEN x.Data[i] ELSE Uninit
    BY <1>12, ShownFacts
  <2>2. Shown(target)[i] = IF target.Init[i] = Complete THEN target.Data[i] ELSE Uninit
    BY <1>5, <1>13, ShownFacts
  <2> DEFINE k == i - (to - t)
  <2>3. /\ x.Data[i] = IF k \in 1..n THEN data[k] ELSE target.Data[i]
        /\ x.Init[i] = IF k \in 1..n THEN init[k] ELSE target.Init[i]
    BY <1>5, <1>12, <1>13 DEF IsWritten
  <2> HIDE DEF k
  <2>4. CASE k \in 1..n
    BY <1>9, <1>10, <1>11, <2>1, <2>3, <2>4 DEF k
  <2>5. CASE k \notin 1..n
    BY <2>1, <2>2, <2>3, <2>5 DEF k
  <2> QED
    BY <2>4, <2>5
<1>15. View' = RM!PutBytes(View, to, part)
  <2>1. FoundIn(A, to, n) /\ Formed(x) /\ Len(x.Data) = Len(A[t].Data)
        /\ part \in Seq(Byte \cup {Uninit}) /\ Len(part) = n
    BY <1>2, <1>11, <1>12, <1>13 DEF target
  <2>2. \A i \in 1..Len(x.Data) :
          Shown(x)[i] = IF i - (to - t) \in 1..n THEN part[i - (to - t)] ELSE Shown(A[t])[i]
    BY <1>14 DEF target
  <2>3. ViewOf(PutIn(A, t, x)) = RM!PutBytes(ViewOf(A), to, part)
    BY <1>1, <2>1, <2>2, EditedView DEF t
  <2> QED
    BY <1>3, <2>3, ViewIsViewOf
<1>16. RM!BytesAt(View, from, n) = part
  <2>1. RM!StartOf(View, from, n) = s
    BY <1>1, <1>2, FoundIsAllocated, ViewIsViewOf
  <2>2. View[s] = Shown(A[s])
    BY <1>4, ViewFacts, ViewIsViewOf
  <2> QED
    BY <2>1, <2>2 DEF RM!BytesAt, part, Slice, j
<1>17. RM!IsAllocated(View, from, n) /\ RM!IsAllocated(View, to, n)
  BY <1>1, <1>2, FoundIsAllocated, ViewIsViewOf
<1> QED
  BY <1>2, <1>15, <1>16, <1>17 DEF RM!Copy, RM!Change

\* Every operation does to what is shown what ReversibleMemory allows.
LEMMA ForwardIsShown ==
  ASSUME OverlappingCopies = FALSE,
         Well(Allocations, PreviousAllocations), Apart(Allocations), MoveForward
  PROVE  RM!Next
<1>1. CASE \E a \in Addresses, n \in Sizes : allocationAdd(a, n) \/ allocationRemove(a, n)
  <2>1. PICK a \in Addresses, n \in Sizes : allocationAdd(a, n) \/ allocationRemove(a, n)
    BY <1>1
  <2>2. RM!Allocate(a, n) \/ RM!Release(a, n)
    BY <2>1, AddIsShown, RemoveIsShown DEF allocationAdd, allocationRemove, Applied
  <2> QED
    BY <2>2 DEF RM!Next, RM!Sizes, Sizes
<1>2. CASE \E a \in Addresses, current, size \in Sizes : allocationResize(a, current, size)
  <2>1. PICK a \in Addresses, m \in Sizes, n \in Sizes : allocationResize(a, m, n)
    BY <1>2
  <2>2. past' = Append(past, View)
    BY <2>1 DEF allocationResize, Applied
  <2>3. CASE m = 0
    <3>1. AddAllocation(a, n)
      BY <2>1, <2>3 DEF allocationResize
    <3>2. RM!Allocate(a, n)
      BY <2>2, <3>1, AddIsShown
    <3> QED
      BY <3>2 DEF RM!Next, RM!Sizes, Sizes
  <2>4. CASE m # 0 /\ n = 0
    <3>1. RemoveAllocation(a, m)
      BY <2>1, <2>4 DEF allocationResize
    <3>2. RM!Release(a, m)
      BY <2>2, <3>1, RemoveIsShown
    <3> QED
      BY <3>2 DEF RM!Next, RM!Sizes, Sizes
  <2>5. CASE m # 0 /\ n # 0
    <3>1. ResizeInPlace(a, m, n)
      BY <2>1, <2>5 DEF allocationResize
    <3>2. RM!Resize(a, n)
      BY <2>2, <2>5, <3>1, ResizeIsShown
    <3>3. n > 0
      BY <2>5, SizesAreNumbers
    <3> QED
      BY <3>2, <3>3 DEF RM!Next, RM!Sizes, Sizes
  <2> QED
    BY <2>3, <2>4, <2>5
<1>3. CASE \E a \in Addresses, data \in Bytes : addBlock(a, data)
  BY <1>3, BlockIsShown DEF RM!Next, RM!Bytes, Bytes
<1>4. CASE \E from, to \in Addresses, n \in 1..MaxSize,
             order \in {"whole", "ascending", "descending"} : addCopy(from, to, n, order)
  BY <1>4, CopyIsShown DEF RM!Next
<1>5. CASE \E a \in Addresses, n \in 1..MaxSize : addClear(a, n)
  <2>1. PICK a \in Addresses, n \in 1..MaxSize : addClear(a, n)
    BY <1>5
  <2>2. RM!Clear(a, n) /\ n > 0 /\ n \in Sizes
    BY <2>1, ClearIsShown, SizesAreNumbers, ConstantsAssumption
  <2> QED
    BY <2>2 DEF RM!Next, RM!Sizes, Sizes
<1> QED
  BY <1>1, <1>2, <1>3, <1>4, <1>5 DEF MoveForward

LEMMA BackwardIsShown ==
  ASSUME MemoryInv, MoveBackward
  PROVE  RM!Rewind
<1> DEFINE e == Last(events)
<1>1. /\ events # <<>> /\ Retreats(e) /\ past' = Front(past)
  BY BackwardRetreats DEF MemoryInv
<1>2. Allocations' = BackA(e, Allocations, PreviousAllocations)
  BY <1>1 DEF Retreats
<1>3. ViewOf(Allocations') = Last(past) /\ past # <<>>
  BY <1>1, <1>2, LatestIsReversible
<1> QED
  BY <1>1, <1>3, ViewIsViewOf DEF RM!Rewind, RM!Last, RM!Front, Last, Front

(***************************************************************************)
(* What a viewer sees of the recreated memory is what ReversibleMemory      *)
(* promises, if memory is never copied onto itself: each event changes the  *)
(* bytes it names and no others, a copy copies what its source showed, and  *)
(* each reversal shows the memory exactly as it was before the event.  The  *)
(* hypothesis is what memcpy requires.  With overlapping copies the theorem *)
(* is false: addCopy clears its target before it reads its source.          *)
(***************************************************************************)
THEOREM MemoryReversesExactly ==
  ASSUME OverlappingCopies = FALSE
  PROVE  Spec => MemoryIsAsRecorded
<1>1. Init => MemoryInv
  BY InvInit
<1>2. MemoryInv /\ [Next]_vars => MemoryInv'
  BY InvNext
<1>3. Init => RM!Init
  BY DEF Init, RM!Init, View
<1>4. MemoryInv /\ [Next]_vars => [RM!Next]_<<View, past>>
  <2> SUFFICES ASSUME MemoryInv, [Next]_vars PROVE [RM!Next]_<<View, past>>
    OBVIOUS
  <2>1. Well(Allocations, PreviousAllocations) /\ Apart(Allocations)
    BY InvIsApart DEF MemoryInv
  <2>2. CASE MoveForward
    BY <2>1, <2>2, ForwardIsShown
  <2>3. CASE MoveBackward
    BY <2>3, BackwardIsShown DEF RM!Next
  <2>4. CASE UNCHANGED vars
    BY <2>4, ViewIsViewOf DEF vars
  <2> QED
    BY <2>2, <2>3, <2>4 DEF Next
<1> DEFINE Copies ==
      Len(events') > Len(events) /\ Last(events').op = "copy" =>
        \A from, to \in Addresses, n \in 1..MaxSize :
          \A order \in {"whole", "ascending", "descending"} :
            addCopy(from, to, n, order) => RM!Copy(from, to, n)
<1>5. MemoryInv /\ [Next]_vars => [Copies]_vars
  BY InvIsApart, CopyIsShown DEF MemoryInv
<1>6. Spec => RM!Spec
  BY <1>1, <1>2, <1>3, <1>4, PTL DEF Spec, RM!Spec
<1>7. Spec => [][Copies]_vars
  <2> HIDE DEF Copies
  <2> QED
    BY <1>1, <1>2, <1>5, PTL DEF Spec
<1> QED
  BY <1>6, <1>7 DEF MemoryIsAsRecorded, ReversesExactly, CopyCopies

=============================================================================
