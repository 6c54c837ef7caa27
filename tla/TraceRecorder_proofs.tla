------------------------ MODULE TraceRecorder_proofs ------------------------
(***************************************************************************)
(* Proofs about TraceRecorder, for any number of threads and any program.   *)
(***************************************************************************)
EXTENDS TraceRecorder, TLAPS

-----------------------------------------------------------------------------
(***************************************************************************)
(* Trails.  What a thread may assume while it executes the operations s is  *)
(* tracked by an abstract state: R holds the triples of an abstract state,  *)
(* an operation that is sound in it, and the abstract state after it.  A    *)
(* trail of s from p to q says that all of s is sound when it begins in p.  *)
(***************************************************************************)
Trail(R, s, p, q) ==
  /\ s \in Seq(Operations)
  /\ \E f : /\ f[1] = p /\ f[Len(s) + 1] = q
            /\ \A i \in 1..Len(s) : <<f[i], s[i], f[i + 1]>> \in R

LEMMA TrailNone == ASSUME NEW R, NEW p PROVE Trail(R, <<>>, p, p)
<1> DEFINE f == [i \in 1..1 |-> p]
<1>1. f[1] = p /\ Len(<<>>) = 0 /\ <<>> \in Seq(Operations)
  OBVIOUS
<1>2. \A i \in 1..Len(<<>>) : <<f[i], <<>>[i], f[i + 1]>> \in R
  BY <1>1
<1> HIDE DEF f
<1> QED
  BY <1>1, <1>2 DEF Trail

LEMMA TrailOne ==
  ASSUME NEW R, NEW p, NEW o \in Operations, NEW q, <<p, o, q>> \in R
  PROVE  Trail(R, <<o>>, p, q)
<1> DEFINE f == <<p, q>>
<1>1. f[1] = p /\ f[Len(<<o>>) + 1] = q
  OBVIOUS
<1>2. \A i \in 1..Len(<<o>>) : <<f[i], <<o>>[i], f[i + 1]>> \in R
  OBVIOUS
<1> QED
  BY <1>1, <1>2 DEF Trail

LEMMA TrailConcat ==
  ASSUME NEW R, NEW s, NEW u, NEW p, NEW q, NEW r, Trail(R, s, p, q), Trail(R, u, q, r)
  PROVE  Trail(R, s \o u, p, r)
<1>0. s \in Seq(Operations) /\ u \in Seq(Operations) /\ s \o u \in Seq(Operations)
  BY DEF Trail
<1>1. PICK f : /\ f[1] = p /\ f[Len(s) + 1] = q
               /\ \A i \in 1..Len(s) : <<f[i], s[i], f[i + 1]>> \in R
  BY DEF Trail
<1>2. PICK g : /\ g[1] = q /\ g[Len(u) + 1] = r
               /\ \A i \in 1..Len(u) : <<g[i], u[i], g[i + 1]>> \in R
  BY DEF Trail
<1> DEFINE m == Len(s)
           n == Len(u)
           h == [i \in 1..(m + n + 1) |-> IF i <= m THEN f[i] ELSE g[i - m]]
<1>3. m \in Nat /\ n \in Nat /\ Len(s \o u) = m + n
  BY <1>0
<1>4. h[1] = p
  BY <1>1, <1>2, <1>3
<1>5. h[Len(s \o u) + 1] = r
  BY <1>2, <1>3
<1>6. ASSUME NEW i \in 1..(m + n) PROVE <<h[i], (s \o u)[i], h[i + 1]>> \in R
  <2>1. CASE i < m
    <3>1. h[i] = f[i] /\ h[i + 1] = f[i + 1] /\ (s \o u)[i] = s[i] /\ i \in 1..m
      BY <1>0, <1>3, <2>1
    <3> QED
      BY <1>1, <3>1
  <2>2. CASE i = m
    <3>1. h[i] = f[i] /\ h[i + 1] = g[1] /\ (s \o u)[i] = s[i] /\ i \in 1..m
      BY <1>0, <1>3, <2>2
    <3> QED
      BY <1>1, <1>2, <2>2, <3>1
  <2>3. CASE i > m
    <3>1. h[i] = g[i - m] /\ h[i + 1] = g[(i - m) + 1] /\ (s \o u)[i] = u[i - m] /\ i - m \in 1..n
      BY <1>0, <1>3, <2>3
    <3> QED
      BY <1>2, <3>1
  <2>4. i < m \/ i = m \/ i > m
    BY <1>3
  <2> QED
    BY <2>1, <2>2, <2>3, <2>4
<1> QED
  <2>1. \A i \in 1..Len(s \o u) : <<h[i], (s \o u)[i], h[i + 1]>> \in R
    BY <1>3, <1>6
  <2> HIDE DEF h
  <2> QED
    BY <1>0, <1>4, <1>5, <2>1 DEF Trail

LEMMA TrailStep ==
  ASSUME NEW R, NEW s, NEW p, NEW r, Trail(R, s, p, r), s # <<>>
  PROVE  /\ Head(s) \in Operations /\ Tail(s) \in Seq(Operations)
         /\ \E q : <<p, Head(s), q>> \in R /\ Trail(R, Tail(s), q, r)
<1>0. s \in Seq(Operations) /\ Tail(s) \in Seq(Operations) /\ Head(s) \in Operations
  BY DEF Trail
<1>1. PICK f : /\ f[1] = p /\ f[Len(s) + 1] = r
               /\ \A i \in 1..Len(s) : <<f[i], s[i], f[i + 1]>> \in R
  BY DEF Trail
<1>2. /\ Len(s) \in Nat \ {0} /\ Len(Tail(s)) = Len(s) - 1 /\ Head(s) = s[1]
      /\ \A i \in 1..Len(Tail(s)) : Tail(s)[i] = s[i + 1]
  BY <1>0
<1> DEFINE g == [i \in 1..Len(s) |-> f[i + 1]]
<1>3. g[1] = f[2] /\ g[Len(Tail(s)) + 1] = r
  BY <1>1, <1>2
<1>4. ASSUME NEW i \in 1..Len(Tail(s)) PROVE <<g[i], Tail(s)[i], g[i + 1]>> \in R
  <2>1. i + 1 \in 1..Len(s) /\ g[i] = f[i + 1] /\ g[i + 1] = f[(i + 1) + 1]
    BY <1>2
  <2> QED
    BY <1>1, <1>2, <2>1
<1>5. Trail(R, Tail(s), f[2], r)
  <2> HIDE DEF g
  <2> QED
    BY <1>0, <1>3, <1>4 DEF Trail
<1>6. <<p, Head(s), f[2]>> \in R
  <2>1. <<f[1], s[1], f[1 + 1]>> \in R
    BY <1>1, <1>2
  <2> QED
    BY <1>1, <1>2, <2>1
<1> QED
  BY <1>0, <1>5, <1>6

LEMMA TrailEnd ==
  ASSUME NEW R, NEW p, NEW q, Trail(R, <<>>, p, q) PROVE p = q
BY DEF Trail

LEMMA TrailTwo ==
  ASSUME NEW R, NEW p, NEW o1 \in Operations, NEW q1, NEW o2 \in Operations, NEW q2,
         <<p, o1, q1>> \in R, <<q1, o2, q2>> \in R
  PROVE  Trail(R, <<o1, o2>>, p, q2)
<1>1. <<o1, o2>> = <<o1>> \o <<o2>>
  OBVIOUS
<1>2. Trail(R, <<o1>> \o <<o2>>, p, q2)
  BY TrailOne, TrailConcat
<1> QED
  BY <1>1, <1>2

LEMMA TrailCons ==
  ASSUME NEW R, NEW p, NEW o \in Operations, NEW q, NEW s, NEW r,
         <<p, o, q>> \in R, Trail(R, s, q, r)
  PROVE  Trail(R, <<o>> \o s, p, r)
BY TrailOne, TrailConcat

LEMMA TrailThree ==
  ASSUME NEW R, NEW p, NEW o1 \in Operations, NEW o2 \in Operations, NEW o3 \in Operations,
         NEW q1, NEW q2, NEW q3,
         <<p, o1, q1>> \in R,
         <<q1, o2, q2>> \in R,
         <<q2, o3, q3>> \in R
  PROVE  Trail(R, <<o1, o2, o3>>, p, q3)
<1>1. <<o1, o2, o3>> = <<o1>> \o <<o2, o3>>
  OBVIOUS
<1>2. Trail(R, <<o2, o3>>, q1, q3)
  BY TrailTwo
<1> QED
  BY <1>1, <1>2, TrailCons

LEMMA TrailFour ==
  ASSUME NEW R, NEW p, NEW o1 \in Operations, NEW o2 \in Operations, NEW o3 \in Operations, NEW o4 \in Operations,
         NEW q1, NEW q2, NEW q3, NEW q4,
         <<p, o1, q1>> \in R,
         <<q1, o2, q2>> \in R,
         <<q2, o3, q3>> \in R,
         <<q3, o4, q4>> \in R
  PROVE  Trail(R, <<o1, o2, o3, o4>>, p, q4)
<1>1. <<o1, o2, o3, o4>> = <<o1>> \o <<o2, o3, o4>>
  OBVIOUS
<1>2. Trail(R, <<o2, o3, o4>>, q1, q4)
  BY TrailThree
<1> QED
  BY <1>1, <1>2, TrailCons

LEMMA TrailFive ==
  ASSUME NEW R, NEW p, NEW o1 \in Operations, NEW o2 \in Operations, NEW o3 \in Operations, NEW o4 \in Operations, NEW o5 \in Operations,
         NEW q1, NEW q2, NEW q3, NEW q4, NEW q5,
         <<p, o1, q1>> \in R,
         <<q1, o2, q2>> \in R,
         <<q2, o3, q3>> \in R,
         <<q3, o4, q4>> \in R,
         <<q4, o5, q5>> \in R
  PROVE  Trail(R, <<o1, o2, o3, o4, o5>>, p, q5)
<1>1. <<o1, o2, o3, o4, o5>> = <<o1>> \o <<o2, o3, o4, o5>>
  OBVIOUS
<1>2. Trail(R, <<o2, o3, o4, o5>>, q1, q5)
  BY TrailFour
<1> QED
  BY <1>1, <1>2, TrailCons

LEMMA TrailSix ==
  ASSUME NEW R, NEW p, NEW o1 \in Operations, NEW o2 \in Operations, NEW o3 \in Operations, NEW o4 \in Operations, NEW o5 \in Operations, NEW o6 \in Operations,
         NEW q1, NEW q2, NEW q3, NEW q4, NEW q5, NEW q6,
         <<p, o1, q1>> \in R,
         <<q1, o2, q2>> \in R,
         <<q2, o3, q3>> \in R,
         <<q3, o4, q4>> \in R,
         <<q4, o5, q5>> \in R,
         <<q5, o6, q6>> \in R
  PROVE  Trail(R, <<o1, o2, o3, o4, o5, o6>>, p, q6)
<1>1. <<o1, o2, o3, o4, o5, o6>> = <<o1>> \o <<o2, o3, o4, o5, o6>>
  OBVIOUS
<1>2. Trail(R, <<o2, o3, o4, o5, o6>>, q1, q6)
  BY TrailFive
<1> QED
  BY <1>1, <1>2, TrailCons

-----------------------------------------------------------------------------
(***************************************************************************)
(* The locks that a thread is known to have.                                *)
(***************************************************************************)
LockMove(h, o, k) ==
  \/ o \in {Enter, ThreadTime, Create, Join} /\ k = h
  \/ o = ExitPost /\ k = {}
  \/ \E m \in Mutexes : o \in {Acquire(m), Lock(m)} /\ k = h \cup {m}
  \/ \E m \in h : o = Unlock(m) /\ k = h \ {m}
  \/ \E m \in h : o = Record(m) /\ k = h
  \/ o = RecordArea /\ "memory" \in h /\ k = h
  \/ \E ty \in EventType : /\ o = Write(ty) /\ k = h
                           /\ ty = "KnownRegion" => "memory" \in h

LockMoves == {x \in (SUBSET Mutexes) \X Operations \X (SUBSET Mutexes) :
                LockMove(x[1], x[2], x[3])}

Has(t, h) == \A m \in h : owner[m] = t

-----------------------------------------------------------------------------
(***************************************************************************)
(* The operations, one by one.                                              *)
(***************************************************************************)
LEMMA OperationTypes ==
  /\ {Enter, ExitPost, ThreadTime, RecordArea, Create, Join} \subseteq Operations
  /\ \A m \in Mutexes : {Acquire(m), Lock(m), Unlock(m), Record(m)} \subseteq Operations
  /\ \A ty \in EventType : Write(ty) \in Operations
BY DEF Operations

LEMMA MutexNames == {"memory", "dynamic", "streams", "dirs"} \subseteq Mutexes
BY DEF Mutexes

LEMMA WriteTypes == {"Instruction", "Alloca", "KnownRegion"} \subseteq EventType
BY DEF EventType

LEMMA LockMoveOf ==
  ASSUME NEW h \in SUBSET Mutexes, NEW o \in Operations, NEW k \in SUBSET Mutexes,
         LockMove(h, o, k)
  PROVE  <<h, o, k>> \in LockMoves
BY DEF LockMoves

LEMMA LockOps ==
  ASSUME NEW h \in SUBSET Mutexes
  PROVE  /\ \A o \in {Enter, ThreadTime, Create, Join} : <<h, o, h>> \in LockMoves
         /\ <<h, ExitPost, {}>> \in LockMoves
         /\ <<h, Write("Instruction"), h>> \in LockMoves
         /\ <<h, Write("Alloca"), h>> \in LockMoves
         /\ "memory" \in h => <<h, Write("KnownRegion"), h>> \in LockMoves
         /\ "memory" \in h => <<h, RecordArea, h>> \in LockMoves
<1>1. \A o \in {Enter, ThreadTime, Create, Join} : <<h, o, h>> \in LockMoves
  BY LockMoveOf, OperationTypes DEF LockMove
<1>2. <<h, ExitPost, {}>> \in LockMoves
  BY LockMoveOf, OperationTypes DEF LockMove
<1>3. ASSUME NEW ty \in EventType, ty = "KnownRegion" => "memory" \in h
      PROVE  <<h, Write(ty), h>> \in LockMoves
  <2>1. LockMove(h, Write(ty), h)
    BY <1>3 DEF LockMove
  <2> QED
    BY <2>1, LockMoveOf, OperationTypes
<1>4. "memory" \in h => <<h, RecordArea, h>> \in LockMoves
  BY LockMoveOf, OperationTypes DEF LockMove
<1> QED
  BY <1>1, <1>2, <1>3, <1>4, WriteTypes

LEMMA LockMutex ==
  ASSUME NEW h \in SUBSET Mutexes, NEW m \in Mutexes
  PROVE  /\ <<h, Acquire(m), h \cup {m}>> \in LockMoves
         /\ <<h, Lock(m), h \cup {m}>> \in LockMoves
         /\ m \in h => <<h, Unlock(m), h \ {m}>> \in LockMoves
         /\ m \in h => <<h, Record(m), h>> \in LockMoves
<1>1. LockMove(h, Acquire(m), h \cup {m}) /\ LockMove(h, Lock(m), h \cup {m})
  BY DEF LockMove
<1>2. m \in h => LockMove(h, Unlock(m), h \ {m}) /\ LockMove(h, Record(m), h)
  BY DEF LockMove
<1>3. h \cup {m} \in SUBSET Mutexes /\ h \ {m} \in SUBSET Mutexes
  OBVIOUS
<1> QED
  BY <1>1, <1>2, <1>3, LockMoveOf, OperationTypes

\* The operations that leave the abstract state alone.
Steady(R, p) == {o \in Operations : <<p, o, p>> \in R}

LEMMA SeqWider ==
  ASSUME NEW S, NEW T, S \subseteq T, NEW s \in Seq(S) PROVE s \in Seq(T)
<1>1. Len(s) \in Nat /\ s = [i \in 1..Len(s) |-> s[i]] /\ \A i \in 1..Len(s) : s[i] \in S
  OBVIOUS
<1>2. [i \in 1..Len(s) |-> s[i]] \in Seq(T)
  BY <1>1
<1> QED
  BY <1>1, <1>2

LEMMA TrailSteady ==
  ASSUME NEW R, NEW p, NEW s \in Seq(Steady(R, p)) PROVE Trail(R, s, p, p)
<1>1. s \in Seq(Operations) /\ Len(s) \in Nat /\ \A i \in 1..Len(s) : s[i] \in Steady(R, p)
  <2>1. Steady(R, p) \subseteq Operations
    BY DEF Steady
  <2>2. s \in Seq(Operations)
    BY <2>1, SeqWider
  <2> QED
    BY <2>2
<1> DEFINE f == [i \in 1..(Len(s) + 1) |-> p]
<1>2. f[1] = p /\ f[Len(s) + 1] = p
  BY <1>1
<1>3. \A i \in 1..Len(s) : <<f[i], s[i], f[i + 1]>> \in R
  BY <1>1 DEF Steady
<1> HIDE DEF f
<1> QED
  BY <1>1, <1>2, <1>3 DEF Trail

\* A call that is detected, and one that is wrapped.
LEMMA TrailDetected ==
  ASSUME NEW R, NEW pre, NEW post, NEW p0, NEW p1, NEW p2, NEW p3, NEW p4, NEW p5,
         NEW p6, NEW p7,
         <<p0, Enter, p1>> \in R, Trail(R, pre, p1, p2),
         <<p2, Write("Instruction"), p3>> \in R, Trail(R, notifyValue, p3, p4),
         <<p4, Enter, p5>> \in R, Trail(R, post, p5, p6), <<p6, ExitPost, p7>> \in R
  PROVE  Trail(R, Detected(pre, post), p0, p7)
<1>1. /\ Trail(R, <<Enter>>, p0, p1) /\ Trail(R, <<Write("Instruction")>>, p2, p3)
      /\ Trail(R, <<Enter>>, p4, p5) /\ Trail(R, <<ExitPost>>, p6, p7)
  BY TrailOne, OperationTypes, WriteTypes
<1>2. Trail(R, notifyPreCall(pre), p0, p3)
  BY <1>1, TrailConcat DEF notifyPreCall
<1>3. Trail(R, notifyPostCall(post), p4, p7)
  BY <1>1, TrailConcat DEF notifyPostCall
<1>4. Trail(R, notifyPreCall(pre) \o notifyValue, p0, p4)
  BY <1>2, TrailConcat
<1> QED
  BY <1>3, <1>4, TrailConcat DEF Detected

LEMMA TrailWrapped ==
  ASSUME NEW R, NEW locks, NEW function, NEW changes, NEW p0, NEW p1, NEW p2, NEW p3,
         NEW p4, NEW p5, NEW p6,
         <<p0, Enter, p1>> \in R, Trail(R, locks, p1, p2), Trail(R, function, p2, p3),
         Trail(R, notifyValue, p3, p4), Trail(R, changes, p4, p5),
         <<p5, ExitPost, p6>> \in R
  PROVE  Trail(R, Wrapped(locks, function, changes), p0, p6)
<1>1. Trail(R, <<Enter>>, p0, p1) /\ Trail(R, <<ExitPost>>, p5, p6)
  BY TrailOne, OperationTypes
<1>2. Trail(R, <<Enter>> \o locks, p0, p2)
  BY <1>1, TrailConcat
<1>3. Trail(R, <<Enter>> \o locks \o function, p0, p3)
  BY <1>2, TrailConcat
<1>4. Trail(R, <<Enter>> \o locks \o function \o notifyValue, p0, p4)
  BY <1>3, TrailConcat
<1>5. Trail(R, <<Enter>> \o locks \o function \o notifyValue \o changes, p0, p5)
  BY <1>4, TrailConcat
<1> QED
  BY <1>1, <1>5, TrailConcat DEF Wrapped

-----------------------------------------------------------------------------
(***************************************************************************)
(* The locks of every instruction.                                          *)
(***************************************************************************)
LEMMA LockSteady ==
  ASSUME NEW h \in SUBSET Mutexes
  PROVE  /\ {Enter, ThreadTime, Create, Join, Write("Instruction"), Write("Alloca")}
              \subseteq Steady(LockMoves, h)
         /\ "memory" \in h => {Write("KnownRegion"), RecordArea} \subseteq Steady(LockMoves, h)
         /\ \A m \in h : {Acquire(m), Record(m)} \subseteq Steady(LockMoves, h)
<1>1. \A m \in h : h \cup {m} = h /\ m \in Mutexes
  OBVIOUS
<1>2. \A m \in h : <<h, Acquire(m), h>> \in LockMoves /\ <<h, Record(m), h>> \in LockMoves
  BY <1>1, LockMutex
<1> QED
  BY <1>1, <1>2, LockOps, OperationTypes, WriteTypes DEF Steady

LEMMA LockTaken ==
  ASSUME NEW m \in Mutexes, NEW n \in Mutexes
  PROVE  /\ Trail(LockMoves, <<Acquire(m)>>, {}, {m})
         /\ Trail(LockMoves, <<Acquire(m), Acquire(n)>>, {}, {m, n})
         /\ Trail(LockMoves, <<Acquire(m), Lock(n)>>, {}, {m, n})
<1>1. {} \cup {m} = {m} /\ {m} \cup {n} = {m, n}
  OBVIOUS
<1>2. <<{}, Acquire(m), {m}>> \in LockMoves
  BY <1>1, LockMutex
<1>3. <<{m}, Acquire(n), {m, n}>> \in LockMoves /\ <<{m}, Lock(n), {m, n}>> \in LockMoves
  BY <1>1, LockMutex
<1> QED
  BY <1>2, <1>3, TrailOne, TrailTwo, OperationTypes

LEMMA LockValue ==
  ASSUME NEW h \in SUBSET Mutexes PROVE Trail(LockMoves, notifyValue, h, h)
<1>1. Enter \in Steady(LockMoves, h) /\ Write("Instruction") \in Steady(LockMoves, h)
  BY LockSteady
<1>2. notifyValue \in Seq(Steady(LockMoves, h))
  BY <1>1 DEF notifyValue
<1> QED
  BY <1>2, TrailSteady

LEMMA LockDetected ==
  ASSUME NEW pre, NEW post, NEW h \in SUBSET Mutexes, NEW k \in SUBSET Mutexes,
         Trail(LockMoves, pre, {}, h), Trail(LockMoves, post, h, k)
  PROVE  Trail(LockMoves, Detected(pre, post), {}, {})
<1>1. <<{}, Enter, {}>> \in LockMoves /\ <<k, ExitPost, {}>> \in LockMoves
  BY LockOps
<1>2. <<h, Write("Instruction"), h>> \in LockMoves /\ <<h, Enter, h>> \in LockMoves
  BY LockOps
<1> QED
  BY <1>1, <1>2, LockValue, TrailDetected

LEMMA LockWrapped ==
  ASSUME NEW locks, NEW function, NEW changes,
         NEW h \in SUBSET Mutexes, NEW j \in SUBSET Mutexes, NEW k \in SUBSET Mutexes,
         Trail(LockMoves, locks, {}, h), Trail(LockMoves, function, h, j),
         Trail(LockMoves, changes, j, k)
  PROVE  Trail(LockMoves, Wrapped(locks, function, changes), {}, {})
<1>1. <<{}, Enter, {}>> \in LockMoves
  BY LockOps
<1>2. <<k, ExitPost, {}>> \in LockMoves
  BY LockOps
<1> QED
  BY <1>1, <1>2, LockValue, TrailWrapped

LEMMA LocksOfDetected ==
  \A s \in {ctype, fopen, freopen, fclose, fgetc, fgets, fputc, fputs, puts, atof, strtol, calloc, free, malloc, realloc, getenv, memcpy} :
    Trail(LockMoves, s, {}, {})
<1> DEFINE M == {"memory"}
           S == {"streams"}
           D == {"dynamic"}
           MS == {"memory", "streams"}
           MD == {"memory", "dynamic"}
<1>0. /\ M \in SUBSET Mutexes /\ S \in SUBSET Mutexes /\ D \in SUBSET Mutexes
      /\ MS \in SUBSET Mutexes /\ MD \in SUBSET Mutexes
      /\ "memory" \in Mutexes /\ "streams" \in Mutexes /\ "dynamic" \in Mutexes
  BY MutexNames
<1>1. /\ Trail(LockMoves, <<Acquire("memory")>>, {}, M)
      /\ Trail(LockMoves, <<Acquire("streams")>>, {}, S)
      /\ Trail(LockMoves, <<Acquire("dynamic")>>, {}, D)
      /\ Trail(LockMoves, <<Acquire("memory"), Acquire("streams")>>, {}, MS)
      /\ Trail(LockMoves, <<Acquire("memory"), Acquire("dynamic")>>, {}, MD)
      /\ Trail(LockMoves, <<>>, {}, {})
  BY <1>0, LockTaken, TrailNone
<1>2. /\ {Record("memory"), Write("KnownRegion"), RecordArea} \subseteq Steady(LockMoves, M)
      /\ {Acquire("streams"), Record("streams")} \subseteq Steady(LockMoves, S)
      /\ Record("dynamic") \in Steady(LockMoves, D)
      /\ {Record("memory"), Acquire("streams"), Record("streams")}
           \subseteq Steady(LockMoves, MS)
      /\ {Write("Instruction"), Record("dynamic"), RecordArea} \subseteq Steady(LockMoves, MD)
  BY <1>0, LockSteady
<1> HIDE DEF M, S, D, MS, MD
<1>3. Trail(LockMoves, ctype, {}, {})
  <2>1. <<{}, Acquire("memory"), {} \cup {"memory"}>> \in LockMoves
    BY <1>0, LockMutex
  <2>2. {} \cup {"memory"} = M
    BY DEF M
  <2>3. Trail(LockMoves, <<Acquire("memory"), Write("KnownRegion"), Record("memory"),
                           Write("KnownRegion"), Record("memory")>>, {}, M)
    BY <1>2, <2>1, <2>2, TrailFive, OperationTypes, MutexNames DEF Steady
  <2> QED
    BY <1>0, <1>1, <2>3, LockDetected DEF ctype
<1>4. Trail(LockMoves, fopen, {}, {})
  <2>1. <<M, Acquire("streams"), M \cup {"streams"}>> \in LockMoves
    BY <1>0, LockMutex
  <2>2. M \cup {"streams"} = MS
    BY DEF M, MS
  <2>3. Trail(LockMoves, <<Acquire("streams"), Record("streams")>>, M, MS)
    BY <1>2, <2>1, <2>2, TrailTwo, OperationTypes, MutexNames DEF Steady
  <2> QED
    BY <1>0, <1>1, <2>3, LockDetected DEF fopen
<1>5. Trail(LockMoves, freopen, {}, {})
  <2>1. <<Acquire("streams"), Record("streams"), Acquire("streams"), Record("streams")>> \in Seq(Steady(LockMoves, MS))
    BY <1>2
  <2> QED
    BY <1>0, <1>1, <2>1, TrailSteady, LockDetected DEF freopen
<1>6. Trail(LockMoves, fclose, {}, {})
  <2>1. <<Acquire("streams"), Record("streams")>> \in Seq(Steady(LockMoves, S))
    BY <1>2
  <2> QED
    BY <1>0, <1>1, <2>1, TrailSteady, LockDetected DEF fclose
<1>7. Trail(LockMoves, fgetc, {}, {})
  BY <1>0, <1>1, LockDetected, TrailNone DEF fgetc
<1>8. Trail(LockMoves, fgets, {}, {})
  <2>1. <<Record("memory")>> \in Seq(Steady(LockMoves, MS))
    BY <1>2
  <2> QED
    BY <1>0, <1>1, <2>1, TrailSteady, LockDetected DEF fgets
<1>9. Trail(LockMoves, fputc, {}, {})
  <2>1. <<Record("streams")>> \in Seq(Steady(LockMoves, S))
    BY <1>2
  <2> QED
    BY <1>0, <1>1, <2>1, TrailSteady, LockDetected DEF fputc
<1>10. Trail(LockMoves, fputs, {}, {})
  <2>1. <<Record("streams")>> \in Seq(Steady(LockMoves, MS))
    BY <1>2
  <2> QED
    BY <1>0, <1>1, <2>1, TrailSteady, LockDetected DEF fputs
<1>11. Trail(LockMoves, puts, {}, {})
  <2>1. <<Record("streams"), Record("streams")>> \in Seq(Steady(LockMoves, MS))
    BY <1>2
  <2> QED
    BY <1>0, <1>1, <2>1, TrailSteady, LockDetected DEF puts
<1>12. Trail(LockMoves, atof, {}, {})
  BY <1>0, <1>1, LockDetected, TrailNone DEF atof
<1>13. Trail(LockMoves, strtol, {}, {})
  <2>1. <<Record("memory")>> \in Seq(Steady(LockMoves, M))
    BY <1>2
  <2> QED
    BY <1>0, <1>1, <2>1, TrailSteady, LockDetected DEF strtol
<1>14. Trail(LockMoves, calloc, {}, {})
  <2>1. <<Record("dynamic"), RecordArea>> \in Seq(Steady(LockMoves, MD))
    BY <1>2
  <2> QED
    BY <1>0, <1>1, <2>1, TrailSteady, LockDetected DEF calloc
<1>15. Trail(LockMoves, free, {}, {})
  <2>1. <<Write("Instruction"), Record("dynamic"), RecordArea>> \in Seq(Steady(LockMoves, MD))
    BY <1>2
  <2> QED
    BY <1>0, <1>1, <2>1, TrailSteady, LockDetected DEF free
<1>16. Trail(LockMoves, malloc, {}, {})
  <2>1. <<Record("dynamic")>> \in Seq(Steady(LockMoves, D))
    BY <1>2
  <2> QED
    BY <1>0, <1>1, <2>1, TrailSteady, LockDetected DEF malloc
<1>17. Trail(LockMoves, realloc, {}, {})
  <2>1. <<Record("dynamic"), RecordArea, Record("dynamic"), RecordArea>> \in Seq(Steady(LockMoves, MD))
    BY <1>2
  <2> QED
    BY <1>0, <1>1, <2>1, TrailSteady, LockDetected DEF realloc
<1>18. Trail(LockMoves, getenv, {}, {})
  <2>1. <<Write("KnownRegion"), Write("KnownRegion"), Record("memory")>> \in Seq(Steady(LockMoves, M))
    BY <1>2
  <2> QED
    BY <1>0, <1>1, <2>1, TrailSteady, LockDetected DEF getenv
<1>19. Trail(LockMoves, memcpy, {}, {})
  <2>1. <<RecordArea>> \in Seq(Steady(LockMoves, M))
    BY <1>2
  <2> QED
    BY <1>0, <1>1, <2>1, TrailSteady, LockDetected DEF memcpy
<1> QED
  BY <1>3, <1>4, <1>5, <1>6, <1>7, <1>8, <1>9, <1>10, <1>11, <1>12, <1>13, <1>14, <1>15, <1>16, <1>17, <1>18, <1>19

LEMMA LocksOfWrapped ==
  \A s \in {fread, printf, tmpfile, opendir, readdir, closedir, strdup, pthread_create,
            pthread_join} : Trail(LockMoves, s, {}, {})
<1> DEFINE M == {"memory"}
           R == {"dirs"}
           MS == {"memory", "streams"}
           MD == {"memory", "dynamic"}
           MR == {"memory", "dirs"}
<1>0. /\ M \in SUBSET Mutexes /\ R \in SUBSET Mutexes /\ MS \in SUBSET Mutexes
      /\ MD \in SUBSET Mutexes /\ MR \in SUBSET Mutexes
      /\ "memory" \in Mutexes /\ "streams" \in Mutexes /\ "dynamic" \in Mutexes
      /\ "dirs" \in Mutexes
  BY MutexNames
<1>1. /\ Trail(LockMoves, <<Acquire("memory")>>, {}, M)
      /\ Trail(LockMoves, <<Acquire("memory"), Lock("streams")>>, {}, MS)
      /\ Trail(LockMoves, <<Acquire("memory"), Acquire("streams")>>, {}, MS)
      /\ Trail(LockMoves, <<Acquire("memory"), Acquire("dynamic")>>, {}, MD)
      /\ Trail(LockMoves, <<Acquire("dirs")>>, {}, R)
  BY <1>0, LockTaken
<1>2. /\ {Record("memory"), RecordArea, Create, Join} \subseteq Steady(LockMoves, M)
      /\ {Acquire("dirs"), Record("dirs")} \subseteq Steady(LockMoves, R)
      /\ {Acquire("streams"), Record("streams")} \subseteq Steady(LockMoves, MS)
      /\ {Record("dynamic"), RecordArea} \subseteq Steady(LockMoves, MD)
      /\ {Write("KnownRegion"), Record("memory"), Record("dirs")} \subseteq Steady(LockMoves, MR)
  BY <1>0, LockSteady
<1>3. /\ <<M, Lock("streams"), MS>> \in LockMoves /\ <<MS, Unlock("streams"), M>> \in LockMoves
      /\ <<M, Acquire("dirs"), MR>> \in LockMoves
  <2>1. M \cup {"streams"} = MS /\ MS \ {"streams"} = M /\ M \cup {"dirs"} = MR
    OBVIOUS
  <2>2. <<M, Lock("streams"), M \cup {"streams"}>> \in LockMoves
    BY <1>0, LockMutex
  <2>3. <<MS, Unlock("streams"), MS \ {"streams"}>> \in LockMoves
    <3>1. "streams" \in MS
      OBVIOUS
    <3> QED
      BY <1>0, <3>1, LockMutex
  <2>4. <<M, Acquire("dirs"), M \cup {"dirs"}>> \in LockMoves
    BY <1>0, LockMutex
  <2> HIDE DEF M, MS, MR
  <2> QED
    BY <2>1, <2>2, <2>3, <2>4
<1> HIDE DEF M, R, MS, MD, MR
<1>4. Trail(LockMoves, fread, {}, {})
  <2>1. Trail(LockMoves, CheckStream, M, M)
    BY <1>3, TrailTwo, OperationTypes, MutexNames DEF CheckStream
  <2>2. Trail(LockMoves, <<RecordArea>>, M, M)
    BY <1>2, TrailOne DEF Steady
  <2> QED
    BY <1>0, <1>1, <2>1, <2>2, LockWrapped DEF fread
<1>5. Trail(LockMoves, printf, {}, {})
  <2>1. Trail(LockMoves, <<Record("streams"), Unlock("streams")>>, MS, M)
    BY <1>2, <1>3, TrailTwo, OperationTypes, MutexNames DEF Steady
  <2> QED
    BY <1>0, <1>1, <2>1, TrailNone, LockWrapped DEF printf
<1>6. Trail(LockMoves, tmpfile, {}, {})
  <2>1. <<Acquire("streams"), Record("streams")>> \in Seq(Steady(LockMoves, MS))
    BY <1>2
  <2> QED
    BY <1>0, <1>1, <2>1, TrailNone, TrailSteady, LockWrapped DEF tmpfile
<1>7. Trail(LockMoves, opendir, {}, {})
  <2>1. Trail(LockMoves, <<Acquire("dirs"), Record("dirs")>>, M, MR)
    BY <1>2, <1>3, TrailTwo, OperationTypes, MutexNames DEF Steady
  <2> QED
    BY <1>0, <1>1, <2>1, TrailNone, LockWrapped DEF opendir
<1>8. Trail(LockMoves, readdir, {}, {})
  <2>1. Trail(LockMoves, <<Acquire("dirs")>>, M, MR)
    BY <1>3, TrailOne, OperationTypes, MutexNames
  <2>2. <<Write("KnownRegion"), Record("memory")>> \in Seq(Steady(LockMoves, MR))
    BY <1>2
  <2> QED
    BY <1>0, <1>1, <2>1, <2>2, TrailSteady, LockWrapped DEF readdir
<1>9. Trail(LockMoves, closedir, {}, {})
  <2>1. <<Acquire("dirs"), Record("dirs")>> \in Seq(Steady(LockMoves, R))
    BY <1>2
  <2> QED
    BY <1>0, <1>1, <2>1, TrailNone, TrailSteady, LockWrapped DEF closedir
<1>10. Trail(LockMoves, strdup, {}, {})
  <2>1. <<Record("dynamic"), RecordArea>> \in Seq(Steady(LockMoves, MD))
    BY <1>2
  <2> QED
    BY <1>0, <1>1, <2>1, TrailNone, TrailSteady, LockWrapped DEF strdup
<1>11. Trail(LockMoves, pthread_create, {}, {}) /\ Trail(LockMoves, pthread_join, {}, {})
  <2>1. /\ Trail(LockMoves, <<Create>>, M, M) /\ Trail(LockMoves, <<Join>>, M, M)
        /\ Trail(LockMoves, <<Record("memory")>>, M, M)
    BY <1>2, TrailOne DEF Steady
  <2> QED
    BY <1>0, <1>1, <2>1, LockWrapped DEF pthread_create, pthread_join
<1> QED
  BY <1>4, <1>5, <1>6, <1>7, <1>8, <1>9, <1>10, <1>11

LEMMA LockBegin ==
  ASSUME NEW t PROVE Trail(LockMoves, notifyFunctionBegin(t), {}, {})
<1> DEFINE M == {"memory"}
           middle == IF t = Main THEN <<Acquire("memory")>> \o setupEnvironTable ELSE <<>>
<1>0. {} \in SUBSET Mutexes /\ M \in SUBSET Mutexes /\ "memory" \in Mutexes
  BY MutexNames
<1>1. Trail(LockMoves, <<Enter, Write("Instruction")>>, {}, {})
  BY <1>0, LockValue DEF notifyValue
<1>2. Trail(LockMoves, <<Acquire("memory")>> \o setupEnvironTable, {}, M)
  <2>1. {Write("KnownRegion"), Record("memory")} \subseteq Steady(LockMoves, M)
    BY <1>0, LockSteady
  <2>2. Trail(LockMoves, <<Acquire("memory")>>, {}, M)
    BY <1>0, LockTaken
  <2> HIDE DEF M
  <2>3. setupEnvironTable \in Seq(Steady(LockMoves, M))
    BY <2>1 DEF setupEnvironTable
  <2> QED
    BY <2>2, <2>3, TrailSteady, TrailConcat
<1>3. \E h \in SUBSET Mutexes : Trail(LockMoves, middle, {}, h)
  <2>1. CASE t = Main
    BY <2>1, <1>0, <1>2
  <2>2. CASE t # Main
    BY <2>2, <1>0, TrailNone
  <2> QED
    BY <2>1, <2>2
<1>4. PICK h \in SUBSET Mutexes : Trail(LockMoves, middle, {}, h)
  BY <1>3
<1>5. Trail(LockMoves, <<ExitPost>>, h, {})
  BY LockOps, TrailOne, OperationTypes
<1> HIDE DEF middle
<1>6. Trail(LockMoves, <<Enter, Write("Instruction")>> \o middle, {}, h)
  BY <1>1, <1>4, TrailConcat
<1>7. Trail(LockMoves, <<Enter, Write("Instruction")>> \o middle \o <<ExitPost>>, {}, {})
  BY <1>5, <1>6, TrailConcat
<1> QED
  BY <1>7 DEF notifyFunctionBegin, middle

LEMMA LockEnd ==
  ASSUME NEW n \in Nat PROVE Trail(LockMoves, notifyFunctionEnd(n), {}, {})
<1> DEFINE M == {"memory"}
           areas == [a \in 1..n |-> RecordArea]
<1>0. {} \in SUBSET Mutexes /\ M \in SUBSET Mutexes /\ "memory" \in Mutexes
  BY MutexNames
<1>1. RecordArea \in Steady(LockMoves, M)
  BY <1>0, LockSteady
<1>2. <<{}, Acquire("memory"), M>> \in LockMoves /\ <<M, Unlock("memory"), {}>> \in LockMoves
  <2>1. {} \cup {"memory"} = M /\ M \ {"memory"} = {} /\ "memory" \in M
    OBVIOUS
  <2>2. <<{}, Acquire("memory"), {} \cup {"memory"}>> \in LockMoves
    BY <1>0, LockMutex
  <2>3. <<M, Unlock("memory"), M \ {"memory"}>> \in LockMoves
    BY <1>0, <2>1, LockMutex
  <2> HIDE DEF M
  <2> QED
    BY <2>1, <2>2, <2>3
<1>3. <<{}, Enter, {}>> \in LockMoves /\ <<{}, Write("Instruction"), {}>> \in LockMoves
  BY <1>0, LockOps
<1> HIDE DEF M
<1>4. areas \in Seq(Steady(LockMoves, M))
  BY <1>1
<1> HIDE DEF areas
<1>5. Trail(LockMoves, <<Enter, Write("Instruction"), Acquire("memory")>>, {}, M)
  BY <1>2, <1>3, TrailThree, OperationTypes, MutexNames, WriteTypes
<1>6. Trail(LockMoves, <<Enter, Write("Instruction"), Acquire("memory")>> \o areas, {}, M)
  BY <1>4, <1>5, TrailSteady, TrailConcat
<1>7. Trail(LockMoves, <<Unlock("memory")>>, M, {})
  BY <1>2, TrailOne, OperationTypes, MutexNames
<1> QED
  BY <1>6, <1>7, TrailConcat DEF notifyFunctionEnd, areas

LEMMA LocksOfThreads ==
  /\ \A s \in {load, store, call, callByVal, bsearch, qsort} : Trail(LockMoves, s, {}, {})
  /\ Trail(LockMoves, notifyArgs, {}, {})
<1> DEFINE M == {"memory"}
           MD == {"memory", "dynamic"}
<1>0. /\ {} \in SUBSET Mutexes /\ M \in SUBSET Mutexes /\ MD \in SUBSET Mutexes
      /\ "memory" \in Mutexes /\ "dynamic" \in Mutexes /\ NoThread # Main
  BY MutexNames, RecorderAssumption
<1>1. /\ <<{}, Acquire("memory"), M>> \in LockMoves /\ <<{}, Lock("memory"), M>> \in LockMoves
      /\ <<M, Unlock("memory"), {}>> \in LockMoves
      /\ <<M, Acquire("dynamic"), MD>> \in LockMoves
  <2>1. /\ {} \cup {"memory"} = M /\ M \ {"memory"} = {} /\ "memory" \in M
        /\ M \cup {"dynamic"} = MD
    OBVIOUS
  <2>2. /\ <<{}, Acquire("memory"), {} \cup {"memory"}>> \in LockMoves
        /\ <<{}, Lock("memory"), {} \cup {"memory"}>> \in LockMoves
    BY <1>0, LockMutex
  <2>3. /\ <<M, Unlock("memory"), M \ {"memory"}>> \in LockMoves
        /\ <<M, Acquire("dynamic"), M \cup {"dynamic"}>> \in LockMoves
    BY <1>0, <2>1, LockMutex
  <2> HIDE DEF M, MD
  <2> QED
    BY <2>1, <2>2, <2>3
<1>2. /\ {Enter, Write("Instruction"), Write("Alloca")} \subseteq Steady(LockMoves, {})
      /\ {Enter, Write("Instruction"), Record("memory"), RecordArea, Write("KnownRegion")}
           \subseteq Steady(LockMoves, M)
      /\ {ThreadTime, Record("memory")} \subseteq Steady(LockMoves, MD)
  BY <1>0, LockSteady
<1>3. /\ <<M, ExitPost, {}>> \in LockMoves /\ <<MD, ExitPost, {}>> \in LockMoves
      /\ <<{}, ExitPost, {}>> \in LockMoves
  BY <1>0, LockOps
<1>4. Trail(LockMoves, notifyValue, {}, {}) /\ Trail(LockMoves, notifyValue, M, M)
  BY <1>0, LockValue
<1>5. /\ Trail(LockMoves, notifyFunctionBegin(NoThread), {}, {})
      /\ Trail(LockMoves, notifyFunctionEnd(1), {}, {})
      /\ Trail(LockMoves, notifyFunctionEnd(0), {}, {})
  BY LockBegin, LockEnd
<1> HIDE DEF M, MD
<1> USE OperationTypes, MutexNames, WriteTypes
<1>6. /\ Trail(LockMoves, notifyPreLoad, {}, M) /\ Trail(LockMoves, notifyPostLoad, M, {})
      /\ Trail(LockMoves, notifyPreStore, {}, M) /\ Trail(LockMoves, notifyPostStore, M, {})
  <2>1. Trail(LockMoves, <<Enter, Lock("memory")>>, {}, M)
    BY <1>1, <1>2, TrailTwo DEF Steady
  <2>2. Trail(LockMoves, <<Enter, ExitPost>>, M, {})
    BY <1>2, <1>3, TrailTwo DEF Steady
  <2>3. Trail(LockMoves, <<Enter, Write("Instruction"), Record("memory"), ExitPost>>, M, {})
    BY <1>2, <1>3, TrailFour DEF Steady
  <2> QED
    BY <2>1, <2>2, <2>3 DEF notifyPreLoad, notifyPostLoad, notifyPreStore, notifyPostStore
<1>7. Trail(LockMoves, load, {}, {})
  <2>1. Trail(LockMoves, notifyPreLoad \o notifyPostLoad, {}, {})
    BY <1>6, TrailConcat
  <2> QED
    BY <1>4, <2>1, TrailConcat DEF load
<1>8. Trail(LockMoves, store, {}, {})
  BY <1>6, TrailConcat DEF store
<1>9. /\ Trail(LockMoves, notifyAlloca, {}, {})
      /\ Trail(LockMoves, notifyArgumentByVal, {}, {})
  <2>1. Trail(LockMoves, <<Enter, Write("Instruction"), Write("Alloca"),
                           Acquire("memory"), Unlock("memory")>>, {}, {})
    BY <1>1, <1>2, TrailFive DEF Steady
  <2>2. Trail(LockMoves, <<Enter, Write("Alloca"), Acquire("memory"), RecordArea,
                           Unlock("memory")>>, {}, {})
    BY <1>1, <1>2, TrailFive DEF Steady
  <2> QED
    BY <2>1, <2>2 DEF notifyAlloca, notifyArgumentByVal
<1>10. /\ Trail(LockMoves, notifyPreCall(<<>>), {}, {})
       /\ Trail(LockMoves, notifyPostCall(<<>>), {}, {})
  <2>1. /\ Trail(LockMoves, <<Enter>>, {}, {}) /\ Trail(LockMoves, <<ExitPost>>, {}, {})
        /\ Trail(LockMoves, <<Write("Instruction")>>, {}, {})
        /\ Trail(LockMoves, <<>>, {}, {})
    BY <1>2, <1>3, TrailOne, TrailNone DEF Steady
  <2>2. Trail(LockMoves, <<Enter>> \o <<>>, {}, {})
    BY <2>1, TrailConcat
  <2> QED
    BY <2>1, <2>2, TrailConcat DEF notifyPreCall, notifyPostCall
<1>11. Trail(LockMoves, notifyPreCall(<<>>) \o notifyFunctionBegin(NoThread), {}, {})
  BY <1>5, <1>10, TrailConcat
<1>12. Trail(LockMoves, call, {}, {})
  <2>1. Trail(LockMoves, notifyPreCall(<<>>) \o notifyFunctionBegin(NoThread)
                           \o notifyAlloca, {}, {})
    BY <1>9, <1>11, TrailConcat
  <2>2. Trail(LockMoves, notifyPreCall(<<>>) \o notifyFunctionBegin(NoThread)
                           \o notifyAlloca \o notifyFunctionEnd(1), {}, {})
    BY <1>5, <2>1, TrailConcat
  <2>3. Trail(LockMoves, notifyPreCall(<<>>) \o notifyFunctionBegin(NoThread)
                           \o notifyAlloca \o notifyFunctionEnd(1) \o notifyValue, {}, {})
    BY <1>4, <2>2, TrailConcat
  <2> QED
    BY <1>10, <2>3, TrailConcat DEF call
<1>13. Trail(LockMoves, callByVal, {}, {})
  <2>1. Trail(LockMoves, notifyPreCall(<<>>) \o notifyFunctionBegin(NoThread)
                           \o notifyArgumentByVal, {}, {})
    BY <1>9, <1>11, TrailConcat
  <2>2. Trail(LockMoves, notifyPreCall(<<>>) \o notifyFunctionBegin(NoThread)
                           \o notifyArgumentByVal \o store, {}, {})
    BY <1>8, <2>1, TrailConcat
  <2>3. Trail(LockMoves, notifyPreCall(<<>>) \o notifyFunctionBegin(NoThread)
                           \o notifyArgumentByVal \o store \o notifyFunctionEnd(1), {}, {})
    BY <1>5, <2>2, TrailConcat
  <2>4. Trail(LockMoves, notifyPreCall(<<>>) \o notifyFunctionBegin(NoThread)
                           \o notifyArgumentByVal \o store \o notifyFunctionEnd(1)
                           \o notifyValue, {}, {})
    BY <1>4, <2>3, TrailConcat
  <2> QED
    BY <1>10, <2>4, TrailConcat DEF callByVal
<1>14. /\ Trail(LockMoves, acquireMemory, {}, MD) /\ Trail(LockMoves, swap, MD, MD)
       /\ Trail(LockMoves, <<ExitPost>>, MD, {}) /\ Trail(LockMoves, Compare, {}, {})
  <2>1. Trail(LockMoves, <<Enter, Acquire("memory"), Acquire("dynamic")>>, {}, MD)
    BY <1>1, <1>2, TrailThree DEF Steady
  <2>2. Trail(LockMoves, <<ThreadTime, Record("memory"), Record("memory")>>, MD, MD)
    BY <1>2, TrailThree DEF Steady
  <2>3. Trail(LockMoves, <<ExitPost>>, MD, {})
    BY <1>3, TrailOne
  <2> QED
    BY <1>5, <2>1, <2>2, <2>3, TrailConcat DEF acquireMemory, swap, Compare
<1>15. Trail(LockMoves, acquireMemory \o <<ExitPost>>, {}, {})
  BY <1>14, TrailConcat
<1>16. Trail(LockMoves, bsearch, {}, {})
  <2>1. Trail(LockMoves, acquireMemory \o <<ExitPost>> \o Compare, {}, {})
    BY <1>14, <1>15, TrailConcat
  <2>2. Trail(LockMoves, acquireMemory \o <<ExitPost>> \o Compare \o acquireMemory, {}, MD)
    BY <1>14, <2>1, TrailConcat
  <2>3. Trail(LockMoves, acquireMemory \o <<ExitPost>> \o Compare \o acquireMemory
                           \o <<ExitPost>>, {}, {})
    BY <1>14, <2>2, TrailConcat
  <2> QED
    BY <1>4, <2>3, TrailConcat DEF bsearch
<1>17. Trail(LockMoves, qsort, {}, {})
  <2>1. Trail(LockMoves, acquireMemory \o swap, {}, MD)
    BY <1>14, TrailConcat
  <2>2. Trail(LockMoves, acquireMemory \o swap \o <<ExitPost>>, {}, {})
    BY <1>14, <2>1, TrailConcat
  <2>3. Trail(LockMoves, acquireMemory \o swap \o <<ExitPost>> \o Compare, {}, {})
    BY <1>14, <2>2, TrailConcat
  <2>4. Trail(LockMoves, acquireMemory \o swap \o <<ExitPost>> \o Compare
                           \o acquireMemory, {}, MD)
    BY <1>14, <2>3, TrailConcat
  <2> QED
    BY <1>14, <2>4, TrailConcat DEF qsort
<1>18. Trail(LockMoves, notifyArgs, {}, {})
  <2>1. Trail(LockMoves, <<Unlock("memory"), ExitPost>>, M, {})
    BY <1>1, <1>3, TrailTwo
  <2>2. Trail(LockMoves, <<Enter, Lock("memory"), Write("KnownRegion"), Record("memory"),
                           Write("KnownRegion"), Record("memory")>>, {}, M)
    BY <1>1, <1>2, TrailSix DEF Steady
  <2>3. Trail(LockMoves, <<Enter, Lock("memory"), Write("KnownRegion"), Record("memory"),
                           Write("KnownRegion"), Record("memory")>>
                         \o <<Unlock("memory"), ExitPost>>, {}, {})
    BY <2>1, <2>2, TrailConcat
  <2>4. notifyArgs = <<Enter, Lock("memory"), Write("KnownRegion"), Record("memory"),
                       Write("KnownRegion"), Record("memory")>>
                     \o <<Unlock("memory"), ExitPost>>
    BY DEF notifyArgs
  <2> QED
    BY <2>3, <2>4
<1> QED
  BY <1>7, <1>8, <1>12, <1>13, <1>16, <1>17, <1>18

(***************************************************************************)
(* Every instruction that a program with locked records executes.           *)
(***************************************************************************)
LEMMA LocksOfCode ==
  ASSUME NEW k \in DOMAIN Code, k \notin UnlockedRecords
  PROVE  Trail(LockMoves, Code[k], {}, {})
BY LocksOfDetected, LocksOfWrapped, LocksOfThreads DEF Code, UnlockedRecords

-----------------------------------------------------------------------------
(***************************************************************************)
(* Type correctness.                                                        *)
(***************************************************************************)
\* What every instruction consists of is known to be operations.
LEMMA CodeType ==
  /\ \A k \in DOMAIN Code : Code[k] \in Seq(Operations)
  /\ \A t : notifyFunctionBegin(t) \in Seq(Operations)
  /\ notifyFunctionEnd(1) \in Seq(Operations)
  /\ notifyFunctionBegin(Main) \o notifyArgs \in Seq(Operations)
<1> DEFINE R == {<<0, o, 0>> : o \in Operations}
<1>1. \A o \in Operations : <<0, o, 0>> \in R
  OBVIOUS
<1>2. \A o \in Operations : o \in Steady(R, 0)
  BY <1>1 DEF Steady
<1> HIDE DEF R
<1> USE OperationTypes, MutexNames, WriteTypes
<1>3. /\ Trail(R, notifyValue, 0, 0) /\ Trail(R, CheckStream, 0, 0)
      /\ Trail(R, recordErrno, 0, 0)
  BY <1>1, TrailTwo DEF notifyValue, CheckStream, recordErrno
<1>4. /\ Trail(R, <<Acquire("memory")>>, 0, 0) /\ Trail(R, <<Record("streams")>>, 0, 0)
      /\ Trail(R, <<>>, 0, 0)
  BY <1>1, TrailOne, TrailNone
<1>5. fwrite \in Seq(Operations)
  <2>1. Trail(R, fwrite, 0, 0)
    BY <1>1, <1>3, <1>4, TrailWrapped DEF fwrite
  <2> QED
    BY <2>1 DEF Trail
<1>6. close \in Seq(Operations)
  <2>1. Trail(R, close, 0, 0)
    BY <1>1, <1>3, <1>4, TrailWrapped DEF close
  <2> QED
    BY <2>1 DEF Trail
<1>7. Code.fwrite = fwrite /\ Code.close = close
  BY DEF Code
<1>8. \A k \in DOMAIN Code : Code[k] \in Seq(Operations)
  BY <1>5, <1>6, <1>7, LocksOfCode DEF Trail, UnlockedRecords
<1>9. Trail(LockMoves, notifyFunctionBegin(Main) \o notifyArgs, {}, {})
  BY LockBegin, LocksOfThreads, TrailConcat
<1> QED
  BY <1>8, <1>9, LockBegin, LockEnd DEF Trail

LEMMA OperationShapes ==
  ASSUME NEW o \in Operations
  PROVE  /\ o.op \in {"acquire", "lock", "unlock", "record", "recordArea"}
              => o.mutex \in Mutexes
         /\ o.op = "write" => o.type \in EventType
BY DEF Operations, Enter, ExitPost, ThreadTime, RecordArea, Create, Join, Acquire, Lock,
       Unlock, Record, Write, Mutexes

\* The first operation that a thread has left, and the others.
LEMMA Todo ==
  ASSUME TypeOK, NEW t \in Threads, todo[t] # <<>>
  PROVE  Head(todo[t]) \in Operations /\ Tail(todo[t]) \in Seq(Operations)
BY DEF TypeOK

\* An increment of the time is under way only where an event is being recorded,
\* and a thread that does not exist has nothing to do.
ControlOK ==
  /\ program \in Programs /\ phase[Main] # "none"
  /\ \A t \in Threads : /\ incremented[t] # 0 => AtRecord(t) /\ ci[t] = 0
                        /\ phase[t] = "none" => todo[t] = <<>>

Base == TypeOK /\ ControlOK

LEMMA BaseInit == Init => Base
<1> SUFFICES ASSUME Init PROVE Base
  OBVIOUS
<1>1. Main \in Threads /\ 0 \in 0..MaxInstructions
  BY RecorderAssumption
<1>2. todo \in [Threads -> Seq(Operations)]
  BY CodeType DEF Init
<1>3. TypeOK
  BY <1>1, <1>2 DEF Init, TypeOK
<1>4. ControlOK
  BY <1>1 DEF Init, ControlOK
<1> QED
  BY <1>3, <1>4 DEF Base

LEMMA EventTypes ==
  ASSUME NEW ty \in EventType, NEW n \in Nat PROVE [type |-> ty, time |-> n] \in Event
BY DEF Event

LEMMA WriteType ==
  ASSUME TypeOK, NEW t \in Threads, NEW e \in Event, EventsOutWrite(t, e)
  PROVE  rec' \in [Threads -> Seq(Event)]
BY DEF TypeOK, EventsOutWrite

LEMMA BaseNext == Base /\ [Next]_vars => Base'
<1> SUFFICES ASSUME Base, [Next]_vars PROVE Base'
  OBVIOUS
<1> USE DEF Base
<1>1. ASSUME NEW t \in Threads, ThreadStep(t) PROVE Base'
  <2>0. /\ TypeOK /\ ControlOK /\ program' = program /\ Main \in Threads
        /\ {"NewProcessTime", "Instruction", "State"} \subseteq EventType
    BY <1>1, RecorderAssumption DEF ThreadStep, EventType
  <2>1. CASE enterNotification(t)
    <3>1. [type |-> "NewProcessTime", time |-> time] \in Event
      BY <2>0, EventTypes DEF TypeOK
    <3>2. TypeOK'
      <4>1. rec' \in [Threads -> Seq(Event)]
        BY <2>0, <2>1, <3>1, WriteType DEF TypeOK, enterNotification
      <4> QED
        BY <2>0, <2>1, <4>1, Todo DEF TypeOK, enterNotification, Advance, At
    <3>3. ControlOK'
      BY <2>0, <2>1 DEF TypeOK, ControlOK, enterNotification, Advance, At, AtRecord
    <3> QED
      BY <3>2, <3>3
  <2>2. CASE exitPostNotification(t)
    <3>1. TypeOK'
      BY <2>0, <2>2, Todo DEF TypeOK, exitPostNotification, Advance, At
    <3>2. ControlOK'
      BY <2>0, <2>2 DEF TypeOK, ControlOK, exitPostNotification, Advance, At, AtRecord
    <3> QED
      BY <3>1, <3>2
  <2>3. CASE acquireLock(t)
    <3>1. TypeOK'
      <4>1. todo[t] # <<>> /\ Head(todo[t]).mutex \in Mutexes
        BY <2>0, <2>3, Todo, OperationShapes DEF acquireLock, At
      <4> QED
        BY <2>0, <2>3, <4>1, Todo DEF TypeOK, acquireLock, Advance
    <3>2. ControlOK'
      BY <2>0, <2>3 DEF TypeOK, ControlOK, acquireLock, Advance, At, AtRecord
    <3> QED
      BY <3>1, <3>2
  <2>4. CASE unlock(t)
    <3>1. TypeOK'
      <4>1. todo[t] # <<>> /\ Head(todo[t]).mutex \in Mutexes
        BY <2>0, <2>4, Todo, OperationShapes DEF unlock, At
      <4> QED
        BY <2>0, <2>4, <4>1, Todo DEF TypeOK, unlock, Advance
    <3>2. ControlOK'
      BY <2>0, <2>4 DEF TypeOK, ControlOK, unlock, Advance, At, AtRecord
    <3> QED
      BY <3>1, <3>2
  <2>5. CASE writeEvent(t)
    <3>1. todo[t] # <<>> /\ Head(todo[t]).type \in EventType
      BY <2>0, <2>5, Todo, OperationShapes DEF writeEvent, At
    <3>2. [type |-> Head(todo[t]).type, time |-> 0] \in Event
      BY <3>1, EventTypes
    <3>3. TypeOK'
      <4>1. rec' \in [Threads -> Seq(Event)]
        BY <2>0, <2>5, <3>2, WriteType DEF writeEvent
      <4> QED
        BY <2>0, <2>5, <3>1, <4>1, Todo DEF TypeOK, writeEvent, Advance
    <3>4. ControlOK'
      BY <2>0, <2>5 DEF TypeOK, ControlOK, writeEvent, Advance, At, AtRecord
    <3> QED
      BY <3>3, <3>4
  <2>6. CASE incrementThreadTime(t)
    <3>1. [type |-> "Instruction", time |-> 0] \in Event
      BY <2>0, EventTypes
    <3>2. TypeOK'
      <4>1. rec' \in [Threads -> Seq(Event)]
        BY <2>0, <2>6, <3>1, WriteType DEF incrementThreadTime
      <4> QED
        BY <2>0, <2>6, <4>1, Todo DEF TypeOK, incrementThreadTime, Advance, At
    <3>3. ControlOK'
      BY <2>0, <2>6 DEF TypeOK, ControlOK, incrementThreadTime, Advance, At, AtRecord
    <3> QED
      BY <3>2, <3>3
  <2>7. CASE LoadTime(t)
    <3>1. TypeOK'
      BY <2>0, <2>7 DEF TypeOK, LoadTime
    <3>2. ControlOK'
      BY <2>0, <2>7 DEF TypeOK, ControlOK, LoadTime, At, AtRecord
    <3> QED
      BY <3>1, <3>2
  <2>8. CASE StoreTime(t)
    <3>0. todo[t] # <<>> /\ incremented[t] \in Nat
      BY <2>0, <2>8 DEF StoreTime, ControlOK, AtRecord, At, TypeOK
    <3>1. [type |-> "State", time |-> incremented[t]] \in Event
      BY <2>0, <3>0, EventTypes
    <3>2. TypeOK'
      <4>1. rec' \in [Threads -> Seq(Event)]
        BY <2>0, <2>8, <3>1, WriteType DEF StoreTime, RecordAt
      <4> QED
        BY <2>0, <2>8, <3>0, <4>1, Todo DEF TypeOK, StoreTime, RecordAt, Advance
    <3>3. ControlOK'
      BY <2>0, <2>8, <3>0
         DEF TypeOK, ControlOK, StoreTime, RecordAt, Advance, At, AtRecord
    <3> QED
      BY <3>2, <3>3
  <2>9. CASE recordState(t)
    <3>0. todo[t] # <<>> /\ ci[t] \in Nat
      BY <2>0, <2>9 DEF recordState, AtRecord, At, TypeOK
    <3>1. [type |-> "State", time |-> ci[t]] \in Event
      BY <2>0, <3>0, EventTypes
    <3>2. TypeOK'
      <4>1. rec' \in [Threads -> Seq(Event)]
        BY <2>0, <2>9, <3>1, WriteType DEF recordState, RecordAt
      <4> QED
        BY <2>0, <2>9, <3>0, <4>1, Todo DEF TypeOK, recordState, RecordAt, Advance
    <3>3. ControlOK'
      BY <2>0, <2>9, <3>0
         DEF TypeOK, ControlOK, recordState, RecordAt, Advance, At, AtRecord
    <3> QED
      BY <3>2, <3>3
  <2>10. CASE recordNothing(t)
    <3>1. TypeOK'
      BY <2>0, <2>10, Todo DEF TypeOK, recordNothing, Advance, At
    <3>2. ControlOK'
      BY <2>0, <2>10 DEF TypeOK, ControlOK, recordNothing, Advance, At, AtRecord
    <3> QED
      BY <3>1, <3>2
  <2>11. CASE createThread(t)
    <3>1. PICK u \in Threads :
            /\ phase[u] = "none"
            /\ phase' = [phase EXCEPT ![u] = "running"]
            /\ todo' = [todo EXCEPT ![t] = Tail(@), ![u] = notifyFunctionBegin(u)]
      BY <2>11 DEF createThread
    <3>2. todo[t] # <<>> /\ u # t
      BY <2>0, <2>11, <3>1 DEF createThread, At, ControlOK
    <3>3. TypeOK'
      BY <2>0, <2>11, <3>1, <3>2, Todo, CodeType DEF TypeOK, createThread
    <3>4. ControlOK'
      BY <2>0, <2>11, <3>1, <3>2 DEF TypeOK, ControlOK, createThread, At, AtRecord
    <3> QED
      BY <3>3, <3>4
  <2>12. CASE joinThread(t)
    <3>1. TypeOK'
      BY <2>0, <2>12, Todo DEF TypeOK, joinThread, Advance, At
    <3>2. ControlOK'
      BY <2>0, <2>12 DEF TypeOK, ControlOK, joinThread, Advance, At, AtRecord
    <3> QED
      BY <3>1, <3>2
  <2>13. ASSUME NEW k \in program, BeginInstruction(t, k) PROVE Base'
    <3>1. k \in DOMAIN Code
      BY <2>0, RecorderAssumption DEF ControlOK
    <3>2. TypeOK'
      <4>1. count' \in 0..MaxInstructions
        BY <2>0, <2>13, RecorderAssumption DEF TypeOK, BeginInstruction
      <4> QED
        BY <2>0, <2>13, <3>1, <4>1, CodeType DEF TypeOK, BeginInstruction
    <3>3. ControlOK'
      BY <2>0, <2>13 DEF TypeOK, ControlOK, BeginInstruction, At, AtRecord
    <3> QED
      BY <3>2, <3>3
  <2>14. CASE Return(t)
    <3>1. TypeOK'
      BY <2>0, <2>14, CodeType DEF TypeOK, Return
    <3>2. ControlOK'
      BY <2>0, <2>14 DEF TypeOK, ControlOK, Return, At, AtRecord
    <3> QED
      BY <3>1, <3>2
  <2> QED
    BY <1>1, <2>1, <2>2, <2>3, <2>4, <2>5, <2>6, <2>7, <2>8, <2>9, <2>10, <2>11, <2>12,
       <2>13, <2>14 DEF ThreadStep, Operation
<1>2. CASE UNCHANGED vars
  BY <1>2 DEF vars, Base, TypeOK, ControlOK, At, AtRecord
<1> QED
  BY <1>1, <1>2 DEF Next, Ended

\* TypeOK holds of the recorder for every program and number of threads.
THEOREM RecorderTypes == Spec => []TypeOK
<1>1. Base => TypeOK
  BY DEF Base
<1> QED
  BY <1>1, BaseInit, BaseNext, PTL DEF Spec

-----------------------------------------------------------------------------
(***************************************************************************)
(* Changes are recorded by a thread that holds the lock of what it changed. *)
(***************************************************************************)
LEMMA LockMoveCases ==
  ASSUME NEW h, NEW o, NEW k, <<h, o, k>> \in LockMoves
  PROVE  /\ h \in SUBSET Mutexes /\ k \in SUBSET Mutexes
         /\ o.op \in {"acquire", "lock"} => k = h \cup {o.mutex}
         /\ o.op = "unlock" => o.mutex \in h /\ k = h \ {o.mutex}
         /\ o.op = "exitPost" => k = {}
         /\ o.op \in {"record", "recordArea"} => o.mutex \in h
         /\ o.op = "write" /\ o.type = "KnownRegion" => "memory" \in h
         /\ o.op \in {"enter", "write", "threadTime", "create", "join", "record",
                      "recordArea"} => k = h
<1>1. h \in SUBSET Mutexes /\ k \in SUBSET Mutexes /\ LockMove(h, o, k)
  BY DEF LockMoves
<1> QED
  BY <1>1 DEF LockMove, Enter, ExitPost, ThreadTime, RecordArea, Create, Join, Acquire,
              Lock, Unlock, Record, Write

\* The thread has all the locks that the rest of its operations relies on.
LockPart(t) == \E h \in SUBSET Mutexes : Trail(LockMoves, todo[t], h, {}) /\ Has(t, h)

LockInv == program \cap UnlockedRecords = {} => \A t \in Threads : LockPart(t)

LEMMA LockPartHead ==
  ASSUME NEW t \in Threads, LockPart(t), todo[t] # <<>>
  PROVE  \E h, k \in SUBSET Mutexes :
           /\ <<h, Head(todo[t]), k>> \in LockMoves /\ Has(t, h)
           /\ Trail(LockMoves, Tail(todo[t]), k, {})
<1>1. PICK h \in SUBSET Mutexes : Trail(LockMoves, todo[t], h, {}) /\ Has(t, h)
  BY DEF LockPart
<1>2. PICK k : <<h, Head(todo[t]), k>> \in LockMoves /\ Trail(LockMoves, Tail(todo[t]), k, {})
  BY <1>1, TrailStep
<1>3. k \in SUBSET Mutexes
  BY <1>2, LockMoveCases
<1> QED
  BY <1>1, <1>2, <1>3

LEMMA LockInit == Init => LockInv
<1> SUFFICES ASSUME Init, NEW t \in Threads PROVE LockPart(t)
  BY DEF LockInv
<1>1. Trail(LockMoves, notifyFunctionBegin(Main) \o notifyArgs, {}, {})
  BY LockBegin, LocksOfThreads, TrailConcat
<1>2. Trail(LockMoves, todo[t], {}, {})
  BY <1>1, TrailNone DEF Init
<1> QED
  BY <1>2 DEF LockPart, Has

LEMMA LockNext == Base /\ LockInv /\ [Next]_vars => LockInv'
<1> SUFFICES ASSUME Base, LockInv, [Next]_vars, program' \cap UnlockedRecords = {},
                    NEW v \in Threads
             PROVE  LockPart(v)'
  BY DEF LockInv
<1>1. ASSUME NEW t \in Threads, ThreadStep(t) PROVE LockPart(v)'
  <2>0. /\ TypeOK /\ ControlOK /\ program' = program /\ LockPart(v) /\ LockPart(t)
        /\ NoThread \notin Threads
    BY <1>1, RecorderAssumption DEF ThreadStep, Base, LockInv
  \* A step that changes neither the operations of v nor what v owns.
  <2>1. ASSUME todo'[v] = todo[v], \A m \in Mutexes : owner[m] = v => owner'[m] = v
        PROVE  LockPart(v)'
    <3>1. PICK h \in SUBSET Mutexes : Trail(LockMoves, todo[v], h, {}) /\ Has(v, h)
      BY <2>0 DEF LockPart
    <3>2. Has(v, h)'
      BY <2>1, <3>1 DEF Has
    <3> QED
      BY <2>1, <3>1, <3>2 DEF LockPart
  \* One that takes an operation of t and keeps the locks that are left to it.
  <2>2. ASSUME v = t, todo[t] # <<>>, todo'[t] = Tail(todo[t]),
               \A h, k \in SUBSET Mutexes :
                 <<h, Head(todo[t]), k>> \in LockMoves /\ Has(t, h) => Has(t, k)'
        PROVE  LockPart(v)'
    BY <2>0, <2>2, LockPartHead DEF LockPart
  <2>3. CASE enterNotification(t)
    <3>1. CASE v = t
      BY <2>0, <2>2, <2>3, <3>1, LockMoveCases
         DEF enterNotification, At, Advance, TypeOK, Has
    <3>2. CASE v # t
      BY <2>0, <2>1, <2>3, <3>2 DEF enterNotification, Advance, TypeOK
    <3> QED
      BY <3>1, <3>2
  <2>4. CASE exitPostNotification(t)
    <3>1. CASE v = t
      BY <2>0, <2>2, <2>4, <3>1, LockMoveCases
         DEF exitPostNotification, At, Advance, TypeOK, Has
    <3>2. CASE v # t
      BY <2>0, <2>1, <2>4, <3>2 DEF exitPostNotification, Advance, TypeOK
    <3> QED
      BY <3>1, <3>2
  <2>5. CASE acquireLock(t)
    <3>0. todo[t] # <<>> /\ Head(todo[t]).mutex \in Mutexes
      BY <2>0, <2>5, Todo, OperationShapes DEF acquireLock, At
    <3>1. CASE v = t
      BY <2>0, <2>2, <2>5, <3>0, <3>1, LockMoveCases DEF acquireLock, At, Advance, TypeOK, Has
    <3>2. CASE v # t
      BY <2>0, <2>1, <2>5, <3>0, <3>2 DEF acquireLock, Advance, TypeOK
    <3> QED
      BY <3>1, <3>2
  <2>6. CASE unlock(t)
    <3>0. /\ todo[t] # <<>> /\ Head(todo[t]).mutex \in Mutexes
          /\ owner[Head(todo[t]).mutex] = t
      <4>1. todo[t] # <<>> /\ Head(todo[t]).op = "unlock"
        BY <2>6 DEF unlock, At
      <4>2. Head(todo[t]).mutex \in Mutexes
        BY <2>0, <4>1, Todo, OperationShapes
      <4>3. PICK h, k \in SUBSET Mutexes : <<h, Head(todo[t]), k>> \in LockMoves /\ Has(t, h)
        BY <2>0, <4>1, LockPartHead
      <4>4. Head(todo[t]).mutex \in h
        BY <4>1, <4>3, LockMoveCases
      <4> QED
        BY <4>1, <4>2, <4>3, <4>4 DEF Has
    <3>1. CASE v = t
      BY <2>0, <2>2, <2>6, <3>0, <3>1, LockMoveCases DEF unlock, At, Advance, TypeOK, Has
    <3>2. CASE v # t
      BY <2>0, <2>1, <2>6, <3>0, <3>2 DEF unlock, Advance, TypeOK
    <3> QED
      BY <3>1, <3>2
  <2>7. CASE writeEvent(t)
    <3>1. CASE v = t
      BY <2>0, <2>2, <2>7, <3>1, LockMoveCases DEF writeEvent, At, Advance, TypeOK, Has
    <3>2. CASE v # t
      BY <2>0, <2>1, <2>7, <3>2 DEF writeEvent, Advance, TypeOK
    <3> QED
      BY <3>1, <3>2
  <2>8. CASE incrementThreadTime(t)
    <3>1. CASE v = t
      BY <2>0, <2>2, <2>8, <3>1, LockMoveCases
         DEF incrementThreadTime, At, Advance, TypeOK, Has
    <3>2. CASE v # t
      BY <2>0, <2>1, <2>8, <3>2 DEF incrementThreadTime, Advance, TypeOK
    <3> QED
      BY <3>1, <3>2
  <2>9. CASE LoadTime(t)
    BY <2>1, <2>9 DEF LoadTime
  <2>10. CASE StoreTime(t) \/ recordState(t) \/ recordNothing(t)
    <3>0. AtRecord(t) /\ owner' = owner /\ todo' = [todo EXCEPT ![t] = Tail(@)]
      BY <2>0, <2>10 DEF StoreTime, recordState, recordNothing, RecordAt, Advance, AtRecord,
                         ControlOK
    <3>1. CASE v = t
      BY <2>0, <2>2, <3>0, <3>1, LockMoveCases DEF AtRecord, At, TypeOK, Has
    <3>2. CASE v # t
      BY <2>0, <2>1, <3>0, <3>2 DEF TypeOK
    <3> QED
      BY <3>1, <3>2
  <2>11. CASE createThread(t)
    <3>1. PICK u \in Threads :
            /\ phase[u] = "none"
            /\ todo' = [todo EXCEPT ![t] = Tail(@), ![u] = notifyFunctionBegin(u)]
      BY <2>11 DEF createThread
    <3>2. todo[t] # <<>> /\ u # t
      BY <2>0, <2>11, <3>1 DEF createThread, At, ControlOK
    <3>3. CASE v = t
      <4>1. Head(todo[t]).op = "create" /\ owner' = owner
        BY <2>11 DEF createThread, At
      <4>2. todo'[t] = Tail(todo[t])
        BY <2>0, <3>1, <3>2 DEF TypeOK
      <4> QED
        BY <2>2, <3>2, <3>3, <4>1, <4>2, LockMoveCases DEF Has
    <3>4. CASE v = u
      <4>1. todo'[v] = notifyFunctionBegin(u)
        BY <2>0, <3>1, <3>4 DEF TypeOK
      <4>2. Trail(LockMoves, todo'[v], {}, {})
        BY <4>1, LockBegin
      <4> QED
        BY <4>2 DEF LockPart, Has
    <3>5. CASE v # t /\ v # u
      BY <2>0, <2>1, <2>11, <3>1, <3>5 DEF createThread, TypeOK
    <3> QED
      BY <3>3, <3>4, <3>5
  <2>12. CASE joinThread(t)
    <3>1. CASE v = t
      BY <2>0, <2>2, <2>12, <3>1, LockMoveCases DEF joinThread, At, Advance, TypeOK, Has
    <3>2. CASE v # t
      BY <2>0, <2>1, <2>12, <3>2 DEF joinThread, Advance, TypeOK
    <3> QED
      BY <3>1, <3>2
  <2>13. ASSUME NEW k \in program, BeginInstruction(t, k) PROVE LockPart(v)'
    <3>1. CASE v = t
      <4>1. k \in DOMAIN Code /\ k \notin UnlockedRecords
        BY <2>0, RecorderAssumption DEF ControlOK
      <4>2. todo'[v] = Code[k]
        BY <2>0, <2>13, <3>1 DEF BeginInstruction, TypeOK
      <4>3. Trail(LockMoves, todo'[v], {}, {})
        BY <4>1, <4>2, LocksOfCode
      <4> QED
        BY <4>3 DEF LockPart, Has
    <3>2. CASE v # t
      BY <2>0, <2>1, <2>13, <3>2 DEF BeginInstruction, TypeOK
    <3> QED
      BY <3>1, <3>2
  <2>14. CASE Return(t)
    <3>1. CASE v = t
      <4>1. todo'[v] = notifyFunctionEnd(1)
        BY <2>0, <2>14, <3>1 DEF Return, TypeOK
      <4>2. Trail(LockMoves, todo'[v], {}, {})
        BY <4>1, LockEnd
      <4> QED
        BY <4>2 DEF LockPart, Has
    <3>2. CASE v # t
      BY <2>0, <2>1, <2>14, <3>2 DEF Return, TypeOK
    <3> QED
      BY <3>1, <3>2
  <2> QED
    BY <1>1, <2>3, <2>4, <2>5, <2>6, <2>7, <2>8, <2>9, <2>10, <2>11, <2>12, <2>13, <2>14
       DEF ThreadStep, Operation
<1>2. CASE UNCHANGED vars
  BY <1>2 DEF vars, LockInv, LockPart, Has
<1> QED
  BY <1>1, <1>2 DEF Next, Ended

(***************************************************************************)
(* "Global memory is not locked", "pre: Own the StreamsLock": whatever the   *)
(* program executes, apart from the calls of UnlockedRecords, and however    *)
(* many threads there are, a change is recorded by a thread that holds the   *)
(* lock of what was changed.                                                 *)
(***************************************************************************)
THEOREM LockedRecords == Spec => []RecordsUnderLock
<1>1. LockInv => RecordsUnderLock
  <2> SUFFICES ASSUME LockInv, program \cap UnlockedRecords = {}, NEW t \in Threads,
                      todo[t] # <<>>
               PROVE  /\ AtRecord(t) => owner[Head(todo[t]).mutex] = t
                      /\ At(t, "write") /\ Head(todo[t]).type = "KnownRegion"
                           => owner["memory"] = t
    BY DEF RecordsUnderLock, AtRecord, At
  <2>1. PICK h, k \in SUBSET Mutexes : <<h, Head(todo[t]), k>> \in LockMoves /\ Has(t, h)
    BY LockPartHead DEF LockInv
  <2> QED
    BY <2>1, LockMoveCases DEF AtRecord, At, Has
<1>2. Init => Base /\ LockInv
  BY BaseInit, LockInit
<1>3. Base /\ LockInv /\ [Next]_vars => (Base /\ LockInv)'
  BY BaseNext, LockNext
<1> QED
  BY <1>1, <1>2, <1>3, PTL DEF Spec

-----------------------------------------------------------------------------
(***************************************************************************)
(* What is recorded can be replayed: the proof of RecordedInOrder, for any   *)
(* number of threads and any program without the calls that TraceRecorder    *)
(* lists as UnlockedTimes and LateTimes.                                     *)
(***************************************************************************)

(***************************************************************************)
(* What a thread knows about its last block and about the process time.     *)
(***************************************************************************)
\* A State event with the time n may follow the events of s in their last block.
InLastBlock(s, i) == i \in 1..Len(s) /\ SameBlock(s, i, Len(s))

Follows(s, n) ==
  \A i \in 1..Len(s) :
    InLastBlock(s, i) /\ hasProcessTime(s[i])
    => /\ n >= IF s[i].type = "State" THEN s[i].time ELSE s[i].time + 1
       /\ n <= s[i].time + 1 \/ \E k \in (i + 1)..Len(s) : hasProcessTime(s[k])

Untimed(s) == \A i \in 1..Len(s) : InLastBlock(s, i) => ~hasProcessTime(s[i])

\* Every State event of the time n is one of the last block of t.
TimeIsOf(t, n) ==
  \A u \in Threads : \A i \in 1..Len(rec[u]) :
    rec[u][i].type = "State" /\ rec[u][i].time = n => u = t /\ InLastBlock(rec[t], i)

\* The thread may record: with a new time, or with that of its instruction.
Ready(t) ==
  /\ Follows(rec[t], time + 1)
  /\ ci[t] # 0 => ci[t] = time /\ Follows(rec[t], time) /\ TimeIsOf(t, time)

Alone(t) == \A u \in Threads : u # t => phase[u] = "none"

Mem(t) == owner["memory"] = t

Phases == {"free", "begun", "held", "synced", "ready", "recording", "spent", "first",
           "firstHeld"}

Holds(t, p) ==
  \/ p = "spent"
  \/ p = "free" /\ ci[t] = 0
  \/ p = "begun" /\ ci[t] = 0 /\ Untimed(rec[t])
  \/ p = "held" /\ Mem(t) /\ ci[t] = 0
  \/ p = "synced" /\ Mem(t) /\ ci[t] = 0 /\ view[t] = time
  \/ p = "ready" /\ Mem(t) /\ Ready(t)
  \/ p = "recording" /\ Mem(t) /\ Ready(t) /\ view[t] = time
  \/ p = "first" /\ Alone(t) /\ Follows(rec[t], time + 1) /\ ci[t] = 0 /\ view[t] = time
  \/ p = "firstHeld" /\ Mem(t) /\ Alone(t) /\ Ready(t) /\ view[t] = time

TimeMove(p, o, q) ==
  \/ o = Enter /\ \/ p = q /\ p \in {"free", "synced", "recording", "spent", "first"}
                  \/ p = "held" /\ q = "synced"
  \/ o = ExitPost /\ (q = "free" \/ (p = "firstHeld" /\ q = "first"))
  \/ /\ o \in {Acquire("memory"), Lock("memory")}
     /\ <<p, q>> \in {<<"free", "held">>, <<"begun", "ready">>, <<"first", "firstHeld">>}
  \/ /\ o = Unlock("memory")
     /\ <<p, q>> \in {<<"held", "free">>, <<"ready", "spent">>, <<"firstHeld", "spent">>}
  \/ /\ \E m \in Mutexes \ {"memory"} : o \in {Acquire(m), Lock(m), Unlock(m)}
     /\ p = q
  \/ /\ o = Write("Instruction")
     /\ \/ p = q /\ p \in {"free", "held", "synced", "spent", "first"}
        \/ p = "free" /\ q = "begun"
        \/ p = "synced" /\ q = "recording"
  \/ o \in {Write("Alloca"), Write("KnownRegion")} /\ p = q
  \/ o = ThreadTime /\ p = "held" /\ q = "ready"
  \/ /\ o = RecordArea \/ \E m \in Mutexes : o = Record(m)
     /\ p = q /\ p \in {"ready", "recording", "firstHeld"}
  \/ o \in {Create, Join} /\ p = q /\ p \in {"free", "held"}

TimeMoves == {x \in Phases \X Operations \X Phases : TimeMove(x[1], x[2], x[3])}

End(t) == IF phase[t] = "returned" THEN "spent" ELSE "free"

-----------------------------------------------------------------------------
(***************************************************************************)
(* The operations, one by one.                                              *)
(***************************************************************************)
LEMMA TimeMoveOf ==
  ASSUME NEW p \in Phases, NEW o \in Operations, NEW q \in Phases, TimeMove(p, o, q)
  PROVE  <<p, o, q>> \in TimeMoves
BY DEF TimeMoves

LEMMA TimeOps ==
  /\ <<"held", Enter, "synced">> \in TimeMoves
  /\ \A p \in Phases : <<p, ExitPost, "free">> \in TimeMoves
  /\ <<"firstHeld", ExitPost, "first">> \in TimeMoves
  /\ \A o \in {Acquire("memory"), Lock("memory")} :
       /\ <<"free", o, "held">> \in TimeMoves /\ <<"begun", o, "ready">> \in TimeMoves
       /\ <<"first", o, "firstHeld">> \in TimeMoves
  /\ <<"held", Unlock("memory"), "free">> \in TimeMoves
  /\ <<"ready", Unlock("memory"), "spent">> \in TimeMoves
  /\ <<"firstHeld", Unlock("memory"), "spent">> \in TimeMoves
  /\ <<"free", Write("Instruction"), "begun">> \in TimeMoves
  /\ <<"synced", Write("Instruction"), "recording">> \in TimeMoves
  /\ <<"held", ThreadTime, "ready">> \in TimeMoves
<1>1. "memory" \in Mutexes /\ "Instruction" \in EventType
  BY MutexNames, WriteTypes
<1>2. /\ {"free", "begun", "held", "synced", "ready", "recording", "spent", "first",
          "firstHeld"} \subseteq Phases
  BY DEF Phases
<1>3. /\ TimeMove("held", Enter, "synced")
      /\ \A p \in Phases : TimeMove(p, ExitPost, "free")
      /\ TimeMove("firstHeld", ExitPost, "first")
  BY DEF TimeMove
<1>4. \A o \in {Acquire("memory"), Lock("memory")} :
        /\ TimeMove("free", o, "held") /\ TimeMove("begun", o, "ready")
        /\ TimeMove("first", o, "firstHeld")
  BY DEF TimeMove
<1>5. /\ TimeMove("held", Unlock("memory"), "free")
      /\ TimeMove("ready", Unlock("memory"), "spent")
      /\ TimeMove("firstHeld", Unlock("memory"), "spent")
  BY DEF TimeMove
<1>6. /\ TimeMove("free", Write("Instruction"), "begun")
      /\ TimeMove("synced", Write("Instruction"), "recording")
      /\ TimeMove("held", ThreadTime, "ready")
  BY DEF TimeMove
<1>7. /\ {Enter, ExitPost, ThreadTime, Acquire("memory"), Lock("memory"), Unlock("memory"),
          Write("Instruction")} \subseteq Operations
  BY <1>1, OperationTypes
<1> QED
  BY <1>2, <1>3, <1>4, <1>5, <1>6, <1>7, TimeMoveOf

LEMMA TimeSteady ==
  /\ \A p \in {"free", "synced", "recording", "spent", "first"} :
       Enter \in Steady(TimeMoves, p)
  /\ ExitPost \in Steady(TimeMoves, "free")
  /\ \A p \in {"free", "held", "synced", "spent", "first"} :
       Write("Instruction") \in Steady(TimeMoves, p)
  /\ \A p \in {"free", "held"} : {Create, Join} \subseteq Steady(TimeMoves, p)
  /\ \A p \in Phases :
       /\ {Write("Alloca"), Write("KnownRegion")} \subseteq Steady(TimeMoves, p)
       /\ \A m \in Mutexes \ {"memory"} :
            {Acquire(m), Lock(m), Unlock(m)} \subseteq Steady(TimeMoves, p)
  /\ \A p \in {"ready", "recording", "firstHeld"} :
       RecordArea \in Steady(TimeMoves, p) /\ \A m \in Mutexes : Record(m) \in Steady(TimeMoves, p)
<1>1. \A p \in Phases : \A o \in Operations : TimeMove(p, o, p) => o \in Steady(TimeMoves, p)
  BY TimeMoveOf DEF Steady
<1>2. /\ {"free", "begun", "held", "synced", "ready", "recording", "spent", "first",
          "firstHeld"} \subseteq Phases
  BY DEF Phases
<1>3. /\ {Write("Instruction"), Write("Alloca"), Write("KnownRegion")} \subseteq Operations
      /\ {Enter, ExitPost, RecordArea, Create, Join} \subseteq Operations
      /\ \A m \in Mutexes : {Acquire(m), Lock(m), Unlock(m), Record(m)} \subseteq Operations
  BY OperationTypes, WriteTypes
<1>4. /\ \A p \in {"free", "synced", "recording", "spent", "first"} : TimeMove(p, Enter, p)
      /\ TimeMove("free", ExitPost, "free")
      /\ \A p \in {"free", "held", "synced", "spent", "first"} :
           TimeMove(p, Write("Instruction"), p)
      /\ \A p \in {"free", "held"} : TimeMove(p, Create, p) /\ TimeMove(p, Join, p)
  BY DEF TimeMove
<1>5. \A p \in Phases :
        /\ TimeMove(p, Write("Alloca"), p) /\ TimeMove(p, Write("KnownRegion"), p)
        /\ \A m \in Mutexes \ {"memory"} :
             /\ TimeMove(p, Acquire(m), p) /\ TimeMove(p, Lock(m), p)
             /\ TimeMove(p, Unlock(m), p)
  BY DEF TimeMove
<1>6. \A p \in {"ready", "recording", "firstHeld"} :
        TimeMove(p, RecordArea, p) /\ \A m \in Mutexes : TimeMove(p, Record(m), p)
  BY DEF TimeMove
<1>7. \A p \in {"free", "synced", "recording", "spent", "first"} :
        Enter \in Steady(TimeMoves, p)
  BY <1>1, <1>2, <1>3, <1>4
<1>8. /\ ExitPost \in Steady(TimeMoves, "free")
      /\ \A p \in {"free", "held", "synced", "spent", "first"} :
           Write("Instruction") \in Steady(TimeMoves, p)
  BY <1>1, <1>2, <1>3, <1>4
<1>9. \A p \in {"free", "held"} : {Create, Join} \subseteq Steady(TimeMoves, p)
  BY <1>1, <1>2, <1>3, <1>4
<1>10. \A p \in Phases :
        /\ {Write("Alloca"), Write("KnownRegion")} \subseteq Steady(TimeMoves, p)
        /\ \A m \in Mutexes \ {"memory"} :
             {Acquire(m), Lock(m), Unlock(m)} \subseteq Steady(TimeMoves, p)
  BY <1>1, <1>3, <1>5
<1>11. \A p \in {"ready", "recording", "firstHeld"} :
        RecordArea \in Steady(TimeMoves, p) /\ \A m \in Mutexes : Record(m) \in Steady(TimeMoves, p)
  BY <1>1, <1>2, <1>3, <1>6
<1> QED
  BY <1>7, <1>8, <1>9, <1>10, <1>11

-----------------------------------------------------------------------------
(***************************************************************************)
(* The times of every instruction.                                          *)
(***************************************************************************)
LEMMA TimeDetected ==
  ASSUME NEW pre, NEW post, Trail(TimeMoves, pre, "free", "held"),
         NEW s \in {"synced", "recording"}, Trail(TimeMoves, post, s, "recording")
  PROVE  Trail(TimeMoves, Detected(pre, post), "free", "free")
<1> USE OperationTypes, WriteTypes
<1>1. /\ <<"free", Enter, "free">> \in TimeMoves /\ <<s, Enter, s>> \in TimeMoves
      /\ <<"held", Write("Instruction"), "held">> \in TimeMoves
      /\ <<"recording", ExitPost, "free">> \in TimeMoves
      /\ <<"synced", Write("Instruction"), "synced">> \in TimeMoves
  BY TimeSteady, TimeOps DEF Steady, Phases
<1>2. Trail(TimeMoves, notifyValue, "held", s)
  BY <1>1, TimeOps, TrailTwo DEF notifyValue
<1> QED
  BY <1>1, <1>2, TrailDetected

LEMMA TimeWrapped ==
  ASSUME NEW locks, NEW function, NEW changes, Trail(TimeMoves, locks, "free", "held"),
         Trail(TimeMoves, function, "held", "held"),
         Trail(TimeMoves, changes, "recording", "recording")
  PROVE  Trail(TimeMoves, Wrapped(locks, function, changes), "free", "free")
<1> USE OperationTypes, WriteTypes
<1>1. /\ <<"free", Enter, "free">> \in TimeMoves /\ <<"recording", ExitPost, "free">> \in TimeMoves
  BY TimeSteady, TimeOps DEF Steady, Phases
<1>2. Trail(TimeMoves, notifyValue, "held", "recording")
  BY TimeOps, TrailTwo DEF notifyValue
<1> QED
  BY <1>1, <1>2, TrailWrapped

LEMMA TimesOfDetected ==
  \A s \in {fopen, freopen, fgetc, fgets, fputs, puts, atof, strtol, calloc, free, realloc,
            getenv, memcpy} : Trail(TimeMoves, s, "free", "free")
<1> USE OperationTypes, WriteTypes, MutexNames
<1>0. /\ <<"free", Acquire("memory"), "held">> \in TimeMoves
      /\ <<"held", Acquire("streams"), "held">> \in TimeMoves
      /\ <<"held", Acquire("dynamic"), "held">> \in TimeMoves
  <2>1. {"streams", "dynamic"} \subseteq Mutexes \ {"memory"} /\ "held" \in Phases
    BY DEF Phases
  <2> QED
    BY <2>1, TimeOps, TimeSteady DEF Steady
<1>1. /\ Trail(TimeMoves, <<Acquire("memory")>>, "free", "held")
      /\ Trail(TimeMoves, <<Acquire("memory"), Acquire("streams")>>, "free", "held")
      /\ Trail(TimeMoves, <<Acquire("memory"), Acquire("dynamic")>>, "free", "held")
  BY <1>0, TrailOne, TrailTwo
<1> DEFINE S == Steady(TimeMoves, "recording")
<1>2. /\ Acquire("streams") \in S /\ Record("streams") \in S /\ Record("memory") \in S
      /\ Record("dynamic") \in S /\ RecordArea \in S /\ Write("KnownRegion") \in S
  <2>1. "streams" \in Mutexes \ {"memory"} /\ "recording" \in Phases
    BY DEF Phases
  <2> QED
    BY <2>1, TimeSteady
<1>3. \A post \in Seq(S) : Trail(TimeMoves, post, "recording", "recording")
  BY TrailSteady
<1> HIDE DEF S
<1>4. ASSUME NEW pre \in {<<Acquire("memory")>>, <<Acquire("memory"), Acquire("streams")>>,
                          <<Acquire("memory"), Acquire("dynamic")>>},
             NEW post \in Seq(S)
      PROVE  Trail(TimeMoves, Detected(pre, post), "free", "free")
  BY <1>1, <1>3, TimeDetected
<1>5. Trail(TimeMoves, fopen, "free", "free")
  <2>1. <<Acquire("streams"), Record("streams")>> \in Seq(S)
    BY <1>2
  <2> QED
    BY <1>4, <2>1 DEF fopen
<1>6. Trail(TimeMoves, freopen, "free", "free")
  <2>1. <<Acquire("streams"), Record("streams"), Acquire("streams"), Record("streams")>>
          \in Seq(S)
    BY <1>2
  <2> QED
    BY <1>4, <2>1 DEF freopen
<1>7. Trail(TimeMoves, fgetc, "free", "free")
  <2>1. /\ <<"free", Acquire("streams"), "free">> \in TimeMoves
        /\ <<"free", Enter, "free">> \in TimeMoves /\ <<"free", ExitPost, "free">> \in TimeMoves
        /\ <<"free", Write("Instruction"), "free">> \in TimeMoves
    <3>1. "streams" \in Mutexes \ {"memory"} /\ "free" \in Phases
      BY DEF Phases
    <3> QED
      BY <3>1, TimeSteady DEF Steady
  <2>2. /\ Trail(TimeMoves, <<Acquire("streams")>>, "free", "free")
        /\ Trail(TimeMoves, notifyValue, "free", "free")
        /\ Trail(TimeMoves, <<>>, "free", "free")
    BY <2>1, TrailOne, TrailTwo, TrailNone DEF notifyValue
  <2> QED
    BY <2>1, <2>2, TrailDetected DEF fgetc
<1>8. Trail(TimeMoves, fgets, "free", "free") /\ Trail(TimeMoves, strtol, "free", "free")
  <2>1. <<Record("memory")>> \in Seq(S)
    BY <1>2
  <2> QED
    BY <1>4, <2>1 DEF fgets, strtol
<1>9. Trail(TimeMoves, fputs, "free", "free")
  <2>1. <<Record("streams")>> \in Seq(S)
    BY <1>2
  <2> QED
    BY <1>4, <2>1 DEF fputs
<1>10. Trail(TimeMoves, puts, "free", "free")
  <2>1. <<Record("streams"), Record("streams")>> \in Seq(S)
    BY <1>2
  <2> QED
    BY <1>4, <2>1 DEF puts
<1>11. Trail(TimeMoves, atof, "free", "free")
  BY <1>1, TrailNone, TimeDetected DEF atof
<1>12. Trail(TimeMoves, calloc, "free", "free")
  <2>1. <<Record("dynamic"), RecordArea>> \in Seq(S)
    BY <1>2
  <2> QED
    BY <1>4, <2>1 DEF calloc
<1>13. Trail(TimeMoves, free, "free", "free")
  <2>1. /\ <<"synced", Write("Instruction"), "recording">> \in TimeMoves
        /\ <<"recording", Record("dynamic"), "recording">> \in TimeMoves
        /\ <<"recording", RecordArea, "recording">> \in TimeMoves
    BY <1>2, TimeOps DEF S, Steady
  <2>2. Trail(TimeMoves, <<Write("Instruction"), Record("dynamic"), RecordArea>>,
              "synced", "recording")
    BY <2>1, TrailThree
  <2> QED
    BY <1>1, <2>2, TimeDetected DEF free
<1>14. Trail(TimeMoves, realloc, "free", "free")
  <2>1. <<Record("dynamic"), RecordArea, Record("dynamic"), RecordArea>> \in Seq(S)
    BY <1>2
  <2> QED
    BY <1>4, <2>1 DEF realloc
<1>15. Trail(TimeMoves, getenv, "free", "free")
  <2>1. <<Write("KnownRegion"), Write("KnownRegion"), Record("memory")>> \in Seq(S)
    BY <1>2
  <2> QED
    BY <1>4, <2>1 DEF getenv
<1>16. Trail(TimeMoves, memcpy, "free", "free")
  <2>1. <<RecordArea>> \in Seq(S)
    BY <1>2
  <2> QED
    BY <1>4, <2>1 DEF memcpy
<1> QED
  BY <1>5, <1>6, <1>7, <1>8, <1>9, <1>10, <1>11, <1>12, <1>13, <1>14, <1>15, <1>16

LEMMA TimesOfWrapped ==
  \A s \in {fread, fwrite, printf, tmpfile, opendir, readdir, strdup, pthread_create,
            pthread_join} : Trail(TimeMoves, s, "free", "free")
<1> USE OperationTypes, WriteTypes, MutexNames
<1> DEFINE H == Steady(TimeMoves, "held")
           S == Steady(TimeMoves, "recording")
<1>0. /\ {"streams", "dynamic", "dirs"} \subseteq Mutexes \ {"memory"}
      /\ "held" \in Phases /\ "recording" \in Phases
  BY DEF Phases
<1>1. /\ {Acquire("streams"), Lock("streams"), Unlock("streams"), Acquire("dynamic"),
          Acquire("dirs"), Create, Join} \subseteq H
      /\ {Acquire("streams"), Unlock("streams"), Acquire("dirs"), Record("streams"),
          Record("memory"), Record("dirs"), Record("dynamic"), RecordArea,
          Write("KnownRegion")} \subseteq S
  BY <1>0, TimeSteady
<1>2. /\ Trail(TimeMoves, <<Acquire("memory")>>, "free", "held")
      /\ Trail(TimeMoves, <<Acquire("memory"), Acquire("streams")>>, "free", "held")
      /\ Trail(TimeMoves, <<Acquire("memory"), Lock("streams")>>, "free", "held")
      /\ Trail(TimeMoves, <<Acquire("memory"), Acquire("dynamic")>>, "free", "held")
  BY <1>1, TimeOps, TrailOne, TrailTwo DEF Steady
<1>3. \A s \in Seq(H) : Trail(TimeMoves, s, "held", "held")
  BY TrailSteady
<1>4. \A s \in Seq(S) : Trail(TimeMoves, s, "recording", "recording")
  BY TrailSteady
<1> HIDE DEF H, S
<1>5. ASSUME NEW locks \in {<<Acquire("memory")>>, <<Acquire("memory"), Acquire("streams")>>,
                            <<Acquire("memory"), Lock("streams")>>,
                            <<Acquire("memory"), Acquire("dynamic")>>},
             NEW function \in Seq(H), NEW changes \in Seq(S)
      PROVE  Trail(TimeMoves, Wrapped(locks, function, changes), "free", "free")
  BY <1>2, <1>3, <1>4, TimeWrapped
<1>6. <<>> \in Seq(H) /\ CheckStream \in Seq(H)
  BY <1>1 DEF CheckStream
<1>7. Trail(TimeMoves, fread, "free", "free")
  <2>1. <<RecordArea>> \in Seq(S)
    BY <1>1
  <2> QED
    BY <1>5, <1>6, <2>1 DEF fread
<1>8. Trail(TimeMoves, fwrite, "free", "free")
  <2>1. <<Record("streams")>> \in Seq(S)
    BY <1>1
  <2> QED
    BY <1>5, <1>6, <2>1 DEF fwrite
<1>9. Trail(TimeMoves, printf, "free", "free")
  <2>1. <<Record("streams"), Unlock("streams")>> \in Seq(S)
    BY <1>1
  <2> QED
    BY <1>5, <1>6, <2>1 DEF printf
<1>10. Trail(TimeMoves, tmpfile, "free", "free")
  <2>1. <<Acquire("streams"), Record("streams")>> \in Seq(S)
    BY <1>1
  <2> QED
    BY <1>5, <1>6, <2>1 DEF tmpfile
<1>11. Trail(TimeMoves, opendir, "free", "free")
  <2>1. <<Acquire("dirs"), Record("dirs")>> \in Seq(S)
    BY <1>1
  <2> QED
    BY <1>5, <1>6, <2>1 DEF opendir
<1>12. Trail(TimeMoves, readdir, "free", "free")
  <2>1. <<Write("KnownRegion"), Record("memory")>> \in Seq(S) /\ <<Acquire("dirs")>> \in Seq(H)
    BY <1>1
  <2> QED
    BY <1>5, <2>1 DEF readdir
<1>13. Trail(TimeMoves, strdup, "free", "free")
  <2>1. <<Record("dynamic"), RecordArea>> \in Seq(S)
    BY <1>1
  <2> QED
    BY <1>5, <1>6, <2>1 DEF strdup
<1>14. /\ Trail(TimeMoves, pthread_create, "free", "free")
       /\ Trail(TimeMoves, pthread_join, "free", "free")
  <2>1. <<Create>> \in Seq(H) /\ <<Join>> \in Seq(H) /\ <<Record("memory")>> \in Seq(S)
    BY <1>1
  <2> QED
    BY <1>5, <2>1 DEF pthread_create, pthread_join
<1> QED
  BY <1>7, <1>8, <1>9, <1>10, <1>11, <1>12, <1>13, <1>14

LEMMA TimeBegin ==
  /\ \A t : t # Main => Trail(TimeMoves, notifyFunctionBegin(t), "free", "free")
  /\ Trail(TimeMoves, notifyFunctionBegin(Main) \o notifyArgs, "first", "free")
<1> USE OperationTypes, WriteTypes, MutexNames
<1>1. /\ <<"free", Enter, "free">> \in TimeMoves /\ <<"free", ExitPost, "free">> \in TimeMoves
      /\ <<"free", Write("Instruction"), "free">> \in TimeMoves
      /\ <<"first", Enter, "first">> \in TimeMoves
      /\ <<"first", Write("Instruction"), "first">> \in TimeMoves
  BY TimeSteady DEF Steady
<1>2. /\ <<"first", Acquire("memory"), "firstHeld">> \in TimeMoves
      /\ <<"first", Lock("memory"), "firstHeld">> \in TimeMoves
      /\ <<"firstHeld", Unlock("memory"), "spent">> \in TimeMoves
      /\ <<"firstHeld", ExitPost, "first">> \in TimeMoves
      /\ <<"spent", ExitPost, "free">> \in TimeMoves
  BY TimeOps DEF Phases
<1>3. /\ <<"firstHeld", Write("KnownRegion"), "firstHeld">> \in TimeMoves
      /\ <<"firstHeld", Record("memory"), "firstHeld">> \in TimeMoves
  BY TimeSteady DEF Steady, Phases
<1>4. ASSUME NEW t, t # Main PROVE Trail(TimeMoves, notifyFunctionBegin(t), "free", "free")
  <2>1. /\ Trail(TimeMoves, <<Enter, Write("Instruction")>>, "free", "free")
        /\ Trail(TimeMoves, <<ExitPost>>, "free", "free")
        /\ Trail(TimeMoves, <<>>, "free", "free")
    BY <1>1, TrailOne, TrailTwo, TrailNone
  <2>2. Trail(TimeMoves, <<Enter, Write("Instruction")>> \o <<>>, "free", "free")
    BY <2>1, TrailConcat
  <2>3. Trail(TimeMoves, <<Enter, Write("Instruction")>> \o <<>> \o <<ExitPost>>,
              "free", "free")
    BY <2>1, <2>2, TrailConcat
  <2> QED
    BY <1>4, <2>3 DEF notifyFunctionBegin
<1>5. Trail(TimeMoves, notifyFunctionBegin(Main), "first", "first")
  <2>1. /\ Trail(TimeMoves, <<Enter, Write("Instruction")>>, "first", "first")
        /\ Trail(TimeMoves, <<Acquire("memory")>>, "first", "firstHeld")
        /\ Trail(TimeMoves, setupEnvironTable, "firstHeld", "firstHeld")
        /\ Trail(TimeMoves, <<ExitPost>>, "firstHeld", "first")
    BY <1>1, <1>2, <1>3, TrailOne, TrailTwo, TrailFour DEF setupEnvironTable
  <2>2. Trail(TimeMoves, <<Acquire("memory")>> \o setupEnvironTable, "first", "firstHeld")
    BY <2>1, TrailConcat
  <2>3. Trail(TimeMoves, <<Enter, Write("Instruction")>>
                           \o (<<Acquire("memory")>> \o setupEnvironTable),
              "first", "firstHeld")
    BY <2>1, <2>2, TrailConcat
  <2>4. Trail(TimeMoves, <<Enter, Write("Instruction")>>
                           \o (<<Acquire("memory")>> \o setupEnvironTable) \o <<ExitPost>>,
              "first", "first")
    BY <2>1, <2>3, TrailConcat
  <2> QED
    BY <2>4 DEF notifyFunctionBegin
<1>6. Trail(TimeMoves, notifyArgs, "first", "free")
  <2>1. Trail(TimeMoves, <<Unlock("memory"), ExitPost>>, "firstHeld", "free")
    BY <1>2, TrailTwo
  <2>2. Trail(TimeMoves, <<Enter, Lock("memory"), Write("KnownRegion"), Record("memory"),
                           Write("KnownRegion"), Record("memory")>>, "first", "firstHeld")
    BY <1>1, <1>2, <1>3, TrailSix
  <2>3. Trail(TimeMoves, <<Enter, Lock("memory"), Write("KnownRegion"), Record("memory"),
                           Write("KnownRegion"), Record("memory")>>
                         \o <<Unlock("memory"), ExitPost>>, "first", "free")
    BY <2>1, <2>2, TrailConcat
  <2>4. notifyArgs = <<Enter, Lock("memory"), Write("KnownRegion"), Record("memory"),
                       Write("KnownRegion"), Record("memory")>>
                     \o <<Unlock("memory"), ExitPost>>
    BY DEF notifyArgs
  <2> QED
    BY <2>3, <2>4
<1> QED
  BY <1>4, <1>5, <1>6, TrailConcat

LEMMA TimeEnd ==
  /\ Trail(TimeMoves, notifyFunctionEnd(1), "free", "spent")
  /\ Trail(TimeMoves, notifyFunctionEnd(0), "free", "free")
<1> USE OperationTypes, WriteTypes, MutexNames
<1>1. /\ <<"free", Enter, "free">> \in TimeMoves
      /\ <<"free", Write("Instruction"), "free">> \in TimeMoves
      /\ <<"free", Write("Instruction"), "begun">> \in TimeMoves
      /\ <<"free", Acquire("memory"), "held">> \in TimeMoves
      /\ <<"begun", Acquire("memory"), "ready">> \in TimeMoves
      /\ <<"held", Unlock("memory"), "free">> \in TimeMoves
      /\ <<"ready", Unlock("memory"), "spent">> \in TimeMoves
      /\ RecordArea \in Steady(TimeMoves, "ready")
  BY TimeSteady, TimeOps DEF Steady
<1>2. /\ Trail(TimeMoves, <<Enter, Write("Instruction"), Acquire("memory")>>, "free", "ready")
      /\ Trail(TimeMoves, <<Enter, Write("Instruction"), Acquire("memory")>>, "free", "held")
      /\ Trail(TimeMoves, <<Unlock("memory")>>, "ready", "spent")
      /\ Trail(TimeMoves, <<Unlock("memory")>>, "held", "free")
  BY <1>1, TrailOne, TrailThree
<1> DEFINE one == [a \in 1..1 |-> RecordArea]
           none == [a \in 1..0 |-> RecordArea]
<1>3. one \in Seq(Steady(TimeMoves, "ready")) /\ none \in Seq(Steady(TimeMoves, "held"))
  <2>1. one \in Seq(Steady(TimeMoves, "ready"))
    BY <1>1
  <2>2. none = <<>>
    OBVIOUS
  <2> QED
    BY <2>1, <2>2
<1> HIDE DEF one, none
<1>4. /\ Trail(TimeMoves, <<Enter, Write("Instruction"), Acquire("memory")>> \o one,
               "free", "ready")
      /\ Trail(TimeMoves, <<Enter, Write("Instruction"), Acquire("memory")>> \o none,
               "free", "held")
  BY <1>2, <1>3, TrailSteady, TrailConcat
<1> QED
  BY <1>2, <1>4, TrailConcat DEF notifyFunctionEnd, one, none

LEMMA TimesOfThreads ==
  \A s \in {load, store, call, bsearch, qsort} : Trail(TimeMoves, s, "free", "free")
<1> USE OperationTypes, WriteTypes, MutexNames
<1>1. /\ <<"free", Enter, "free">> \in TimeMoves /\ <<"free", ExitPost, "free">> \in TimeMoves
      /\ <<"free", Write("Instruction"), "free">> \in TimeMoves
      /\ <<"free", Write("Alloca"), "free">> \in TimeMoves
      /\ <<"spent", Enter, "spent">> \in TimeMoves
      /\ <<"spent", Write("Instruction"), "spent">> \in TimeMoves
      /\ <<"recording", Record("memory"), "recording">> \in TimeMoves
      /\ <<"ready", Record("memory"), "ready">> \in TimeMoves
      /\ <<"held", Acquire("dynamic"), "held">> \in TimeMoves
  <2>1. "dynamic" \in Mutexes \ {"memory"} /\ "held" \in Phases /\ "free" \in Phases
    BY DEF Phases
  <2> QED
    BY <2>1, TimeSteady DEF Steady
<1>2. /\ <<"free", Lock("memory"), "held">> \in TimeMoves
      /\ <<"free", Acquire("memory"), "held">> \in TimeMoves
      /\ <<"held", Unlock("memory"), "free">> \in TimeMoves
      /\ <<"held", Enter, "synced">> \in TimeMoves
      /\ <<"synced", Write("Instruction"), "recording">> \in TimeMoves
      /\ <<"held", ThreadTime, "ready">> \in TimeMoves
      /\ \A p \in {"synced", "recording", "held", "ready", "spent"} :
           <<p, ExitPost, "free">> \in TimeMoves
  BY TimeOps DEF Phases
<1>3. /\ Trail(TimeMoves, notifyValue, "free", "free")
      /\ Trail(TimeMoves, notifyValue, "spent", "spent")
  BY <1>1, TrailTwo DEF notifyValue
<1>4. Trail(TimeMoves, load, "free", "free")
  <2>1. Trail(TimeMoves, notifyPreLoad, "free", "held")
    BY <1>1, <1>2, TrailTwo DEF notifyPreLoad
  <2>2. Trail(TimeMoves, notifyPostLoad, "held", "free")
    BY <1>2, TrailTwo DEF notifyPostLoad
  <2>3. Trail(TimeMoves, notifyPreLoad \o notifyPostLoad, "free", "free")
    BY <2>1, <2>2, TrailConcat
  <2> QED
    BY <1>3, <2>3, TrailConcat DEF load
<1>5. Trail(TimeMoves, store, "free", "free")
  <2>1. Trail(TimeMoves, notifyPreStore, "free", "held")
    BY <1>1, <1>2, TrailTwo DEF notifyPreStore
  <2>2. Trail(TimeMoves, notifyPostStore, "held", "free")
    BY <1>1, <1>2, TrailFour DEF notifyPostStore
  <2> QED
    BY <2>1, <2>2, TrailConcat DEF store
<1>6. /\ Trail(TimeMoves, notifyFunctionBegin(NoThread), "free", "free")
      /\ Trail(TimeMoves, notifyFunctionEnd(1), "free", "spent")
      /\ Trail(TimeMoves, notifyFunctionEnd(0), "free", "free")
  BY TimeBegin, TimeEnd, RecorderAssumption
<1>7. Trail(TimeMoves, call, "free", "free")
  <2>1. /\ Trail(TimeMoves, <<Enter>>, "free", "free") /\ Trail(TimeMoves, <<>>, "free", "free")
        /\ Trail(TimeMoves, <<Write("Instruction")>>, "free", "free")
        /\ Trail(TimeMoves, <<Enter>>, "spent", "spent") /\ Trail(TimeMoves, <<>>, "spent", "spent")
        /\ Trail(TimeMoves, <<ExitPost>>, "spent", "free")
    BY <1>1, <1>2, TrailOne, TrailNone
  <2>2. /\ Trail(TimeMoves, <<Enter>> \o <<>>, "free", "free")
        /\ Trail(TimeMoves, <<Enter>> \o <<>>, "spent", "spent")
    BY <2>1, TrailConcat
  <2>3. /\ Trail(TimeMoves, notifyPreCall(<<>>), "free", "free")
        /\ Trail(TimeMoves, notifyPostCall(<<>>), "spent", "free")
    BY <2>1, <2>2, TrailConcat DEF notifyPreCall, notifyPostCall
  <2>4. Trail(TimeMoves, notifyAlloca, "free", "free")
    BY <1>1, <1>2, TrailFive DEF notifyAlloca
  <2>5. Trail(TimeMoves, notifyPreCall(<<>>) \o notifyFunctionBegin(NoThread), "free", "free")
    BY <1>6, <2>3, TrailConcat
  <2>6. Trail(TimeMoves, notifyPreCall(<<>>) \o notifyFunctionBegin(NoThread)
                           \o notifyAlloca, "free", "free")
    BY <2>4, <2>5, TrailConcat
  <2>7. Trail(TimeMoves, notifyPreCall(<<>>) \o notifyFunctionBegin(NoThread)
                           \o notifyAlloca \o notifyFunctionEnd(1), "free", "spent")
    BY <1>6, <2>6, TrailConcat
  <2>8. Trail(TimeMoves, notifyPreCall(<<>>) \o notifyFunctionBegin(NoThread)
                           \o notifyAlloca \o notifyFunctionEnd(1) \o notifyValue,
              "free", "spent")
    BY <1>3, <2>7, TrailConcat
  <2> QED
    BY <2>3, <2>8, TrailConcat DEF call
<1>8. /\ Trail(TimeMoves, acquireMemory, "free", "held")
      /\ Trail(TimeMoves, swap, "held", "ready")
      /\ Trail(TimeMoves, <<ExitPost>>, "held", "free")
      /\ Trail(TimeMoves, <<ExitPost>>, "ready", "free")
  BY <1>1, <1>2, TrailOne, TrailThree DEF acquireMemory, swap
<1>9. Trail(TimeMoves, Compare, "free", "free")
  BY <1>6, TrailConcat DEF Compare
<1>10. Trail(TimeMoves, bsearch, "free", "free")
  <2>1. Trail(TimeMoves, acquireMemory \o <<ExitPost>>, "free", "free")
    BY <1>8, TrailConcat
  <2>2. Trail(TimeMoves, acquireMemory \o <<ExitPost>> \o Compare, "free", "free")
    BY <1>9, <2>1, TrailConcat
  <2>3. Trail(TimeMoves, acquireMemory \o <<ExitPost>> \o Compare \o acquireMemory,
              "free", "held")
    BY <1>8, <2>2, TrailConcat
  <2>4. Trail(TimeMoves, acquireMemory \o <<ExitPost>> \o Compare \o acquireMemory
                           \o <<ExitPost>>, "free", "free")
    BY <1>8, <2>3, TrailConcat
  <2> QED
    BY <1>3, <2>4, TrailConcat DEF bsearch
<1>11. Trail(TimeMoves, qsort, "free", "free")
  <2>1. Trail(TimeMoves, acquireMemory \o swap, "free", "ready")
    BY <1>8, TrailConcat
  <2>2. Trail(TimeMoves, acquireMemory \o swap \o <<ExitPost>>, "free", "free")
    BY <1>8, <2>1, TrailConcat
  <2>3. Trail(TimeMoves, acquireMemory \o swap \o <<ExitPost>> \o Compare, "free", "free")
    BY <1>9, <2>2, TrailConcat
  <2>4. Trail(TimeMoves, acquireMemory \o swap \o <<ExitPost>> \o Compare
                           \o acquireMemory, "free", "held")
    BY <1>8, <2>3, TrailConcat
  <2> QED
    BY <1>8, <2>4, TrailConcat DEF qsort
<1> QED
  BY <1>4, <1>5, <1>7, <1>10, <1>11

(***************************************************************************)
(* Every instruction that a program with locked times executes.             *)
(***************************************************************************)
LEMMA TimesOfCode ==
  ASSUME NEW k \in DOMAIN Code, k \notin UnlockedTimes \cup LateTimes
  PROVE  Trail(TimeMoves, Code[k], "free", "free")
BY TimesOfDetected, TimesOfWrapped, TimesOfThreads DEF Code, UnlockedTimes, LateTimes

-----------------------------------------------------------------------------
(***************************************************************************)
(* One more event in a recording.                                           *)
(***************************************************************************)
LEMMA Appended ==
  ASSUME NEW s \in Seq(Event), NEW e \in Event
  PROVE  /\ Append(s, e) \in Seq(Event) /\ Len(s) \in Nat
         /\ Len(Append(s, e)) = Len(s) + 1 /\ Append(s, e)[Len(s) + 1] = e
         /\ \A i \in 1..Len(s) : Append(s, e)[i] = s[i]
OBVIOUS

LEMMA EventParts ==
  ASSUME NEW e \in Event PROVE e.type \in EventType /\ e.time \in Nat
BY DEF Event

LEMMA EventsOf ==
  ASSUME NEW s \in Seq(Event), NEW i \in 1..Len(s)
  PROVE  s[i] \in Event /\ s[i].time \in Nat /\ s[i].type \in EventType
<1>1. s[i] \in Event
  OBVIOUS
<1> QED
  BY <1>1, EventParts

LEMMA LastBlock ==
  ASSUME NEW s \in Seq(Event), NEW e \in Event, NEW i \in 1..(Len(s) + 1)
  PROVE  InLastBlock(Append(s, e), i)
           <=> i = Len(s) + 1 \/ (InLastBlock(s, i) /\ ~isBlockStart(e))
<1> DEFINE u == Append(s, e)
           n == Len(s)
<1>1. /\ n \in Nat /\ Len(u) = n + 1 /\ u[n + 1] = e
      /\ \A j \in 1..n : u[j] = s[j]
  BY Appended
<1> HIDE DEF u, n
<1>2. CASE i = n + 1
  BY <1>1, <1>2 DEF InLastBlock, SameBlock, n, u
<1>3. CASE i # n + 1
  <2>1. i \in 1..n /\ i \in 1..Len(u)
    BY <1>1, <1>3 DEF n
  <2>2. SameBlock(u, i, n + 1) <=> SameBlock(s, i, n) /\ ~isBlockStart(e)
    <3>1. \A k \in (i + 1)..n : u[k] = s[k]
      BY <1>1, <2>1
    <3>2. \A k \in (i + 1)..(n + 1) : k \in (i + 1)..n \/ k = n + 1
      BY <1>1, <2>1
    <3>3. (i + 1)..n \subseteq (i + 1)..(n + 1) /\ n + 1 \in (i + 1)..(n + 1)
      BY <1>1, <2>1
    <3> QED
      BY <1>1, <3>1, <3>2, <3>3 DEF SameBlock
  <2> QED
    BY <1>1, <1>3, <2>1, <2>2 DEF InLastBlock, n, u
<1> QED
  BY <1>2, <1>3

LEMMA UntimedFollows ==
  ASSUME NEW s \in Seq(Event), Untimed(s), NEW n PROVE Follows(s, n)
BY DEF Untimed, Follows

\* A new block begins without a time, and events without one keep it so.
LEMMA UntimedAppend ==
  ASSUME NEW s \in Seq(Event), NEW e \in Event, ~hasProcessTime(e),
         isBlockStart(e) \/ Untimed(s)
  PROVE  Untimed(Append(s, e))
<1> SUFFICES ASSUME NEW i \in 1..(Len(s) + 1), InLastBlock(Append(s, e), i)
             PROVE  ~hasProcessTime(Append(s, e)[i])
  BY Appended DEF Untimed
<1>1. CASE i = Len(s) + 1
  BY <1>1, Appended
<1>2. CASE i # Len(s) + 1
  <2>1. i \in 1..Len(s) /\ InLastBlock(s, i) /\ ~isBlockStart(e)
    BY <1>2, LastBlock, Appended
  <2> QED
    BY <2>1, Appended DEF Untimed
<1> QED
  BY <1>1, <1>2

\* What may follow is the same after an event without a time.
LEMMA FollowsKept ==
  ASSUME NEW s \in Seq(Event), NEW e \in Event, ~hasProcessTime(e), NEW n \in Nat,
         Follows(s, n)
  PROVE  Follows(Append(s, e), n)
<1> DEFINE u == Append(s, e)
<1>0. /\ Len(s) \in Nat /\ Len(u) = Len(s) + 1 /\ u[Len(s) + 1] = e
      /\ \A j \in 1..Len(s) : u[j] = s[j]
  BY Appended
<1> SUFFICES ASSUME NEW i \in 1..Len(u), InLastBlock(u, i), hasProcessTime(u[i])
             PROVE  /\ n >= IF u[i].type = "State" THEN u[i].time ELSE u[i].time + 1
                    /\ n <= u[i].time + 1 \/ \E k \in (i + 1)..Len(u) : hasProcessTime(u[k])
  BY DEF Follows
<1>1. i # Len(s) + 1
  BY <1>0
<1>2. i \in 1..Len(s) /\ InLastBlock(s, i) /\ u[i] = s[i]
  BY <1>0, <1>1, LastBlock
<1>3. /\ n >= IF s[i].type = "State" THEN s[i].time ELSE s[i].time + 1
      /\ n <= s[i].time + 1 \/ \E k \in (i + 1)..Len(s) : hasProcessTime(s[k])
  BY <1>2 DEF Follows
<1>4. \A k \in (i + 1)..Len(s) : k \in (i + 1)..Len(u) /\ u[k] = s[k]
  BY <1>0, <1>2
<1> HIDE DEF u
<1> QED
  BY <1>2, <1>3, <1>4

\* An event of the time n may be followed by one of the same time or the next.
LEMMA FollowsState ==
  ASSUME NEW s \in Seq(Event), NEW n \in Nat, Follows(s, n), NEW m \in {n, n + 1}
  PROVE  Follows(Append(s, [type |-> "State", time |-> n]), m)
<1> DEFINE e == [type |-> "State", time |-> n]
           u == Append(s, e)
<1>0. e \in Event /\ hasProcessTime(e) /\ ~isBlockStart(e) /\ e.type = "State" /\ e.time = n
  BY DEF Event, EventType, hasProcessTime, isBlockStart
<1> HIDE DEF e
<1>1. /\ Len(s) \in Nat /\ Len(u) = Len(s) + 1 /\ u[Len(s) + 1] = e
      /\ \A j \in 1..Len(s) : u[j] = s[j]
  BY <1>0, Appended
<1> SUFFICES ASSUME NEW i \in 1..Len(u), InLastBlock(u, i), hasProcessTime(u[i])
             PROVE  /\ m >= IF u[i].type = "State" THEN u[i].time ELSE u[i].time + 1
                    /\ m <= u[i].time + 1 \/ \E k \in (i + 1)..Len(u) : hasProcessTime(u[k])
  BY DEF Follows, e
<1>2. CASE i = Len(s) + 1
  BY <1>0, <1>1, <1>2
<1>3. CASE i # Len(s) + 1
  <2>1. i \in 1..Len(s) /\ InLastBlock(s, i) /\ u[i] = s[i]
    BY <1>0, <1>1, <1>3, LastBlock
  <2>2. n >= IF s[i].type = "State" THEN s[i].time ELSE s[i].time + 1
    BY <2>1 DEF Follows
  <2>3. s[i].time \in Nat
    BY <2>1, EventsOf
  <2>4. Len(u) \in (i + 1)..Len(u) /\ hasProcessTime(u[Len(u)])
    BY <1>0, <1>1, <2>1
  <2> HIDE DEF u
  <2> QED
    BY <2>1, <2>2, <2>3, <2>4
<1> QED
  BY <1>2, <1>3

(***************************************************************************)
(* The order of the shared events is kept by an event that is not one, and   *)
(* by one that may follow and whose time is new or that of the last block.   *)
(***************************************************************************)
LEMMA UniqueKept ==
  ASSUME TypeOK, NEW t \in Threads, NEW e \in Event, EventsOutWrite(t, e),
         SharedTimesUnique(Threads, rec),
         e.type = "State" => TimeIsOf(t, e.time)
  PROVE  SharedTimesUnique(Threads, rec')
<1> DEFINE n == Len(rec[t])
<1>0. /\ \A v \in Threads : rec[v] \in Seq(Event)
      /\ rec'[t] = Append(rec[t], e) /\ \A v \in Threads : v # t => rec'[v] = rec[v]
      /\ n \in Nat
  BY DEF TypeOK, EventsOutWrite
<1>1. Len(rec'[t]) = n + 1 /\ rec'[t][n + 1] = e /\ \A i \in 1..n : rec'[t][i] = rec[t][i]
  BY <1>0, Appended
<1> SUFFICES ASSUME NEW v \in Threads, NEW w \in Threads,
                    NEW i \in 1..Len(rec'[v]), NEW j \in 1..Len(rec'[w]),
                    rec'[v][i].type = "State", rec'[w][j].type = "State",
                    rec'[v][i].time = rec'[w][j].time
             PROVE  v = w /\ (i < j => SameBlock(rec'[v], i, j))
  BY DEF SharedTimesUnique
<1> DEFINE old(x, k) == ~(x = t /\ k = n + 1)
<1>2. ASSUME NEW x \in Threads, NEW k \in 1..Len(rec'[x]), old(x, k)
      PROVE  k \in 1..Len(rec[x]) /\ rec'[x][k] = rec[x][k]
  BY <1>0, <1>1, <1>2
<1>3. CASE old(v, i) /\ old(w, j)
  <2>1. /\ i \in 1..Len(rec[v]) /\ rec'[v][i] = rec[v][i]
        /\ j \in 1..Len(rec[w]) /\ rec'[w][j] = rec[w][j]
    BY <1>2, <1>3
  <2>2. v = w /\ (i < j => SameBlock(rec[v], i, j))
    BY <2>1 DEF SharedTimesUnique
  <2>3. SameBlock(rec[v], i, j) => SameBlock(rec'[v], i, j)
    <3>1. \A k \in (i + 1)..j : k \in 1..Len(rec[v]) /\ rec'[v][k] = rec[v][k]
      <4>0. v = w /\ i \in Nat /\ j \in 1..Len(rec[v]) /\ Len(rec[v]) \in Nat
        BY <1>0, <2>1, <2>2
      <4>1. \A k \in (i + 1)..j : k \in 1..Len(rec[v])
        BY <4>0
      <4>2. CASE v = t
        BY <1>1, <4>1, <4>2
      <4>3. CASE v # t
        BY <1>0, <4>1, <4>3
      <4> QED
        BY <4>2, <4>3
    <3> QED
      BY <3>1 DEF SameBlock
  <2> QED
    BY <2>2, <2>3
<1>4. CASE ~old(v, i) /\ old(w, j)
  <2>1. /\ v = t /\ i = n + 1 /\ rec'[v][i] = e
        /\ j \in 1..Len(rec[w]) /\ rec'[w][j] = rec[w][j]
    BY <1>1, <1>2, <1>4
  <2>2. w = t
    BY <2>1 DEF TimeIsOf
  <2> QED
    BY <1>0, <2>1, <2>2
<1>5. CASE old(v, i) /\ ~old(w, j)
  <2>1. /\ w = t /\ j = n + 1 /\ rec'[w][j] = e
        /\ i \in 1..Len(rec[v]) /\ rec'[v][i] = rec[v][i]
    BY <1>1, <1>2, <1>5
  <2>2. v = t /\ InLastBlock(rec[t], i)
    BY <2>1 DEF TimeIsOf
  <2>3. ~isBlockStart(e)
    BY <2>1 DEF isBlockStart
  <2>4. i \in 1..(n + 1) /\ InLastBlock(rec'[t], i)
    BY <1>0, <2>1, <2>2, <2>3, LastBlock
  <2> QED
    BY <1>1, <2>1, <2>2, <2>4 DEF InLastBlock
<1>6. CASE ~old(v, i) /\ ~old(w, j)
  BY <1>0, <1>6
<1> QED
  BY <1>3, <1>4, <1>5, <1>6

LEMMA WaitKept ==
  ASSUME TypeOK, NEW t \in Threads, NEW e \in Event, EventsOutWrite(t, e),
         OneWaitPerBlock(Threads, rec),
         e.type = "State" => Follows(rec[t], e.time)
  PROVE  OneWaitPerBlock(Threads, rec')
<1> DEFINE n == Len(rec[t])
           s == rec[t]
           u == rec'[t]
<1>0. /\ rec[t] \in Seq(Event) /\ n \in Nat
      /\ rec'[t] = Append(rec[t], e) /\ \A v \in Threads : v # t => rec'[v] = rec[v]
  BY DEF TypeOK, EventsOutWrite
<1>1. Len(u) = n + 1 /\ u[n + 1] = e /\ \A i \in 1..n : u[i] = s[i]
  BY <1>0, Appended
<1> SUFFICES ASSUME NEW w \in Threads, NEW i \in 1..Len(rec'[w]), NEW j \in 1..Len(rec'[w]),
                    i < j, SameBlock(rec'[w], i, j), hasProcessTime(rec'[w][i]),
                    rec'[w][j].type = "State"
             PROVE  /\ rec'[w][j].time >= IF rec'[w][i].type = "State" THEN rec'[w][i].time
                                                                     ELSE rec'[w][i].time + 1
                    /\ \/ rec'[w][j].time <= rec'[w][i].time + 1
                       \/ \E k \in (i + 1)..(j - 1) : hasProcessTime(rec'[w][k])
  BY DEF OneWaitPerBlock
<1>2. CASE w # t
  <2>1. rec'[w] = rec[w]
    BY <1>0, <1>2
  <2>2. SameBlock(rec[w], i, j)
    BY <2>1 DEF SameBlock
  <2> QED
    BY <2>1, <2>2 DEF OneWaitPerBlock
<1>3. CASE w = t /\ j # n + 1
  <2>1. i \in 1..n /\ j \in 1..n /\ u[i] = s[i] /\ u[j] = s[j]
    BY <1>0, <1>1, <1>3
  <2>2. SameBlock(s, i, j)
    <3>1. \A k \in (i + 1)..j : k \in 1..n /\ u[k] = s[k]
      BY <1>0, <1>1, <2>1
    <3> QED
      BY <1>3, <3>1 DEF SameBlock
  <2>3. /\ s[j].time >= IF s[i].type = "State" THEN s[i].time ELSE s[i].time + 1
        /\ s[j].time <= s[i].time + 1 \/ \E k \in (i + 1)..(j - 1) : hasProcessTime(s[k])
    BY <1>3, <2>1, <2>2 DEF OneWaitPerBlock
  <2>4. \A k \in (i + 1)..(j - 1) : u[k] = s[k]
    BY <1>0, <1>1, <2>1
  <2> QED
    BY <1>3, <2>1, <2>3, <2>4
<1>4. CASE w = t /\ j = n + 1
  <2>1. i \in 1..n /\ u[i] = s[i] /\ u[j] = e
    BY <1>0, <1>1, <1>4
  <2>2. InLastBlock(u, i)
    BY <1>1, <1>4 DEF InLastBlock
  <2>3. InLastBlock(s, i)
    BY <1>0, <2>1, <2>2, LastBlock
  <2>4. /\ e.time >= IF s[i].type = "State" THEN s[i].time ELSE s[i].time + 1
        /\ e.time <= s[i].time + 1 \/ \E k \in (i + 1)..n : hasProcessTime(s[k])
    BY <1>4, <2>1, <2>3 DEF Follows
  <2>5. \A k \in (i + 1)..n : k \in (i + 1)..(j - 1) /\ u[k] = s[k]
    BY <1>0, <1>1, <1>4, <2>1
  <2> QED
    BY <1>4, <2>1, <2>4, <2>5
<1> QED
  BY <1>2, <1>3, <1>4

-----------------------------------------------------------------------------
(***************************************************************************)
(* The invariant.                                                           *)
(***************************************************************************)
PhasePart(t) == \E p \in Phases : Trail(TimeMoves, todo[t], p, End(t)) /\ Holds(t, p)

\* The times a thread has seen, or is about to store.
ViewPart(t) ==
  /\ view[t] <= time
  /\ incremented[t] # 0 => incremented[t] = time + 1
  /\ \A i \in 1..Len(rec[t]) : hasProcessTime(rec[t][i]) => rec[t][i].time <= view[t]

Ordered == InOrder(Threads, rec) /\ NoTimeIsMissing /\ TimesDoNotDecrease

OrderInv ==
  TimesAreLocked => /\ \A t \in Threads : PhasePart(t) /\ ViewPart(t)
                    /\ Ordered

LEMMA OrderedAppend ==
  ASSUME TypeOK, TypeOK', \A v \in Threads : ViewPart(v), Ordered,
         NEW t \in Threads, NEW e \in Event, EventsOutWrite(t, e),
         e.type = "State" => Follows(rec[t], e.time) /\ TimeIsOf(t, e.time),
         hasProcessTime(e) => e.time >= view[t],
         \/ time' = time
         \/ time' = time + 1 /\ e = [type |-> "State", time |-> time + 1]
  PROVE  Ordered'
<1> DEFINE n == Len(rec[t])
<1>0. /\ \A v \in Threads : rec[v] \in Seq(Event)
      /\ rec'[t] = Append(rec[t], e) /\ \A v \in Threads : v # t => rec'[v] = rec[v]
      /\ n \in Nat /\ time \in Nat /\ view[t] \in Nat /\ e.time \in Nat
  BY EventParts DEF TypeOK, EventsOutWrite
<1>1. Len(rec'[t]) = n + 1 /\ rec'[t][n + 1] = e /\ \A i \in 1..n : rec'[t][i] = rec[t][i]
  BY <1>0, Appended
<1>2. InOrder(Threads, rec)'
  BY UniqueKept, WaitKept DEF Ordered, InOrder
<1>3. NoTimeIsMissing'
  <2> SUFFICES ASSUME NEW k \in 1..time'
               PROVE  \E v \in Threads : \E i \in 1..Len(rec'[v]) :
                        rec'[v][i] = [type |-> "State", time |-> k]
    BY DEF NoTimeIsMissing
  <2>1. CASE k \in 1..time
    <3>0. PICK v \in Threads :
            \E i \in 1..Len(rec[v]) : rec[v][i] = [type |-> "State", time |-> k]
      BY <2>1 DEF Ordered, NoTimeIsMissing
    <3>1. PICK i \in 1..Len(rec[v]) : rec[v][i] = [type |-> "State", time |-> k]
      BY <3>0
    <3>2. i \in 1..Len(rec'[v]) /\ rec'[v][i] = rec[v][i]
      <4>1. CASE v = t
        BY <1>0, <1>1, <4>1
      <4>2. CASE v # t
        BY <1>0, <4>2
      <4> QED
        BY <4>1, <4>2
    <3> QED
      BY <3>1, <3>2
  <2>2. CASE k \notin 1..time
    <3>1. k = time + 1 /\ e = [type |-> "State", time |-> time + 1]
      BY <1>0, <2>2
    <3>2. n + 1 \in 1..Len(rec'[t])
      BY <1>0, <1>1
    <3> QED
      BY <1>1, <3>1, <3>2
  <2> QED
    BY <2>1, <2>2
<1>4. TimesDoNotDecrease'
  <2> SUFFICES ASSUME NEW v \in Threads, NEW i \in 1..Len(rec'[v]), NEW j \in 1..Len(rec'[v]),
                      hasProcessTime(rec'[v][i]), hasProcessTime(rec'[v][j]), i < j
               PROVE  rec'[v][i].time <= rec'[v][j].time
    BY DEF TimesDoNotDecrease
  <2>1. CASE v # t
    BY <1>0, <2>1 DEF Ordered, TimesDoNotDecrease
  <2>2. CASE v = t /\ j # n + 1
    <3>0. i \in 1..n /\ j \in 1..n
      BY <1>0, <1>1, <2>2
    <3>1. i \in 1..n /\ j \in 1..n /\ rec'[v][i] = rec[v][i] /\ rec'[v][j] = rec[v][j]
      BY <1>1, <2>2, <3>0
    <3> QED
      BY <2>2, <3>1 DEF Ordered, TimesDoNotDecrease
  <2>3. CASE v = t /\ j = n + 1
    <3>1. i \in 1..n /\ rec'[v][i] = rec[v][i] /\ rec'[v][j] = e
      BY <1>0, <1>1, <2>3
    <3>2. rec[v][i].time <= view[t]
      BY <2>3, <3>1 DEF ViewPart
    <3>3. rec[v][i].time \in Nat
      BY <1>0, <2>3, <3>1, EventsOf
    <3> QED
      BY <1>0, <3>1, <3>2, <3>3
  <2> QED
    BY <2>1, <2>2, <2>3
<1> QED
  BY <1>2, <1>3, <1>4 DEF Ordered

LEMMA OrderedKept == ASSUME Ordered, UNCHANGED <<time, rec>> PROVE Ordered'
BY DEF Ordered, NoTimeIsMissing, TimesDoNotDecrease

\* What a thread has seen, when it writes the event e and then has the view n.
LEMMA ViewAppend ==
  ASSUME TypeOK, TypeOK', NEW t \in Threads, ViewPart(t), NEW e \in Event,
         EventsOutWrite(t, e), view[t] <= view'[t], view'[t] <= time',
         hasProcessTime(e) => e.time = view'[t],
         incremented'[t] # 0 => incremented'[t] = time' + 1
  PROVE  ViewPart(t)'
<1>0. /\ rec[t] \in Seq(Event) /\ rec'[t] = Append(rec[t], e) /\ Len(rec[t]) \in Nat
      /\ view[t] \in Nat /\ view'[t] \in Nat /\ e.time \in Nat
  BY EventParts DEF TypeOK, EventsOutWrite
<1>1. ASSUME NEW i \in 1..Len(rec'[t]), hasProcessTime(rec'[t][i])
      PROVE  rec'[t][i].time <= view'[t]
  <2>1. CASE i = Len(rec[t]) + 1
    BY <1>0, <1>1, <2>1, Appended
  <2>2. CASE i # Len(rec[t]) + 1
    <3>1. i \in 1..Len(rec[t]) /\ rec'[t][i] = rec[t][i]
      BY <1>0, <2>2, Appended
    <3>2. rec[t][i].time <= view[t] /\ rec[t][i].time \in Nat
      BY <1>0, <1>1, <3>1, EventsOf DEF ViewPart
    <3> QED
      BY <1>0, <3>1, <3>2
  <2> QED
    BY <2>1, <2>2
<1> QED
  BY <1>1 DEF ViewPart

LEMMA ViewKept ==
  ASSUME TypeOK, TypeOK', NEW v \in Threads, ViewPart(v), rec'[v] = rec[v], view'[v] = view[v],
         time <= time', incremented'[v] # 0 => incremented'[v] = time' + 1
  PROVE  ViewPart(v)'
<1>1. view[v] \in Nat /\ time \in Nat /\ time' \in Nat
  BY DEF TypeOK
<1> QED
  BY <1>1 DEF ViewPart

-----------------------------------------------------------------------------
(***************************************************************************)
(* What the threads know.                                                   *)
(***************************************************************************)
LEMMA TimeMoveCases ==
  ASSUME NEW p, NEW o, NEW q, <<p, o, q>> \in TimeMoves
  PROVE  /\ p \in Phases /\ q \in Phases
         /\ o.op = "enter" => \/ p = q /\ p \in {"free", "synced", "recording", "spent", "first"}
                              \/ p = "held" /\ q = "synced"
         /\ o.op = "exitPost" => q = "free" \/ (p = "firstHeld" /\ q = "first")
         /\ o.op \in {"acquire", "lock"}
              => \/ o.mutex # "memory" /\ p = q
                 \/ o.mutex = "memory" /\ \/ p = "free" /\ q = "held"
                                          \/ p = "begun" /\ q = "ready"
                                          \/ p = "first" /\ q = "firstHeld"
         /\ o.op = "unlock"
              => \/ o.mutex # "memory" /\ p = q
                 \/ o.mutex = "memory" /\ \/ p = "held" /\ q = "free"
                                          \/ p \in {"ready", "firstHeld"} /\ q = "spent"
         /\ o.op = "write"
              => \/ o.type \in {"Alloca", "KnownRegion"} /\ p = q
                 \/ o.type = "Instruction"
                    /\ \/ p = q /\ p \in {"free", "held", "synced", "spent", "first"}
                       \/ p = "free" /\ q = "begun"
                       \/ p = "synced" /\ q = "recording"
         /\ o.op = "threadTime" => p = "held" /\ q = "ready"
         /\ o.op \in {"record", "recordArea"}
              => p = q /\ p \in {"ready", "recording", "firstHeld"}
         /\ o.op \in {"create", "join"} => p = q /\ p \in {"free", "held"}
<1>1. p \in Phases /\ q \in Phases /\ TimeMove(p, o, q)
  BY DEF TimeMoves
<1> QED
  BY <1>1 DEF TimeMove, Enter, ExitPost, ThreadTime, RecordArea, Create, Join, Acquire,
              Lock, Unlock, Record, Write

LEMMA PhaseHead ==
  ASSUME NEW t \in Threads, PhasePart(t), todo[t] # <<>>
  PROVE  \E p, q \in Phases :
           /\ <<p, Head(todo[t]), q>> \in TimeMoves /\ Holds(t, p)
           /\ Trail(TimeMoves, Tail(todo[t]), q, End(t))
<1>1. PICK p \in Phases : Trail(TimeMoves, todo[t], p, End(t)) /\ Holds(t, p)
  BY DEF PhasePart
<1>2. PICK q : <<p, Head(todo[t]), q>> \in TimeMoves /\ Trail(TimeMoves, Tail(todo[t]), q, End(t))
  BY <1>1, TrailStep
<1>3. q \in Phases
  BY <1>2, TimeMoveCases
<1> QED
  BY <1>1, <1>2, <1>3

\* A thread between its instructions has no time of an instruction.
LEMMA PhaseAtEnd ==
  ASSUME NEW t \in Threads, PhasePart(t), todo[t] = <<>>, phase[t] # "returned"
  PROVE  ci[t] = 0
<1>1. PICK p \in Phases : Trail(TimeMoves, todo[t], p, End(t)) /\ Holds(t, p)
  BY DEF PhasePart
<1>2. p = "free"
  BY <1>1, TrailEnd DEF End
<1> QED
  BY <1>1, <1>2 DEF Holds

\* A thread that records has the memory lock and may record.
LEMMA RecordsReady ==
  ASSUME NEW t \in Threads, PhasePart(t), AtRecord(t)
  PROVE  Mem(t) /\ Ready(t)
<1>1. todo[t] # <<>> /\ Head(todo[t]).op \in {"record", "recordArea"}
  BY DEF AtRecord, At
<1>2. PICK p, q \in Phases : <<p, Head(todo[t]), q>> \in TimeMoves /\ Holds(t, p)
  BY <1>1, PhaseHead
<1>3. p \in {"ready", "recording", "firstHeld"}
  BY <1>1, <1>2, TimeMoveCases
<1> QED
  BY <1>2, <1>3 DEF Holds

LEMMA PhaseStep ==
  ASSUME NEW t \in Threads, PhasePart(t), todo[t] # <<>>, todo'[t] = Tail(todo[t]),
         phase'[t] = phase[t],
         \A p, q \in Phases :
           <<p, Head(todo[t]), q>> \in TimeMoves /\ Holds(t, p) => Holds(t, q)'
  PROVE  PhasePart(t)'
<1>1. PICK p, q \in Phases : /\ <<p, Head(todo[t]), q>> \in TimeMoves /\ Holds(t, p)
                             /\ Trail(TimeMoves, Tail(todo[t]), q, End(t))
  BY PhaseHead
<1>2. Holds(t, q)' /\ End(t)' = End(t)
  BY <1>1 DEF End
<1> QED
  BY <1>1, <1>2 DEF PhasePart

(***************************************************************************)
(* The other threads: what v knows still holds after a step of t, because t  *)
(* changes the time, or records, only while it has the memory lock.          *)
(***************************************************************************)
LEMMA PhaseKept ==
  ASSUME TypeOK, NEW t \in Threads, NEW v \in Threads, v # t, PhasePart(v),
         phase[t] # "none", todo'[v] = todo[v], rec'[v] = rec[v], ci'[v] = ci[v],
         view'[v] = view[v], phase'[v] = phase[v],
         Mem(v) => /\ Mem(v)' /\ time' = time
                   /\ \/ rec' = rec
                      \/ \E e \in Event : e.type # "State" /\ EventsOutWrite(t, e)
  PROVE  PhasePart(v)'
<1>1. PICK p \in Phases : Trail(TimeMoves, todo[v], p, End(v)) /\ Holds(v, p)
  BY DEF PhasePart
<1>2. End(v)' = End(v)
  BY DEF End
<1>3. ~Alone(v)
  BY DEF Alone
<1>4. Mem(v) /\ Ready(v) => Ready(v)'
  <2> SUFFICES ASSUME Mem(v), Ready(v) PROVE Ready(v)'
    OBVIOUS
  <2>1. TimeIsOf(v, time) => TimeIsOf(v, time)'
    <3> SUFFICES ASSUME TimeIsOf(v, time), NEW u \in Threads, NEW i \in 1..Len(rec'[u]),
                        rec'[u][i].type = "State", rec'[u][i].time = time'
                 PROVE  u = v /\ InLastBlock(rec'[v], i)
      BY DEF TimeIsOf
    <3>1. i \in 1..Len(rec[u]) /\ rec'[u][i] = rec[u][i]
      <4>1. CASE rec' = rec
        BY <4>1
      <4>2. ASSUME NEW e \in Event, e.type # "State", EventsOutWrite(t, e)
            PROVE  i \in 1..Len(rec[u]) /\ rec'[u][i] = rec[u][i]
        <5>1. CASE u # t
          BY <4>2, <5>1 DEF TypeOK, EventsOutWrite
        <5>2. CASE u = t
          <6>1. rec[t] \in Seq(Event) /\ rec'[t] = Append(rec[t], e)
            BY <4>2 DEF TypeOK, EventsOutWrite
          <6> QED
            BY <4>2, <5>2, <6>1, Appended
        <5> QED
          BY <5>1, <5>2
      <4> QED
        BY <4>1, <4>2
    <3> QED
      BY <3>1 DEF TimeIsOf
  <2> QED
    BY <2>1 DEF Ready
<1>5. Holds(v, p)'
  BY <1>1, <1>3, <1>4 DEF Holds, Mem
<1> QED
  BY <1>1, <1>2, <1>5 DEF PhasePart

\* The events of the time n stay in the last block of t, when t goes on with it.
LEMMA TimeIsOfAppend ==
  ASSUME TypeOK, NEW t \in Threads, NEW e \in Event, EventsOutWrite(t, e),
         ~isBlockStart(e), NEW n \in Nat, TimeIsOf(t, n)
  PROVE  \A u \in Threads : \A i \in 1..Len(rec'[u]) :
           rec'[u][i].type = "State" /\ rec'[u][i].time = n
           => u = t /\ InLastBlock(rec'[t], i)
<1>0. /\ rec[t] \in Seq(Event) /\ Len(rec[t]) \in Nat
      /\ rec'[t] = Append(rec[t], e) /\ \A v \in Threads : v # t => rec'[v] = rec[v]
  BY DEF TypeOK, EventsOutWrite
<1> SUFFICES ASSUME NEW u \in Threads, NEW i \in 1..Len(rec'[u]),
                    rec'[u][i].type = "State", rec'[u][i].time = n
             PROVE  u = t /\ InLastBlock(rec'[t], i)
  OBVIOUS
<1>1. CASE u # t
  BY <1>0, <1>1 DEF TimeIsOf
<1>2. CASE u = t /\ i = Len(rec[t]) + 1
  BY <1>0, <1>2, LastBlock
<1>3. CASE u = t /\ i # Len(rec[t]) + 1
  <2>1. i \in 1..Len(rec[t]) /\ rec'[t][i] = rec[t][i] /\ i \in 1..(Len(rec[t]) + 1)
    BY <1>0, <1>3, Appended
  <2>2. InLastBlock(rec[t], i)
    BY <1>3, <2>1 DEF TimeIsOf
  <2> QED
    BY <1>0, <1>3, <2>1, <2>2, LastBlock
<1> QED
  BY <1>1, <1>2, <1>3

\* No event has a time that is still to come.
LEMMA NewTimeIsOf ==
  ASSUME TypeOK, \A v \in Threads : ViewPart(v), NEW t \in Threads
  PROVE  TimeIsOf(t, time + 1)
<1> SUFFICES ASSUME NEW u \in Threads, NEW i \in 1..Len(rec[u]), rec[u][i].type = "State"
             PROVE  rec[u][i].time # time + 1
  BY DEF TimeIsOf
<1>1. rec[u][i].time <= view[u] /\ view[u] <= time
  BY DEF ViewPart, hasProcessTime
<1>2. rec[u][i].time \in Nat /\ view[u] \in Nat /\ time \in Nat
  BY EventsOf DEF TypeOK
<1> QED
  BY <1>1, <1>2

-----------------------------------------------------------------------------
(***************************************************************************)
(* The steps of a thread, and what it knows after them.                     *)
(***************************************************************************)
LEMMA PhaseEnter ==
  ASSUME TypeOK, NEW t \in Threads, enterNotification(t), NEW p, NEW q,
         <<p, Head(todo[t]), q>> \in TimeMoves, Holds(t, p)
  PROVE  Holds(t, q)'
<1>1. /\ Head(todo[t]).op = "enter" /\ view'[t] = time
      /\ UNCHANGED <<time, owner, ci, phase>> /\ (view[t] = time => rec' = rec)
  BY DEF enterNotification, At, TypeOK
<1>2. \/ p = q /\ p \in {"free", "synced", "recording", "spent", "first"}
      \/ p = "held" /\ q = "synced"
  BY <1>1, TimeMoveCases
<1>3. p = q /\ p \in {"free", "spent"} => Holds(t, q)'
  BY <1>1 DEF Holds
<1>4. p \in {"held", "synced"} /\ q = "synced" => Holds(t, q)'
  BY <1>1 DEF Holds, Mem
<1>5. p = q /\ p \in {"recording", "first"} => Holds(t, q)'
  BY <1>1 DEF Holds, Mem, Alone, Ready, TimeIsOf
<1> QED
  BY <1>2, <1>3, <1>4, <1>5

LEMMA PhaseExit ==
  ASSUME TypeOK, NEW t \in Threads, exitPostNotification(t), NEW p, NEW q,
         <<p, Head(todo[t]), q>> \in TimeMoves, Holds(t, p)
  PROVE  Holds(t, q)'
<1>1. /\ Head(todo[t]).op = "exitPost" /\ ci'[t] = 0
      /\ UNCHANGED <<time, view, rec, phase>>
  BY DEF exitPostNotification, At, TypeOK
<1>2. q = "free" \/ (p = "firstHeld" /\ q = "first")
  BY <1>1, TimeMoveCases
<1>3. q = "free" => Holds(t, q)'
  BY <1>1 DEF Holds
<1>4. p = "firstHeld" /\ q = "first" => Holds(t, q)'
  BY <1>1 DEF Holds, Alone, Ready
<1> QED
  BY <1>2, <1>3, <1>4

\* Steps that change nothing but the owner of a mutex other than the memory's.
LEMMA PhaseSame ==
  ASSUME NEW t \in Threads, NEW p, Holds(t, p), p \notin {"first", "firstHeld"} \/ phase' = phase,
         UNCHANGED <<time, view, rec>>, ci'[t] = ci[t], owner'["memory"] = owner["memory"]
  PROVE  Holds(t, p)'
<1>1. Ready(t) => Ready(t)'
  BY DEF Ready, TimeIsOf
<1>2. Alone(t) /\ phase' = phase => Alone(t)'
  BY DEF Alone
<1> QED
  BY <1>1, <1>2 DEF Holds, Mem

LEMMA PhaseAcquire ==
  ASSUME TypeOK, NEW t \in Threads, acquireLock(t), NEW p, NEW q,
         <<p, Head(todo[t]), q>> \in TimeMoves, Holds(t, p)
  PROVE  Holds(t, q)'
<1> DEFINE m == Head(todo[t]).mutex
<1>0. todo[t] # <<>> /\ m \in Mutexes /\ "memory" \in Mutexes
  BY Todo, OperationShapes, MutexNames DEF acquireLock, At
<1>1. /\ Head(todo[t]).op \in {"acquire", "lock"}
      /\ UNCHANGED <<time, view, ci, rec, phase>>
      /\ owner' = [owner EXCEPT ![m] = t]
  BY DEF acquireLock, At
<1>2. /\ m = "memory" => Mem(t)'
      /\ m # "memory" => owner'["memory"] = owner["memory"]
  BY <1>0, <1>1 DEF TypeOK, Mem
<1>3. \/ m # "memory" /\ p = q
      \/ m = "memory" /\ \/ p = "free" /\ q = "held"
                         \/ p = "begun" /\ q = "ready"
                         \/ p = "first" /\ q = "firstHeld"
  BY <1>1, TimeMoveCases
<1> HIDE DEF m
<1>4. m # "memory" /\ p = q => Holds(t, q)'
  BY <1>1, <1>2, PhaseSame
<1>5. m = "memory" /\ p = "free" /\ q = "held" => Holds(t, q)'
  BY <1>1, <1>2 DEF Holds
<1>6. m = "memory" /\ p = "begun" /\ q = "ready" => Holds(t, q)'
  <2> SUFFICES ASSUME m = "memory", p = "begun", q = "ready" PROVE Holds(t, q)'
    OBVIOUS
  <2>1. Untimed(rec[t]) /\ ci[t] = 0 /\ rec[t] \in Seq(Event)
    BY DEF Holds, TypeOK
  <2>2. Follows(rec[t], time + 1)
    BY <2>1, UntimedFollows
  <2>3. Ready(t)'
    BY <1>1, <2>1, <2>2 DEF Ready
  <2> QED
    BY <1>2, <2>3 DEF Holds
<1>7. m = "memory" /\ p = "first" /\ q = "firstHeld" => Holds(t, q)'
  BY <1>1, <1>2 DEF Holds, Ready, Alone
<1> QED
  BY <1>3, <1>4, <1>5, <1>6, <1>7

LEMMA PhaseUnlock ==
  ASSUME TypeOK, NEW t \in Threads, unlock(t), NEW p, NEW q,
         <<p, Head(todo[t]), q>> \in TimeMoves, Holds(t, p)
  PROVE  Holds(t, q)'
<1> DEFINE m == Head(todo[t]).mutex
<1>0. todo[t] # <<>> /\ m \in Mutexes /\ "memory" \in Mutexes
  BY Todo, OperationShapes, MutexNames DEF unlock, At
<1>1. /\ Head(todo[t]).op = "unlock" /\ UNCHANGED <<time, view, ci, rec, phase>>
      /\ owner' = [owner EXCEPT ![m] = NoThread]
  BY DEF unlock, At
<1>2. m # "memory" => owner'["memory"] = owner["memory"]
  BY <1>0, <1>1 DEF TypeOK
<1>3. \/ m # "memory" /\ p = q
      \/ m = "memory" /\ \/ p = "held" /\ q = "free"
                         \/ p \in {"ready", "firstHeld"} /\ q = "spent"
  BY <1>1, TimeMoveCases
<1> HIDE DEF m
<1>4. m # "memory" /\ p = q => Holds(t, q)'
  BY <1>1, <1>2, PhaseSame
<1>5. p = "held" /\ q = "free" => Holds(t, q)'
  BY <1>1 DEF Holds
<1>6. q = "spent" => Holds(t, q)'
  BY DEF Holds
<1> QED
  BY <1>3, <1>4, <1>5, <1>6

LEMMA PhaseWrite ==
  ASSUME TypeOK, NEW t \in Threads, writeEvent(t), NEW p, NEW q,
         <<p, Head(todo[t]), q>> \in TimeMoves, Holds(t, p)
  PROVE  Holds(t, q)'
<1> DEFINE ty == Head(todo[t]).type
           e == [type |-> ty, time |-> 0]
<1>0. /\ todo[t] # <<>> /\ ty \in EventType /\ time \in Nat
      /\ rec[t] \in Seq(Event)
  BY Todo, OperationShapes DEF writeEvent, At, TypeOK
<1>1. /\ Head(todo[t]).op = "write" /\ UNCHANGED <<time, owner, view, ci, phase>>
      /\ EventsOutWrite(t, e)
  BY DEF writeEvent, At
<1>2. \/ ty \in {"Alloca", "KnownRegion"} /\ p = q
      \/ ty = "Instruction"
         /\ \/ p = q /\ p \in {"free", "held", "synced", "spent", "first"}
            \/ p = "free" /\ q = "begun"
            \/ p = "synced" /\ q = "recording"
  BY <1>1, TimeMoveCases
<1>3. /\ e \in Event /\ ~hasProcessTime(e) /\ (isBlockStart(e) <=> ty = "Instruction")
  BY <1>0, <1>2 DEF Event, hasProcessTime, isBlockStart
<1> HIDE DEF e, ty
<1>4. rec'[t] = Append(rec[t], e)
  BY <1>1 DEF EventsOutWrite, TypeOK
<1>5. CASE p = q /\ p \in {"free", "held", "synced", "spent"}
  BY <1>1, <1>5 DEF Holds, Mem
<1>6. CASE ty = "Instruction"
  <2>1. Untimed(rec'[t])
    BY <1>0, <1>3, <1>4, <1>6, UntimedAppend
  <2>2. Follows(rec'[t], time + 1)
    BY <1>0, <1>3, <1>4, <2>1, UntimedFollows, Appended
  <2>3. p = "first" /\ q = "first" => Holds(t, q)'
    BY <1>1, <2>2 DEF Holds, Alone
  <2>4. p = "free" /\ q = "begun" => Holds(t, q)'
    BY <1>1, <2>1 DEF Holds
  <2>5. p = "synced" /\ q = "recording" => Holds(t, q)'
    <3> SUFFICES ASSUME p = "synced", q = "recording" PROVE Holds(t, q)'
      OBVIOUS
    <3>1. ci[t] = 0 /\ Mem(t) /\ view[t] = time
      BY DEF Holds
    <3>2. Ready(t)'
      BY <1>1, <2>2, <3>1 DEF Ready
    <3> QED
      BY <1>1, <3>1, <3>2 DEF Holds, Mem
  <2> QED
    BY <1>2, <1>5, <1>6, <2>3, <2>4, <2>5
<1>7. CASE ty \in {"Alloca", "KnownRegion"} /\ p = q
  <2>1. Untimed(rec[t]) => Untimed(rec'[t])
    BY <1>0, <1>3, <1>4, UntimedAppend
  <2>2. /\ Follows(rec[t], time + 1) => Follows(rec'[t], time + 1)
        /\ Follows(rec[t], time) => Follows(rec'[t], time)
    <3>1. time + 1 \in Nat
      BY <1>0
    <3> QED
      BY <1>0, <1>3, <1>4, <3>1, FollowsKept
  <2>3. TimeIsOf(t, time) => TimeIsOf(t, time)'
    <3> SUFFICES ASSUME TimeIsOf(t, time) PROVE TimeIsOf(t, time)'
      OBVIOUS
    <3>1. ~isBlockStart(e)
      BY <1>3, <1>7
    <3>2. \A u \in Threads : \A i \in 1..Len(rec'[u]) :
            rec'[u][i].type = "State" /\ rec'[u][i].time = time
            => u = t /\ InLastBlock(rec'[t], i)
      BY <1>0, <1>1, <1>3, <3>1, TimeIsOfAppend
    <3> QED
      BY <1>1, <3>2 DEF TimeIsOf
  <2>4. Ready(t) => Ready(t)'
    BY <1>1, <2>2, <2>3 DEF Ready
  <2>5. Alone(t) => Alone(t)'
    BY <1>1 DEF Alone
  <2> QED
    BY <1>1, <1>7, <2>1, <2>2, <2>4, <2>5 DEF Holds, Mem
<1> QED
  BY <1>2, <1>6, <1>7

LEMMA PhaseThreadTime ==
  ASSUME TypeOK, NEW t \in Threads, incrementThreadTime(t), NEW p, NEW q,
         <<p, Head(todo[t]), q>> \in TimeMoves, Holds(t, p)
  PROVE  Holds(t, q)'
<1> DEFINE e == [type |-> "Instruction", time |-> 0]
<1>1. /\ Head(todo[t]).op = "threadTime" /\ ci'[t] = 0 /\ owner' = owner /\ time' = time
      /\ rec[t] \in Seq(Event) /\ rec'[t] = Append(rec[t], e) /\ time \in Nat
  BY DEF incrementThreadTime, At, TypeOK, EventsOutWrite
<1>2. p = "held" /\ q = "ready"
  BY <1>1, TimeMoveCases
<1>3. e \in Event /\ ~hasProcessTime(e) /\ isBlockStart(e)
  BY DEF Event, EventType, hasProcessTime, isBlockStart
<1> HIDE DEF e
<1>4. Untimed(rec'[t]) /\ rec'[t] \in Seq(Event)
  BY <1>1, <1>3, UntimedAppend, Appended
<1>5. Follows(rec'[t], time + 1)
  BY <1>4, UntimedFollows
<1>6. Ready(t)'
  BY <1>1, <1>5 DEF Ready
<1> QED
  BY <1>1, <1>2, <1>6 DEF Holds, Mem

\* A thread that has recorded an event of the time n, which is then the present.
LEMMA PhaseRecorded ==
  ASSUME TypeOK, NEW t \in Threads, NEW n \in Nat, RecordAt(t, n), owner' = owner, phase' = phase,
         time' = n, ci'[t] = n, Follows(rec[t], n), TimeIsOf(t, n),
         Head(todo[t]).op \in {"record", "recordArea"}, NEW p, NEW q,
         <<p, Head(todo[t]), q>> \in TimeMoves, Holds(t, p)
  PROVE  Holds(t, q)'
<1> DEFINE e == [type |-> "State", time |-> n]
<1>1. /\ view'[t] = n /\ EventsOutWrite(t, e) /\ rec[t] \in Seq(Event)
      /\ rec'[t] = Append(rec[t], e)
  BY DEF RecordAt, TypeOK, EventsOutWrite
<1>2. p = q /\ p \in {"ready", "recording", "firstHeld"}
  BY TimeMoveCases
<1>3. Follows(rec'[t], n) /\ Follows(rec'[t], n + 1)
  BY <1>1, FollowsState
<1>4. e \in Event /\ ~isBlockStart(e)
  BY DEF Event, EventType, isBlockStart
<1> HIDE DEF e
<1>5. TimeIsOf(t, time)'
  <2>1. \A u \in Threads : \A i \in 1..Len(rec'[u]) :
          rec'[u][i].type = "State" /\ rec'[u][i].time = n
          => u = t /\ InLastBlock(rec'[t], i)
    BY <1>1, <1>4, TimeIsOfAppend
  <2> QED
    BY <2>1 DEF TimeIsOf
<1>6. Ready(t)'
  BY <1>3, <1>5 DEF Ready
<1> QED
  BY <1>1, <1>2, <1>6 DEF Holds, Mem, Alone

-----------------------------------------------------------------------------
LEMMA OrderInit == Init => OrderInv
<1> SUFFICES ASSUME Init PROVE (\A t \in Threads : PhasePart(t) /\ ViewPart(t)) /\ Ordered
  BY DEF OrderInv
<1>0. Main \in Threads
  BY RecorderAssumption
<1>1. \A t \in Threads : rec[t] = <<>> /\ view[t] = 0 /\ ci[t] = 0 /\ incremented[t] = 0
  BY DEF Init
<1>2. time = 0 /\ Len(<<>>) = 0
  BY DEF Init
<1>3. \A t \in Threads : ViewPart(t)
  BY <1>1, <1>2 DEF ViewPart
<1>4. Ordered
  BY <1>1, <1>2 DEF Ordered, InOrder, SharedTimesUnique, OneWaitPerBlock, NoTimeIsMissing,
                    TimesDoNotDecrease
<1>5. PhasePart(Main)
  <2>1. todo[Main] = notifyFunctionBegin(Main) \o notifyArgs /\ End(Main) = "free"
    BY <1>0 DEF Init, End
  <2>2. Alone(Main)
    BY DEF Init, Alone
  <2>3. Follows(rec[Main], time + 1)
    BY <1>0, <1>1, <1>2 DEF Follows
  <2>4. Holds(Main, "first")
    BY <1>0, <1>1, <1>2, <2>2, <2>3 DEF Holds
  <2> QED
    BY <2>1, <2>4, TimeBegin DEF PhasePart, Phases
<1>6. ASSUME NEW t \in Threads, t # Main PROVE PhasePart(t)
  <2>1. todo[t] = <<>> /\ End(t) = "free"
    BY <1>6 DEF Init, End
  <2>2. Holds(t, "free")
    BY <1>1 DEF Holds
  <2> QED
    BY <2>1, <2>2, TrailNone DEF PhasePart, Phases
<1> QED
  BY <1>3, <1>4, <1>5, <1>6

LEMMA OrderNext == Base /\ Base' /\ OrderInv /\ [Next]_vars => OrderInv'
<1> SUFFICES ASSUME Base, Base', OrderInv, [Next]_vars, TimesAreLocked'
             PROVE  (\A v \in Threads : PhasePart(v) /\ ViewPart(v))' /\ Ordered'
  BY DEF OrderInv
<1> DEFINE Goal == (\A v \in Threads : PhasePart(v)' /\ ViewPart(v)') /\ Ordered'
<1>1. ASSUME NEW t \in Threads, ThreadStep(t) PROVE Goal
  <2>0. /\ TypeOK /\ ControlOK /\ TypeOK' /\ program' = program /\ NoThread \notin Threads
        /\ \A v \in Threads : PhasePart(v) /\ ViewPart(v)
        /\ Ordered /\ time \in Nat
    BY <1>1, RecorderAssumption DEF ThreadStep, Base, OrderInv, TimesAreLocked, TypeOK
  <2>1. phase[t] # "none"
    BY <1>1, <2>0 DEF ThreadStep, Operation, ControlOK, enterNotification,
                      exitPostNotification, acquireLock, unlock, writeEvent,
                      incrementThreadTime, LoadTime, StoreTime, recordState, recordNothing,
                      createThread, joinThread, BeginInstruction, Return, At, AtRecord
  \* Steps that record nothing.
  <2>2. ASSUME todo[t] # <<>>, todo' = [todo EXCEPT ![t] = Tail(@)],
               UNCHANGED <<time, view, incremented, rec, phase>>,
               \A v \in Threads : v # t => ci'[v] = ci[v] /\ (Mem(v) => Mem(v)'),
               \A p, q \in Phases :
                 <<p, Head(todo[t]), q>> \in TimeMoves /\ Holds(t, p) => Holds(t, q)'
        PROVE  Goal
    <3>1. ASSUME NEW v \in Threads PROVE ViewPart(v)'
      BY <2>0, <2>2 DEF ViewPart
    <3>2. PhasePart(t)'
      <4>1. todo'[t] = Tail(todo[t])
        BY <2>0, <2>2 DEF TypeOK
      <4> QED
        BY <2>0, <2>2, <4>1, PhaseStep
    <3>3. ASSUME NEW v \in Threads, v # t PROVE PhasePart(v)'
      <4>1. todo'[v] = todo[v]
        BY <2>0, <2>2, <3>3 DEF TypeOK
      <4> QED
        BY <2>0, <2>1, <2>2, <3>3, <4>1, PhaseKept
    <3> QED
      BY <2>0, <2>2, <3>1, <3>2, <3>3, OrderedKept
  \* Steps that write an event which is not shared.
  <2>3. ASSUME todo[t] # <<>>, todo' = [todo EXCEPT ![t] = Tail(@)],
               UNCHANGED <<time, owner, incremented, phase>>,
               NEW e \in Event, EventsOutWrite(t, e), e.type # "State",
               \A v \in Threads : v # t => ci'[v] = ci[v] /\ view'[v] = view[v],
               view'[t] \in {view[t], time}, hasProcessTime(e) => e.time = view'[t],
               \A p, q \in Phases :
                 <<p, Head(todo[t]), q>> \in TimeMoves /\ Holds(t, p) => Holds(t, q)'
        PROVE  Goal
    <3>0. /\ \A v \in Threads : v # t => rec'[v] = rec[v] /\ todo'[v] = todo[v]
          /\ todo'[t] = Tail(todo[t]) /\ view[t] \in Nat /\ view[t] <= time
      BY <2>0, <2>3 DEF TypeOK, EventsOutWrite, ViewPart
    <3>1. ViewPart(t)'
      <4>1. view[t] <= view'[t] /\ view'[t] <= time'
        BY <2>0, <2>3, <3>0
      <4>2. incremented'[t] # 0 => incremented'[t] = time' + 1
        BY <2>0, <2>3 DEF ViewPart
      <4> QED
        BY <2>0, <2>3, <4>1, <4>2, ViewAppend
    <3>2. ASSUME NEW v \in Threads, v # t PROVE ViewPart(v)'
      BY <2>0, <2>3, <3>0, <3>2 DEF ViewPart
    <3>3. PhasePart(t)'
      BY <2>0, <2>3, <3>0, PhaseStep
    <3>4. ASSUME NEW v \in Threads, v # t PROVE PhasePart(v)'
      <4>1. Mem(v) => Mem(v)'
        BY <2>3 DEF Mem
      <4> QED
        BY <2>0, <2>1, <2>3, <3>0, <3>4, <4>1, PhaseKept
    <3>5. Ordered'
      <4>1. hasProcessTime(e) => e.time >= view[t]
        BY <2>0, <2>3, <3>0
      <4> QED
        BY <2>0, <2>3, <4>1, OrderedAppend
    <3> QED
      BY <3>1, <3>2, <3>3, <3>4, <3>5
  \* Steps that record a change, with the time n.
  <2>4. ASSUME AtRecord(t), NEW n \in Nat, RecordAt(t, n), UNCHANGED <<owner, phase>>,
               \/ n = time
               \/ n = time + 1 /\ \A v \in Threads : v # t => incremented[v] = 0,
               time' = n, ci'[t] = n, n # 0, incremented'[t] = 0,
               \A v \in Threads : v # t => ci'[v] = ci[v] /\ incremented'[v] = incremented[v],
               Follows(rec[t], n), TimeIsOf(t, n)
        PROVE  Goal
    <3> DEFINE e == [type |-> "State", time |-> n]
    <3>0. /\ todo[t] # <<>> /\ Head(todo[t]).op \in {"record", "recordArea"}
          /\ Mem(t) /\ e \in Event /\ e.type = "State" /\ e.time = n /\ EventsOutWrite(t, e)
          /\ todo' = [todo EXCEPT ![t] = Tail(@)] /\ view' = [view EXCEPT ![t] = n]
      <4>1. e \in Event /\ e.type = "State" /\ e.time = n
        BY DEF Event, EventType
      <4>2. Mem(t)
        BY <2>0, <2>4, RecordsReady
      <4> QED
        BY <2>4, <4>1, <4>2 DEF AtRecord, At, RecordAt, Advance
    <3>1. /\ \A v \in Threads : v # t => /\ rec'[v] = rec[v] /\ todo'[v] = todo[v]
                                         /\ view'[v] = view[v]
          /\ todo'[t] = Tail(todo[t]) /\ view'[t] = n
          /\ view[t] \in Nat /\ view[t] <= time
      <4>1. /\ \A v \in Threads : v # t => rec'[v] = rec[v]
        BY <2>0, <3>0 DEF TypeOK, EventsOutWrite
      <4>2. \A v \in Threads : v # t => todo'[v] = todo[v] /\ view'[v] = view[v]
        BY <2>0, <3>0 DEF TypeOK
      <4>3. todo'[t] = Tail(todo[t]) /\ view'[t] = n /\ view[t] \in Nat /\ view[t] <= time
        BY <2>0, <3>0 DEF TypeOK, ViewPart
      <4> QED
        BY <4>1, <4>2, <4>3
    <3>2. ViewPart(t)'
      <4>1. view[t] <= view'[t] /\ view'[t] <= time'
        BY <2>0, <2>4, <3>1
      <4> HIDE DEF e
      <4> QED
        BY <2>0, <2>4, <3>0, <3>1, <4>1, ViewAppend
    <3>3. ASSUME NEW v \in Threads, v # t PROVE ViewPart(v)'
      <4>1. time <= time' /\ (incremented'[v] # 0 => incremented'[v] = time' + 1)
        BY <2>0, <2>4, <3>3 DEF ViewPart
      <4> QED
        BY <2>0, <3>1, <3>3, <4>1, ViewKept
    <3>4. PhasePart(t)'
      <4>1. \A p, q \in Phases :
              <<p, Head(todo[t]), q>> \in TimeMoves /\ Holds(t, p) => Holds(t, q)'
        BY <2>0, <2>4, <3>0, PhaseRecorded
      <4> QED
        BY <2>0, <2>4, <3>0, <3>1, <4>1, PhaseStep
    <3>5. ASSUME NEW v \in Threads, v # t PROVE PhasePart(v)'
      <4>1. ~Mem(v)
        BY <3>0, <3>5 DEF Mem
      <4> QED
        BY <2>0, <2>1, <2>4, <3>1, <3>5, <4>1, PhaseKept
    <3>6. Ordered'
      <4>1. e.time >= view[t]
        BY <2>0, <2>4, <3>0, <3>1
      <4>2. \/ time' = time
            \/ time' = time + 1 /\ e = [type |-> "State", time |-> time + 1]
        BY <2>4
      <4> HIDE DEF e
      <4> QED
        BY <2>0, <2>4, <3>0, <4>1, <4>2, OrderedAppend
    <3> QED
      BY <3>2, <3>3, <3>4, <3>5, <3>6
  <2>5. CASE enterNotification(t)
    <3>0. /\ todo[t] # <<>> /\ todo' = [todo EXCEPT ![t] = Tail(@)]
          /\ UNCHANGED <<time, owner, ci, incremented, phase>>
          /\ view' = [view EXCEPT ![t] = time]
      BY <2>5 DEF enterNotification, At, Advance
    <3>1. \A p, q \in Phases :
            <<p, Head(todo[t]), q>> \in TimeMoves /\ Holds(t, p) => Holds(t, q)'
      BY <2>0, <2>5, PhaseEnter
    <3>2. CASE view[t] = time
      <4>1. view' = view /\ rec' = rec
        BY <2>0, <2>5, <3>0, <3>2 DEF enterNotification, TypeOK
      <4>2. \A v \in Threads : Mem(v) => Mem(v)'
        BY <3>0 DEF Mem
      <4> QED
        BY <2>2, <3>0, <3>1, <4>1, <4>2
    <3>3. CASE view[t] # time
      <4> DEFINE e == [type |-> "NewProcessTime", time |-> time]
      <4>1. e \in Event /\ e.type # "State" /\ e.time = time /\ EventsOutWrite(t, e)
        BY <2>0, <2>5, <3>3 DEF enterNotification, Event, EventType
      <4>2. view'[t] = time /\ \A v \in Threads : v # t => view'[v] = view[v]
        BY <2>0, <3>0 DEF TypeOK
      <4> HIDE DEF e
      <4> QED
        BY <2>3, <3>0, <3>1, <4>1, <4>2
    <3> QED
      BY <3>2, <3>3
  <2>6. CASE exitPostNotification(t)
    <3>1. /\ todo[t] # <<>> /\ todo' = [todo EXCEPT ![t] = Tail(@)]
          /\ UNCHANGED <<time, view, incremented, rec, phase>>
      BY <2>6 DEF exitPostNotification, At, Advance
    <3>2. \A v \in Threads : v # t => ci'[v] = ci[v] /\ (Mem(v) => Mem(v)')
      BY <2>0, <2>6, MutexNames DEF exitPostNotification, TypeOK, Mem
    <3>3. \A p, q \in Phases :
            <<p, Head(todo[t]), q>> \in TimeMoves /\ Holds(t, p) => Holds(t, q)'
      BY <2>0, <2>6, PhaseExit
    <3> QED
      BY <2>2, <3>1, <3>2, <3>3
  <2>7. CASE acquireLock(t)
    <3>1. /\ todo[t] # <<>> /\ todo' = [todo EXCEPT ![t] = Tail(@)]
          /\ UNCHANGED <<time, view, ci, incremented, rec, phase>>
      BY <2>7 DEF acquireLock, At, Advance
    <3>2. \A v \in Threads : v # t => (Mem(v) => Mem(v)')
      <4>1. Head(todo[t]).mutex \in Mutexes /\ "memory" \in Mutexes
        BY <2>0, <2>7, <3>1, Todo, OperationShapes, MutexNames DEF acquireLock, At
      <4> QED
        BY <2>0, <2>7, <4>1 DEF acquireLock, TypeOK, Mem
    <3>3. \A p, q \in Phases :
            <<p, Head(todo[t]), q>> \in TimeMoves /\ Holds(t, p) => Holds(t, q)'
      BY <2>0, <2>7, PhaseAcquire
    <3> QED
      BY <2>2, <3>1, <3>2, <3>3
  <2>8. CASE unlock(t)
    <3>1. /\ todo[t] # <<>> /\ todo' = [todo EXCEPT ![t] = Tail(@)]
          /\ UNCHANGED <<time, view, ci, incremented, rec, phase>>
      BY <2>8 DEF unlock, At, Advance
    <3>2. \A v \in Threads : v # t => (Mem(v) => Mem(v)')
      <4>1. Head(todo[t]).mutex \in Mutexes /\ "memory" \in Mutexes
        BY <2>0, <2>8, <3>1, Todo, OperationShapes, MutexNames DEF unlock, At
      <4>2. Head(todo[t]).mutex = "memory" => Mem(t)
        <5>1. PICK p, q \in Phases : <<p, Head(todo[t]), q>> \in TimeMoves /\ Holds(t, p)
          BY <2>0, <3>1, PhaseHead
        <5>2. Head(todo[t]).op = "unlock"
          BY <2>8 DEF unlock, At
        <5>3. Head(todo[t]).mutex = "memory" => p \in {"held", "ready", "firstHeld"}
          BY <5>1, <5>2, TimeMoveCases
        <5> QED
          BY <5>1, <5>3 DEF Holds
      <4> QED
        BY <2>0, <2>8, <4>1, <4>2 DEF unlock, TypeOK, Mem
    <3>3. \A p, q \in Phases :
            <<p, Head(todo[t]), q>> \in TimeMoves /\ Holds(t, p) => Holds(t, q)'
      BY <2>0, <2>8, PhaseUnlock
    <3> QED
      BY <2>2, <3>1, <3>2, <3>3
  <2>9. CASE writeEvent(t)
    <3> DEFINE e == [type |-> Head(todo[t]).type, time |-> 0]
    <3>1. /\ todo[t] # <<>> /\ todo' = [todo EXCEPT ![t] = Tail(@)]
          /\ UNCHANGED <<time, owner, view, ci, incremented, phase>>
          /\ EventsOutWrite(t, e) /\ Head(todo[t]).op = "write"
      BY <2>9 DEF writeEvent, At, Advance
    <3>2. \A p, q \in Phases :
            <<p, Head(todo[t]), q>> \in TimeMoves /\ Holds(t, p) => Holds(t, q)'
      BY <2>0, <2>9, PhaseWrite
    <3>3. e \in Event /\ e.type # "State" /\ ~hasProcessTime(e)
      <4>1. PICK p, q \in Phases : <<p, Head(todo[t]), q>> \in TimeMoves
        BY <2>0, <3>1, PhaseHead
      <4>2. Head(todo[t]).type \in {"Alloca", "KnownRegion", "Instruction"}
        BY <3>1, <4>1, TimeMoveCases
      <4> QED
        BY <4>2 DEF Event, EventType, hasProcessTime
    <3> HIDE DEF e
    <3> QED
      BY <2>3, <3>1, <3>2, <3>3
  <2>10. CASE incrementThreadTime(t)
    <3> DEFINE e == [type |-> "Instruction", time |-> 0]
    <3>1. /\ todo[t] # <<>> /\ todo' = [todo EXCEPT ![t] = Tail(@)]
          /\ UNCHANGED <<time, owner, view, incremented, phase>>
          /\ EventsOutWrite(t, e) /\ \A v \in Threads : v # t => ci'[v] = ci[v]
      BY <2>0, <2>10 DEF incrementThreadTime, At, Advance, TypeOK
    <3>2. \A p, q \in Phases :
            <<p, Head(todo[t]), q>> \in TimeMoves /\ Holds(t, p) => Holds(t, q)'
      BY <2>0, <2>10, PhaseThreadTime
    <3>3. e \in Event /\ e.type # "State" /\ ~hasProcessTime(e)
      BY DEF Event, EventType, hasProcessTime
    <3> HIDE DEF e
    <3> QED
      BY <2>3, <3>1, <3>2, <3>3
  <2>11. CASE LoadTime(t)
    <3>1. /\ UNCHANGED <<time, owner, view, ci, rec, todo, phase>>
          /\ incremented' = [incremented EXCEPT ![t] = time + 1]
      BY <2>11 DEF LoadTime
    <3>2. ASSUME NEW v \in Threads PROVE ViewPart(v)'
      BY <2>0, <3>1 DEF ViewPart, TypeOK
    <3>3. ASSUME NEW v \in Threads PROVE PhasePart(v)'
      BY <2>0, <3>1 DEF PhasePart, End, Holds, Mem, Ready, Alone, TimeIsOf
    <3> QED
      BY <2>0, <3>1, <3>2, <3>3, OrderedKept
  <2>12. CASE StoreTime(t)
    <3>0. AtRecord(t) /\ ci[t] = 0 /\ incremented[t] = time + 1
      BY <2>0, <2>12 DEF StoreTime, ControlOK, ViewPart
    <3>1. Mem(t) /\ Ready(t)
      BY <2>0, <3>0, RecordsReady
    <3>2. \A v \in Threads : v # t => incremented[v] = 0
      <4> SUFFICES ASSUME NEW v \in Threads, v # t, incremented[v] # 0 PROVE FALSE
        OBVIOUS
      <4>1. Mem(v)
        BY <2>0, RecordsReady DEF ControlOK
      <4> QED
        BY <3>1, <4>1 DEF Mem
    <3>3. /\ RecordAt(t, time + 1) /\ UNCHANGED <<owner, phase>> /\ time' = time + 1
          /\ ci'[t] = time + 1 /\ incremented'[t] = 0
          /\ \A v \in Threads : v # t => ci'[v] = ci[v] /\ incremented'[v] = incremented[v]
      BY <2>0, <2>12, <3>0 DEF StoreTime, TypeOK
    <3>4. Follows(rec[t], time + 1) /\ TimeIsOf(t, time + 1)
      BY <2>0, <3>1, NewTimeIsOf DEF Ready
    <3>5. time + 1 \in Nat /\ time + 1 # 0
      BY <2>0
    <3> QED
      BY <2>4, <3>0, <3>2, <3>3, <3>4, <3>5
  <2>13. CASE recordState(t)
    <3>0. AtRecord(t) /\ ci[t] # 0
      BY <2>13 DEF recordState
    <3>1. ci[t] = time /\ Follows(rec[t], time) /\ TimeIsOf(t, time)
      BY <2>0, <3>0, RecordsReady DEF Ready
    <3>2. /\ RecordAt(t, time) /\ UNCHANGED <<time, owner, ci, incremented, phase>>
      BY <2>13, <3>1 DEF recordState
    <3>3. incremented[t] = 0
      BY <2>0, <3>0 DEF ControlOK
    <3> QED
      BY <2>0, <2>4, <3>0, <3>1, <3>2, <3>3
  <2>14. CASE recordNothing(t)
    <3>1. /\ todo[t] # <<>> /\ Head(todo[t]).op = "recordArea"
          /\ todo' = [todo EXCEPT ![t] = Tail(@)]
          /\ UNCHANGED <<time, owner, view, ci, incremented, rec, phase>>
      BY <2>14 DEF recordNothing, At, Advance
    <3>2. \A p, q \in Phases :
            <<p, Head(todo[t]), q>> \in TimeMoves /\ Holds(t, p) => Holds(t, q)'
      BY <3>1, TimeMoveCases, PhaseSame
    <3>3. \A v \in Threads : Mem(v) => Mem(v)'
      BY <3>1 DEF Mem
    <3> QED
      BY <2>2, <3>1, <3>2, <3>3
  <2>15. CASE joinThread(t)
    <3>1. /\ todo[t] # <<>> /\ Head(todo[t]).op = "join"
          /\ todo' = [todo EXCEPT ![t] = Tail(@)]
          /\ UNCHANGED <<time, owner, view, ci, incremented, rec, phase>>
      BY <2>15 DEF joinThread, At, Advance
    <3>2. \A p, q \in Phases :
            <<p, Head(todo[t]), q>> \in TimeMoves /\ Holds(t, p) => Holds(t, q)'
      BY <3>1, TimeMoveCases, PhaseSame
    <3>3. \A v \in Threads : Mem(v) => Mem(v)'
      BY <3>1 DEF Mem
    <3> QED
      BY <2>2, <3>1, <3>2, <3>3
  <2>16. CASE createThread(t)
    <3>1. PICK u \in Threads :
            /\ phase[u] = "none" /\ phase' = [phase EXCEPT ![u] = "running"]
            /\ todo' = [todo EXCEPT ![t] = Tail(@), ![u] = notifyFunctionBegin(u)]
      BY <2>16 DEF createThread
    <3>2. /\ todo[t] # <<>> /\ Head(todo[t]).op = "create" /\ u # t /\ u # Main
          /\ todo[u] = <<>> /\ UNCHANGED <<time, owner, view, ci, incremented, rec>>
      BY <2>0, <2>16, <3>1 DEF createThread, At, ControlOK
    <3>3. /\ todo'[t] = Tail(todo[t]) /\ todo'[u] = notifyFunctionBegin(u)
          /\ phase'[u] = "running"
          /\ \A v \in Threads : v # u => phase'[v] = phase[v]
          /\ \A v \in Threads : v # u /\ v # t => todo'[v] = todo[v]
      BY <2>0, <3>1, <3>2 DEF TypeOK
    <3>4. PhasePart(t)'
      <4>1. \A p, q \in Phases :
              <<p, Head(todo[t]), q>> \in TimeMoves /\ Holds(t, p) => Holds(t, q)'
        BY <3>2, TimeMoveCases, PhaseSame
      <4> QED
        BY <2>0, <3>2, <3>3, <4>1, PhaseStep
    <3>5. PhasePart(u)'
      <4>1. ci[u] = 0
        BY <2>0, <3>1, <3>2, PhaseAtEnd
      <4>2. Holds(u, "free")' /\ End(u)' = "free"
        BY <3>2, <3>3, <4>1 DEF Holds, End
      <4> QED
        BY <3>2, <3>3, <4>2, TimeBegin DEF PhasePart, Phases
    <3>6. ASSUME NEW v \in Threads, v # t, v # u PROVE PhasePart(v)'
      <4>1. Mem(v) => Mem(v)'
        BY <3>2 DEF Mem
      <4> QED
        BY <2>0, <2>1, <3>2, <3>3, <3>6, <4>1, PhaseKept
    <3>7. ASSUME NEW v \in Threads PROVE ViewPart(v)'
      BY <2>0, <3>2 DEF ViewPart
    <3> QED
      BY <2>0, <3>2, <3>4, <3>5, <3>6, <3>7, OrderedKept
  <2>17. ASSUME todo[t] = <<>>, phase[t] = "running", NEW s, todo' = [todo EXCEPT ![t] = s],
                UNCHANGED <<time, owner, view, ci, incremented, rec>>,
                \A v \in Threads : v # t => phase'[v] = phase[v],
                Trail(TimeMoves, s, "free", End(t)')
         PROVE  Goal
    <3>1. PhasePart(t)'
      <4>1. ci[t] = 0 /\ todo'[t] = s
        BY <2>0, <2>17, PhaseAtEnd DEF TypeOK
      <4>2. Holds(t, "free")'
        BY <2>17, <4>1 DEF Holds
      <4> QED
        BY <2>17, <4>1, <4>2 DEF PhasePart, Phases
    <3>2. ASSUME NEW v \in Threads, v # t PROVE PhasePart(v)'
      <4>1. todo'[v] = todo[v] /\ (Mem(v) => Mem(v)')
        BY <2>0, <2>17, <3>2 DEF TypeOK, Mem
      <4> QED
        BY <2>0, <2>1, <2>17, <3>2, <4>1, PhaseKept
    <3>3. ASSUME NEW v \in Threads PROVE ViewPart(v)'
      BY <2>0, <2>17 DEF ViewPart
    <3> QED
      BY <2>0, <2>17, <3>1, <3>2, <3>3, OrderedKept
  <2>18. ASSUME NEW k \in program, BeginInstruction(t, k) PROVE Goal
    <3>1. k \in DOMAIN Code /\ k \notin UnlockedTimes \cup LateTimes
      BY <2>0, RecorderAssumption DEF ControlOK, TimesAreLocked
    <3>2. /\ todo[t] = <<>> /\ phase[t] = "running" /\ todo' = [todo EXCEPT ![t] = Code[k]]
          /\ UNCHANGED <<time, owner, view, ci, incremented, rec, phase>>
      BY <2>18 DEF BeginInstruction
    <3>3. Trail(TimeMoves, Code[k], "free", End(t)')
      BY <3>1, <3>2, TimesOfCode DEF End
    <3> QED
      BY <2>17, <3>2, <3>3
  <2>19. CASE Return(t)
    <3>1. /\ todo[t] = <<>> /\ phase[t] = "running"
          /\ todo' = [todo EXCEPT ![t] = notifyFunctionEnd(1)]
          /\ UNCHANGED <<time, owner, view, ci, incremented, rec>>
      BY <2>19 DEF Return
    <3>2. phase'[t] = "returned" /\ \A v \in Threads : v # t => phase'[v] = phase[v]
      BY <2>0, <2>19 DEF Return, TypeOK
    <3>3. Trail(TimeMoves, notifyFunctionEnd(1), "free", End(t)')
      BY <3>2, TimeEnd DEF End
    <3> QED
      BY <2>17, <3>1, <3>2, <3>3
  <2> QED
    BY <1>1, <2>5, <2>6, <2>7, <2>8, <2>9, <2>10, <2>11, <2>12, <2>13, <2>14, <2>15, <2>16,
       <2>18, <2>19 DEF ThreadStep, Operation
<1>2. CASE UNCHANGED vars
  <2>1. (\A v \in Threads : PhasePart(v) /\ ViewPart(v)) /\ Ordered
    BY <1>2 DEF vars, OrderInv, TimesAreLocked
  <2> QED
    BY <1>2, <2>1, OrderedKept
       DEF vars, PhasePart, ViewPart, End, Holds, Mem, Ready, Alone, TimeIsOf
<1> QED
  BY <1>1, <1>2 DEF Next, Ended

(***************************************************************************)
(* What is recorded can be replayed: for any number of threads, and for any  *)
(* program that makes none of the calls of UnlockedTimes and LateTimes, the  *)
(* recorded events are in the order that replay needs (the hypothesis        *)
(* RecordingsInOrder of the theorems about StateMovement), every process     *)
(* time is that of an event, and the times of a thread do not go back.       *)
(***************************************************************************)
THEOREM RecordingIsOrdered == Spec => []RecordedInOrder
<1>1. Base /\ OrderInv => RecordedInOrder
  BY DEF Base, OrderInv, Ordered, RecordedInOrder
<1>2. Init => Base /\ OrderInv
  BY BaseInit, OrderInit
<1>3. Base /\ OrderInv /\ [Next]_vars => (Base /\ OrderInv)'
  BY BaseNext, OrderNext
<1> QED
  BY <1>1, <1>2, <1>3, PTL DEF Spec

=============================================================================
