-------------------------- MODULE ReversibleMemory --------------------------
(***************************************************************************)
(* What the recreated memory promises: a map from start addresses to the    *)
(* bytes of allocations, changed by the memory events of a recording, every *)
(* change of which can be taken back in reverse order.                      *)
(***************************************************************************)
EXTENDS Integers, Sequences, SequencesExt, FiniteSetsExt

CONSTANTS
  Addresses,     \* start addresses, a finite set of numbers
  MaxSize,       \* the largest size of an allocation
  Values,        \* the values of initialized bytes
  Uninit         \* the state of a byte that is not initialized

VARIABLES
  mem,           \* the current allocations: start address -> bytes
  past           \* the states to return to, the latest last

Sizes == 0..MaxSize
Bytes == UNION {[1..n -> Values] : n \in 1..MaxSize}

-----------------------------------------------------------------------------
\* The allocation that holds the n bytes from address a on, if there is one.
Holds(m, s, a, n) == s <= a /\ a + n <= s + Len(m[s])
IsAllocated(m, a, n) == \E s \in DOMAIN m : Holds(m, s, a, n)
StartOf(m, a, n) == CHOOSE s \in DOMAIN m : Holds(m, s, a, n)

\* No current allocation meets the n bytes from address a on.
IsFree(m, a, n) == \A s \in DOMAIN m : a + n <= s \/ s + Len(m[s]) <= a

\* The bytes of m from a on, and m with other bytes from a on.
BytesAt(m, a, n) ==
  LET s == StartOf(m, a, n) IN SubSeq(m[s], a - s + 1, a - s + n)

Overlay(seq, offset, part) ==
  [i \in DOMAIN seq |-> IF i - offset \in DOMAIN part THEN part[i - offset] ELSE seq[i]]

PutBytes(m, a, part) ==
  LET s == StartOf(m, a, Len(part))
  IN  [m EXCEPT ![s] = Overlay(@, a - s, part)]

Nothing(n) == [i \in 1..n |-> Uninit]

With(m, a, bytes) == [s \in DOMAIN m \cup {a} |-> IF s = a THEN bytes ELSE m[s]]
Without(m, a)     == [s \in DOMAIN m \ {a} |-> m[s]]

-----------------------------------------------------------------------------
Change(m) == mem' = m /\ past' = Append(past, mem)

\* Allocations of size zero take no room.
Allocate(a, n) ==
  /\ IsFree(mem, a, n)
  /\ Change(IF n = 0 THEN mem ELSE With(mem, a, Nothing(n)))

Release(a, n) ==
  /\ n # 0 => a \in DOMAIN mem /\ Len(mem[a]) = n
  /\ Change(IF n = 0 THEN mem ELSE Without(mem, a))

\* The common part keeps its bytes.
Resize(a, n) ==
  /\ a \in DOMAIN mem
  /\ Change(With(mem, a, [i \in 1..n |-> IF i <= Len(mem[a]) THEN mem[a][i] ELSE Uninit]))

Write(a, bytes) == IsAllocated(mem, a, Len(bytes)) /\ Change(PutBytes(mem, a, bytes))

Copy(from, to, n) ==
  /\ IsAllocated(mem, from, n) /\ IsAllocated(mem, to, n)
  /\ Change(PutBytes(mem, to, BytesAt(mem, from, n)))

\* Clearing what is not allocated has no effect.
Clear(a, n) ==
  Change(IF IsAllocated(mem, a, n) THEN PutBytes(mem, a, Nothing(n)) ELSE mem)

Rewind ==
  /\ past # <<>>
  /\ mem' = Last(past)
  /\ past' = Front(past)

Init == mem = <<>> /\ past = <<>>

Next ==
  \/ \E a \in Addresses, n \in Sizes :
       \/ Allocate(a, n)
       \/ Release(a, n)
       \/ n > 0 /\ (Resize(a, n) \/ Clear(a, n))
  \/ \E a \in Addresses, bytes \in Bytes : Write(a, bytes)
  \/ \E from, to \in Addresses, n \in 1..MaxSize : Copy(from, to, n)
  \/ Rewind

Spec == Init /\ [][Next]_<<mem, past>>

=============================================================================
