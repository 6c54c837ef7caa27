------------------------------- MODULE ValueText -------------------------------
(***************************************************************************)
(* Scalar values as text (MappedValue.cpp): of what is in memory, and of   *)
(* what an expression was evaluated to.  A text is its form and the number *)
(* or the names it tells.  A byte has BitsPerByte bits; floating point is  *)
(* written in steps of which Finer make one of the sixth decimal.          *)
(***************************************************************************)
EXTENDS Integers, Sequences, FiniteSets

CONSTANTS
    BitsPerByte,
    Finer,       \* steps of floating point within one of the sixth decimal
    Scalars      \* [name -> [class, kind, size, elem, values]]

KindOf == [t \in DOMAIN Scalars |-> Scalars[t].kind]
Bits(t) == Scalars[t].size * BitsPerByte

Text(form, value) == [form |-> form, value |-> value]

SignedKinds == {"char", "schar", "int", "long"}
UnsignedKinds == {"bool", "uchar", "uint"}
FloatKinds == {"float", "double"}

\* The bytes of a number, lowest first, and the number in some bytes.
BytesOf(t, bits) == [k \in 1 .. Scalars[t].size |-> (bits \div 2 ^ (BitsPerByte * (k - 1))) % 2 ^ BitsPerByte]

Unsigned(t, bytes) ==
    LET sum[k \in 0 .. Len(bytes)] ==
            IF k = 0 THEN 0 ELSE sum[k - 1] + bytes[k] * 2 ^ (BitsPerByte * (k - 1))
    IN  sum[Len(bytes)]

Signed(t, bits) == IF bits >= 2 ^ (Bits(t) - 1) THEN bits - 2 ^ Bits(t) ELSE bits

--------------------------------------------------------------------------------
(* A value in memory, on a host that orders bytes as the target does.         *)

BuiltinInMemoryUnsigned(t, bytes) == Text("decimal", Unsigned(t, bytes))

\* std::to_string(): six decimals of a number given in finer steps, the nearest
\* and, halfway, the even one.
SixDecimals(n) ==
    LET down == n \div Finer
        rest == n % Finer
    IN  IF 2 * rest > Finer \/ (2 * rest = Finer /\ down % 2 = 1) THEN (down + 1) * Finer ELSE down * Finer

\* Characters that are not negative are shown as such; of enumerations only the
\* number is shown.
BuiltinInMemory(t, bytes) ==
    LET bits == Unsigned(t, bytes)
    IN  CASE KindOf[t] = "char" -> IF bits < 2 ^ (Bits(t) - 1) THEN Text("character", bits)
                                 ELSE Text("decimal", Signed(t, bits))
          [] KindOf[t] \in (SignedKinds \ {"char"}) -> Text("decimal", Signed(t, bits))
          [] KindOf[t] \in UnsignedKinds \cup {"uint128"} -> Text("decimal", bits)
          [] KindOf[t] \in FloatKinds -> Text("fixed", SixDecimals(Signed(t, bits)))
          [] KindOf[t] = "longdouble" -> Text("shortest", Signed(t, bits))
          [] OTHER -> Text("unsupported", 0)

getScalarValueAsStringInMemory(t, bytes) ==
    CASE Scalars[t].class = "Builtin" -> BuiltinInMemory(t, bytes)
      [] Scalars[t].class \in {"Atomic", "Enum"} -> BuiltinInMemory(Scalars[t].elem, bytes)
      [] Scalars[t].class = "Pointer" -> Text("hexadecimal", Unsigned(t, bytes))
      [] OTHER -> Text("unsupported", 0)

\* ValueByMemoryForScalar::getValueAsStringShort()
MemoryText(t, bytes, initialized) ==
    IF initialized THEN getScalarValueAsStringInMemory(t, bytes) ELSE Text("uninitialized", 0)

--------------------------------------------------------------------------------
(* The value of an expression: what its instruction gave.                     *)

getScalarValueAsAPSInt(t, bits) == IF KindOf[t] \in SignedKinds THEN Signed(t, bits) ELSE bits

BuiltinAtRuntime(t, bits) ==
    CASE KindOf[t] \in SignedKinds \cup UnsignedKinds -> Text("decimal", getScalarValueAsAPSInt(t, bits))
      [] KindOf[t] \in FloatKinds \cup {"longdouble"} -> Text("shortest", Signed(t, bits))
      [] OTHER -> Text("unsupported", 0)

\* All enumerators of the value are named; a value without one is a number.
getScalarValueAsString(t, bits) ==
    LET names == {n \in DOMAIN Scalars[t].values :
                      Scalars[t].values[n] = getScalarValueAsAPSInt(Scalars[t].elem, bits)}
    IN  CASE Scalars[t].class = "Builtin" -> BuiltinAtRuntime(t, bits)
          [] Scalars[t].class = "Atomic" -> BuiltinAtRuntime(Scalars[t].elem, bits)
          [] Scalars[t].class = "Enum" ->
               IF names # {} THEN Text("enumerators", names) ELSE BuiltinAtRuntime(Scalars[t].elem, bits)
          [] Scalars[t].class = "Pointer" -> Text("hexadecimal", bits)
          [] OTHER -> Text("unsupported", 0)

--------------------------------------------------------------------------------
(* Complex values: the parts of one in memory are shown in the long text only. *)

ComplexInMemory(t, real, imag) ==
    [short |-> Text("unsupported", 0),
     full |-> <<BuiltinInMemory(Scalars[t].elem, real), BuiltinInMemory(Scalars[t].elem, imag)>>]

ComplexAtRuntime(t, real, imag) == <<BuiltinAtRuntime(Scalars[t].elem, real), BuiltinAtRuntime(Scalars[t].elem, imag)>>

--------------------------------------------------------------------------------
VARIABLES
    type, bits,   \* an expression that was evaluated, of a scalar type
    stored,       \* whether it was stored into a variable
    texts         \* the texts of the expression and of the variable

textVars == <<type, bits, stored, texts>>

TextInit ==
    /\ type \in DOMAIN Scalars /\ bits \in 0 .. (2 ^ Bits(type) - 1)
    /\ stored = FALSE /\ texts = <<Text("uninitialized", 0)>>

\* An expression is evaluated, and its value is stored.
EvaluateAndStore ==
    /\ ~stored /\ stored' = TRUE
    /\ texts' = IF Scalars[type].class = "Complex"
                THEN LET half == Scalars[type].elem
                         real == bits % 2 ^ Bits(half)
                         imag == bits \div 2 ^ Bits(half)
                     IN  ComplexAtRuntime(type, real, imag)
                           \o ComplexInMemory(type, BytesOf(half, real), BytesOf(half, imag)).full
                ELSE <<getScalarValueAsString(type, bits), MemoryText(type, BytesOf(type, bits), TRUE)>>
    /\ UNCHANGED <<type, bits>>

\* What is left of a number in a text with six decimals: one that is a multiple
\* of their step, at most half a step away.
Rounds(six, n) == six % Finer = 0 /\ 2 * (six - n) \in -Finer .. Finer

\* An expression and the variable that its value was stored into tell the same
\* number, in another form for characters and enumerators; but a float or double
\* is rounded to six decimals in the variable, where a small one is zero.
Agree(a, b) ==
    \/ a.form = b.form /\ a.value = b.value
    \/ {a.form, b.form} = {"character", "decimal"} /\ a.value = b.value
    \/ a.form = "shortest" /\ b.form = "fixed" /\ Rounds(b.value, a.value)
    \/ a.form = "enumerators" /\ b.form \in {"decimal", "character"}
         /\ a.value # {} /\ \A n \in a.value : Scalars[type].values[n] = b.value
    \/ "unsupported" \in {a.form, b.form} /\ KindOf[type] \in {"uint128", "half"}

TextsAgree ==
    stored => IF Scalars[type].class = "Complex"
              THEN Agree(texts[1], texts[3]) /\ Agree(texts[2], texts[4])
              ELSE Agree(texts[1], texts[2])
================================================================================
