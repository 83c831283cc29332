---------------------------- MODULE HalfPrecision ----------------------------
(***************************************************************************)
(* Conversions between f32 and the two half formats (half_precision.rs;    *)
(* kernels.cu has the same on the Device), step by step on bit patterns.   *)
(* A pattern is a number; its sign, exponent and mantissa are read off by  *)
(* division.  The widths are parameters.  bfloat16 has the exponent of f32 *)
(* and fewer bits of mantissa.                                             *)
(***************************************************************************)
EXTENDS Integers, FiniteSets, FiniteSetsExt

CONSTANTS
    WideExponent, WideMantissa, \* f32: 8 and 23
    HalfExponent, HalfMantissa, \* f16: 5 and 10
    BrainMantissa               \* bfloat16: 7

ASSUME WidthsOK ==
    /\ {WideExponent, WideMantissa, HalfExponent, HalfMantissa, BrainMantissa} \subseteq Nat \ {0}
    /\ HalfExponent < WideExponent
    /\ HalfMantissa < WideMantissa /\ BrainMantissa < WideMantissa

\* What a format is made of.
Format(e, m) == [exponent |-> e, mantissa |-> m]
Wide == Format(WideExponent, WideMantissa)
Half == Format(HalfExponent, HalfMantissa)
Brain == Format(WideExponent, BrainMantissa)

Patterns(f) == 0..(2^(1 + f.exponent + f.mantissa) - 1)
Mantissa(f, bits) == bits % 2^f.mantissa
Exponent(f, bits) == (bits \div 2^f.mantissa) % 2^f.exponent
Sign(f, bits) == bits \div 2^(f.mantissa + f.exponent)
Pack(f, sign, exponent, mantissa) ==
    (sign * 2^f.exponent + exponent) * 2^f.mantissa + mantissa

AllOnes(f) == 2^f.exponent - 1
Bias(f) == 2^(f.exponent - 1) - 1
IsNaN(f, bits) == Exponent(f, bits) = AllOnes(f) /\ Mantissa(f, bits) # 0

\* f32 has the subnormals of f16 as normals, and its own are less than half
\* the smallest of those: 10 < 127 - 15.
ASSUME RangesOK == HalfMantissa < Bias(Wide) - Bias(Half)

----------------------------------------------------------------------------
(* The conversions.                                                        *)

\* The bits of mantissa that a half has fewer, and those of bfloat16.
Dropped == WideMantissa - HalfMantissa
BrainDropped == WideMantissa - BrainMantissa

\* Plausible bug: a subnormal counts as if its exponent were 0, not 1.
ExponentFromZero(s) == Bias(Wide) - Bias(Half) - s

\* The exponent of a subnormal whose leading bit is s places too low.
SubnormalExponent(s) == Bias(Wide) - Bias(Half) - s + 1

HalfToWide(bits) ==
    LET exponent == Exponent(Half, bits)
        mantissa == Mantissa(Half, bits)
        \* The shifts until a subnormal's leading bit is where a normal has it.
        s == Min({n \in 0..HalfMantissa : mantissa * 2^n >= 2^HalfMantissa})
    IN  IF exponent = 0 /\ mantissa = 0 THEN Pack(Wide, Sign(Half, bits), 0, 0)
        ELSE IF exponent = 0
        THEN Pack(Wide, Sign(Half, bits), SubnormalExponent(s),
                  ((mantissa * 2^s) % 2^HalfMantissa) * 2^Dropped)
        ELSE Pack(Wide, Sign(Half, bits),
                  IF exponent = AllOnes(Half) THEN AllOnes(Wide) ELSE exponent - Bias(Half) + Bias(Wide),
                  mantissa * 2^Dropped)

BrainToWide(bits) == bits * 2^BrainDropped

\* Plausible bug: ties always go up.
TiesUp(n, shift) ==
    LET half == 2^(shift - 1)
    IN  n \div 2^shift + (IF n % 2^shift >= half THEN 1 ELSE 0)

\* n shifted to the right, to nearest, ties to even.
Rounded(n, shift) ==
    LET half == 2^(shift - 1)
        truncated == n \div 2^shift
        remainder == n % 2^shift
    IN  IF remainder > half \/ (remainder = half /\ truncated % 2 = 1) THEN truncated + 1 ELSE truncated

WideToHalf(bits) ==
    LET sign == Sign(Wide, bits)
        exponent == Exponent(Wide, bits)
        mantissa == Mantissa(Wide, bits)
        unbiased == exponent - Bias(Wide)
        infinity == Pack(Half, sign, AllOnes(Half), 0)
        payload == mantissa \div 2^Dropped
        \* Below the normal halves.
        significand == IF exponent = 0 THEN mantissa ELSE mantissa + 2^WideMantissa
        shift == Dropped + 1 - Bias(Half) - unbiased
        \* A normal half, but for a carry out of its mantissa.
        rounded == Rounded(mantissa, Dropped)
        exponent16 == unbiased + Bias(Half)
    IN  IF exponent = AllOnes(Wide)
        THEN IF mantissa = 0 THEN infinity ELSE infinity + (IF payload = 0 THEN 1 ELSE payload)
        ELSE IF unbiased > Bias(Half) THEN infinity
        ELSE IF unbiased < 1 - Bias(Half)
        THEN IF significand = 0 \/ shift >= 1 + WideExponent + WideMantissa
             THEN Pack(Half, sign, 0, 0)
             ELSE Pack(Half, sign, 0, Rounded(significand, shift))
        ELSE IF rounded = 2^HalfMantissa
        THEN IF exponent16 + 1 >= AllOnes(Half) THEN infinity ELSE Pack(Half, sign, exponent16 + 1, 0)
        ELSE Pack(Half, sign, exponent16, rounded)

WideToBrain(bits) ==
    LET top == bits \div 2^BrainDropped
        bias == 2^(BrainDropped - 1) - 1 + (top % 2)
        mantissa == top % 2^BrainMantissa
    IN  IF IsNaN(Wide, bits)
        THEN Pack(Brain, Sign(Wide, bits), AllOnes(Brain),
                  IF mantissa = 0 THEN 2^(BrainMantissa - 1) ELSE mantissa)
        ELSE ((bits + bias) % 2^(1 + WideExponent + WideMantissa)) \div 2^BrainDropped

----------------------------------------------------------------------------
(* What the patterns stand for: multiples of the smallest f32.             *)

\* The exponent of the smallest number of a format.
Scale(f) == (Bias(Wide) + WideMantissa) - (Bias(f) + f.mantissa)

\* Infinity counts as the number that would come next.
Value(f, bits) ==
    LET exponent == Exponent(f, bits)
        mantissa == Mantissa(f, bits)
    IN  IF exponent = 0 THEN mantissa * 2^Scale(f)
        ELSE (2^f.mantissa + mantissa) * 2^(exponent - 1 + Scale(f))

Distance(m, n) == IF m < n THEN n - m ELSE m - n

\* The patterns of a format that stand for the nearest number; of two, the
\* even one.
Nearest(f, value, sign) ==
    LET patterns == {h \in Patterns(f) : ~IsNaN(f, h) /\ Sign(f, h) = sign}
        d(h) == Distance(Value(f, h), value)
        near == {h \in patterns : \A g \in patterns : d(h) <= d(g)}
    IN  IF Cardinality(near) = 1 THEN near ELSE {h \in near : h % 2 = 0}
=============================================================================
