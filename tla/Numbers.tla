------------------------------- MODULE Numbers -------------------------------
(***************************************************************************)
(* Arithmetic of the kernel and of libc: division of 64-bit integers in    *)
(* four digits (kernel/util/math.c, and the same code in libc/quad.c),     *)
(* log2 (math.c) and strtol (libc/strtol.c).  A digit has BITS bits, an    *)
(* unsigned long two digits and a quad four, 16, 32 and 64 bits in the     *)
(* code: all operations wrap at these widths.                              *)
(***************************************************************************)
EXTENDS Integers, Sequences, SequencesExt

CONSTANTS BITS,      \* HALF_BITS
          Text,      \* the strings given to strtol, as sequences of characters
          Base       \* the bases it is called with

VARIABLES in, out    \* an operation with its arguments, and what it returned

B        == 2 ^ BITS
LONG     == B * B
QUAD     == LONG * LONG
HHALF(x) == x \div B
LHALF(x) == x % B
COMBINE(a, b) == ((a * B) % LONG) + b

\* <<0, d1, d2, d3, d4>> as a function of 0 .. 4: the digits of a quad.
Digits(x)   == [i \in 0 .. 4 |-> (x \div B ^ (4 - i)) % B]
Value(s)    == COMBINE(s[1], s[2]) * LONG + COMBINE(s[3], s[4])
Downto(n)   == [k \in 1 .. n |-> n + 1 - k]
FirstDigit(s) == CHOOSE i \in 1 .. 4 : s[i] # 0 /\ \A k \in 1 .. i - 1 : s[k] = 0

-----------------------------------------------------------------------------
(* Division.                                                               *)

\* Digits at .. at + len of p, shifted left.
shl(p, at, len, sh) ==
    [i \in DOMAIN p |->
        IF i < at \/ i > at + len THEN p[i]
        ELSE LHALF(p[i] * 2 ^ sh)
             + (IF i < at + len THEN p[i + 1] \div 2 ^ (BITS - sh) ELSE 0)]

\* D3: the estimate of a digit of the quotient.
RECURSIVE Estimate(_, _, _, _, _)
TooBig(qhat, rhat, v1, v2, uj2) ==
    IF rhat + v1 >= B THEN qhat - 1 ELSE Estimate(qhat - 1, rhat + v1, v1, v2, uj2)
Estimate(qhat, rhat, v1, v2, uj2) ==
    IF (v2 * qhat) % LONG > COMBINE(rhat, uj2) THEN TooBig(qhat, rhat, v1, v2, uj2) ELSE qhat

\* D4: u[j .. j+n] less qhat times v; t is what is borrowed.
SubtractLow(s, k, t) == [u |-> [s.u EXCEPT ![k] = LHALF(t)], t |-> (B - HHALF(t)) % B]
SubtractHigh(s, j, t) == [u |-> [s.u EXCEPT ![j] = LHALF(t)], t |-> t]
SubtractTop(s, j) == SubtractHigh(s, j, (s.u[j] - s.t) % LONG)
Subtract(u, v, j, n, qhat) ==
    SubtractTop(FoldLeft(LAMBDA s, i :
                           SubtractLow(s, i + j, (s.u[i + j] - v[i] * qhat - s.t) % LONG),
                         [u |-> u, t |-> 0], Downto(n)), j)

\* D6: v is added back, once, if the estimate was one too large.
AddLow(s, k, t) == [u |-> [s.u EXCEPT ![k] = LHALF(t)], t |-> HHALF(t)]
AddTop(s, j) == [s.u EXCEPT ![j] = LHALF(@ + s.t)]
(* Mutant: an estimate that was too large is left.                         *)
AddNothing(u, v, j, n) == u

AddBack(u, v, j, n) ==
    AddTop(FoldLeft(LAMBDA s, i : AddLow(s, i + j, (s.t + s.u[i + j] + v[i]) % LONG),
                    [u |-> u, t |-> 0], Downto(n)), j)

\* The digits of u and of v from where they start: u[0] is the zero before it.
Guess(u, j, v, nn) ==
    IF u[j] = v[1] THEN TooBig(B, u[j + 1], v[1], v[2], u[j + 2])
    ELSE Estimate(nn \div v[1], nn % v[1], v[1], v[2], u[j + 2])
Corrected(s, sub, j, n, v, qhat) ==
    IF HHALF(sub.t) # 0
      THEN [u |-> AddBack(sub.u, v, j, n), q |-> Append(s.q, qhat - 1)]
      ELSE [u |-> sub.u, q |-> Append(s.q, qhat)]
WithGuess(s, j, n, v, qhat) == Corrected(s, Subtract(s.u, v, j, n, qhat), j, n, v, qhat)
Digit(s, j, n, v) ==
    WithGuess(s, j, n, v, Guess(s.u, j, v, COMBINE(s.u[j], s.u[j + 1])))

\* Divisors of one digit: long division, unrolled.
Short(u, t) ==
    FoldLeft(LAMBDA s, i : LET rbj == COMBINE(s.rem, u[i])
                           IN [quo |-> s.quo * B + rbj \div t, rem |-> rbj % t],
             [quo |-> 0, rem |-> 0], <<1, 2, 3, 4>>)

\* D8: the remainder is shifted back.
ShiftBack(u, m, d) ==
    IF d = 0 THEN u
    ELSE [i \in DOMAIN u |->
            IF i < m THEN u[i] ELSE IF i = m THEN 0
            ELSE u[i] \div 2 ^ d + LHALF(u[i - 1] * 2 ^ (BITS - d))]

LongResult(us, off, m, end, r) ==
    [quo |-> Value([i \in 1 .. 4 |-> IF i < 4 - m THEN 0 ELSE end.q[i - 3 + m]]),
     rem |-> Value([i \in 1 .. 4 |-> IF i < off THEN us[i] ELSE r[i - off]])]
LongEnd(us, off, m, d, end) == LongResult(us, off, m, end, ShiftBack(end.u, m, d))

\* D1 shifts both so that the divisor's first digit has its top bit set (by 0
\* places: not at all).
LongBy(us, vs, n, off, m, d) ==
    LongEnd(us, off, m, d,
      FoldLeft(LAMBDA s, j : Digit(s, j, n, shl([i \in 1 .. n |-> vs[i + 4 - n]], 1, n - 1, d)),
               [u |-> shl([i \in 0 .. m + n |-> us[i + off]], 0, m + n, d), q |-> <<>>],
               [k \in 1 .. m + 1 |-> k - 1]))
Shift(x) == CHOOSE k \in 0 .. BITS : x * 2 ^ k \in (B \div 2) .. B - 1
LongOf(us, vs, n, off) == LongBy(us, vs, n, off, 4 - n - off, Shift(vs[5 - n]))
LongDigits(us, vs) == LongOf(us, vs, 5 - FirstDigit(vs), FirstDigit(us) - 1)
Long(uq, vq) == LongDigits(Digits(uq), Digits(vq))

qdivrem(uq, vq) ==
    IF uq < vq THEN [quo |-> 0, rem |-> uq]
    ELSE IF FirstDigit(Digits(vq)) = 4 THEN Short(Digits(uq), Digits(vq)[4])
    ELSE Long(uq, vq)

Signed(x) == IF x >= QUAD \div 2 THEN x - QUAD ELSE x
udivdi3(a, b) == qdivrem(a, b).quo
umoddi3(a, b) == qdivrem(a, b).rem
Negate(uq, neg) == Signed(IF neg THEN (-uq) % QUAD ELSE uq)
Unsigned(x)     == IF x < 0 THEN (-x) % QUAD ELSE x
divdi3(a, b)    == Negate(qdivrem(Unsigned(a), Unsigned(b)).quo, (a < 0) # (b < 0))

-----------------------------------------------------------------------------
(* log2 and strtol.                                                        *)

\* The shifts to reach zero; one less for a power of two.
Shifts(x) ==
    CHOOSE k \in 0 .. BITS * 4 : x \div 2 ^ k = 0 /\ (k = 0 \/ x \div 2 ^ (k - 1) # 0)
Log(x, result) == IF (2 ^ result) \div 2 = x THEN result - 1 ELSE result
log2(x) == Log(x, Shifts(x))

LONG_MAX == LONG \div 2 - 1
DigitOf  == [c \in {"0", "1", "2", "7", "9", "a", "F", "x", "z"} |->
              CASE c = "0" -> 0 [] c = "1" -> 1 [] c = "2" -> 2 [] c = "7" -> 7
                [] c = "9" -> 9 [] c = "a" -> 10 [] c = "F" -> 15 [] c = "x" -> 33 [] OTHER -> 35]
IsDigit(s, i, base) == i <= Len(s) /\ s[i] \in DOMAIN DigitOf /\ DigitOf[s[i]] < base

\* Where the digits start, the sign and the base after a prefix 0x or 0.
Prefixed(s, base, at, neg, hex) ==
    [neg |-> neg, at |-> IF hex THEN at + 2 ELSE at,
     base |-> IF hex THEN 16 ELSE IF base # 0 THEN base
              ELSE IF at <= Len(s) /\ s[at] = "0" THEN 8 ELSE 10]
IsHex(s, base, at) ==
    /\ base \in {0, 16} /\ at + 1 <= Len(s)
    /\ s[at] = "0" /\ s[at + 1] = "x" /\ IsDigit(s, at + 2, 16)
AfterSign(s, base, at, neg) == Prefixed(s, base, at, neg, IsHex(s, base, at))
AfterBlanks(s, base, at) ==
    IF at <= Len(s) /\ s[at] \in {"-", "+"} THEN AfterSign(s, base, at + 1, s[at] = "-")
                                           ELSE AfterSign(s, base, at, FALSE)
Prefix(s, base) == AfterBlanks(s, base, SelectInSeq(Append(s, "end"), LAMBDA c : c # " "))

RECURSIVE Accumulate(_, _, _, _, _, _)
Accumulate(s, i, p, cut, acc, any) ==
    IF ~ IsDigit(s, i, p.base) THEN [acc |-> acc, any |-> any, end |-> i]
    ELSE IF any < 0 \/ acc > cut \div p.base
            \/ (acc = cut \div p.base /\ DigitOf[s[i]] > cut % p.base)
           THEN Accumulate(s, i + 1, p, cut, acc, -1)
           ELSE Accumulate(s, i + 1, p, cut, acc * p.base + DigitOf[s[i]], 1)

\* The value, errno and the place of the first character not taken.
StrtolResult(p, a) ==
    IF p.base < 2 \/ p.base > 36 \/ a.any = 0 THEN [val |-> 0, errno |-> "EINVAL", end |-> 1]
    ELSE IF a.any < 0 THEN [val |-> IF p.neg THEN - LONG_MAX - 1 ELSE LONG_MAX,
                            errno |-> "ERANGE", end |-> a.end]
    ELSE [val |-> IF p.neg THEN - a.acc ELSE a.acc, errno |-> "", end |-> a.end]
Parsed(s, p) ==
    StrtolResult(p, Accumulate(s, p.at, p, IF p.neg THEN LONG_MAX + 1 ELSE LONG_MAX, 0, 0))
strtol(s, base) == Parsed(s, Prefix(s, base))

-----------------------------------------------------------------------------
NumbersInit == in = <<"none">> /\ out = <<>>

Divide == \E a \in 0 .. QUAD - 1, b \in 1 .. QUAD - 1 :
            in' = <<"/", a, b>> /\ out' = <<udivdi3(a, b), umoddi3(a, b)>>
DivideSigned == \E a \in - (QUAD \div 2) .. QUAD \div 2 - 1, b \in - (QUAD \div 2) .. QUAD \div 2 - 1 :
            b # 0 /\ in' = <<"s/", a, b>> /\ out' = <<divdi3(a, b)>>
Log2   == \E x \in 1 .. QUAD \div 2 - 1 : in' = <<"log2", x>> /\ out' = <<log2(x)>>
Strtol == \E s \in Text, base \in Base : in' = <<"strtol", s, base>> /\ out' = <<strtol(s, base)>>

NumbersNext == in[1] = "none" /\ (Divide \/ DivideSigned \/ Log2 \/ Strtol)
NumbersSpec == NumbersInit /\ [][NumbersNext]_<<in, out>>

-----------------------------------------------------------------------------
(* Properties.                                                             *)

Abs(x) == IF x < 0 THEN - x ELSE x

\* Division gives the quotient and the remainder, whatever the lengths of the
\* operands, with and without the corrections of steps D3 and D6; a signed
\* quotient is cut towards zero, and only the one that does not fit wraps;
\* log2 is the logarithm, rounded up.
ArithmeticIsRight ==
    /\ in[1] = "/" => /\ out[1] * in[3] + out[2] = in[2]
                      /\ out[2] \in 0 .. in[3] - 1
    /\ in[1] = "s/" =>
         LET q == Abs(in[2]) \div Abs(in[3])
         IN out[1] = IF (in[2] < 0) # (in[3] < 0) THEN - q
                     ELSE IF q = QUAD \div 2 THEN - q ELSE q
    /\ in[1] = "log2" => 2 ^ out[1] >= in[2] /\ (out[1] > 0 => 2 ^ (out[1] - 1) < in[2])

\* The digits of s from i to j, as a number without bound.
Number(s, i, j, base) == FoldLeft(LAMBDA n, c : n * base + DigitOf[c], 0, SubSeq(s, i, j))

\* strtol takes all the digits and no other character; it gives their value
\* when it fits a long, and the nearest long and ERANGE exactly when not.
StrtolIsRight ==
    in[1] = "strtol" =>
      LET s == in[2] r == out[1]
          p == Prefix(s, in[3])
          n == Number(s, p.at, r.end - 1, p.base)
          v == IF p.neg THEN - n ELSE n
      IN /\ r.errno = "EINVAL" <=> p.base = 1 \/ ~ IsDigit(s, p.at, p.base)
         /\ r.errno # "EINVAL" =>
              /\ r.end > p.at /\ ~ IsDigit(s, r.end, p.base)
              /\ r.errno = "ERANGE" <=> v \notin - LONG_MAX - 1 .. LONG_MAX
              /\ r.errno = "" => r.val = v
              /\ r.errno = "ERANGE" => r.val = IF v < 0 THEN - LONG_MAX - 1 ELSE LONG_MAX
=============================================================================
