-------------------------------- MODULE Itoa --------------------------------
(***************************************************************************)
(* itoa (lib/wraplib.c), with which bhashmap.c makes the keys of its       *)
(* integer-keyed maps: descriptors are rendered into a buffer of StrLen    *)
(* characters.  A digit stands for its character.                          *)
(*                                                                         *)
(* The function strips the most significant digit until one digit is left, *)
(* but looks for that digit with > 10 where >= 10 is meant.                *)
(***************************************************************************)
EXTENDS Naturals, Sequences

CONSTANTS Input,   \* the integers rendered
          StrLen   \* the characters of the callers' buffer: char str[16]

VARIABLES input,  \* the argument
          left,   \* what is left of it in value
          str,    \* the digits written so far
          pc      \* "loop", "done", or "overrun" once a write missed the buffer

itoaVars == <<input, left, str, pc>>

\* The condition of the loop in _get_order_num.
Further(v) == v > 10

\* Mutant of TopDigit: the digit of the undivided value.
TopDigitUndivided(v) == v % 10

\* The digit left when the loop ends; the loop's condition divided the value.
TopDigit(v) == (v \div 10) % 10

\* _get_order_num: ten to the order it settles on, and the digit there.
OrderNum[v \in Nat] ==
  IF Further(v \div 10)
  THEN [OrderNum[v \div 10] EXCEPT !.power = 10 * @]
  ELSE [power |-> 10, ret |-> TopDigit(v)]

\* The decimal digits of a number.
Decimal[n \in Nat] ==
  IF n < 10 THEN <<n>> ELSE Append(Decimal[n \div 10], n % 10)

\* An int has no more digits than the buffer has characters.
ASSUME ItoaAssumption ==
  /\ Input \subseteq Nat /\ StrLen \in Nat
  /\ \A n \in Input : Len(Decimal[n]) <= StrLen

ItoaInit ==
  /\ input \in Input
  /\ left = input
  /\ str = <<>>
  /\ pc = "loop"

\* str[i] = 48 + digit; what happens after a write past the buffer is not
\* modelled.
Write(digit, after) ==
  \/ /\ Len(str) < StrLen
     /\ str' = Append(str, digit)
     /\ pc' = after
  \/ /\ Len(str) = StrLen
     /\ pc' = "overrun"
     /\ str' = str

\* Mutant of Strip: the order counts from 0.
StripLow ==
  /\ pc = "loop" /\ left >= 10
  /\ LET top == OrderNum[left]
     IN  /\ left' = left - top.ret * (top.power \div 10)
         /\ Write(top.ret, "loop")
  /\ input' = input

\* The body of the loop.
Strip ==
  /\ pc = "loop" /\ left >= 10
  /\ LET top == OrderNum[left]
     IN  /\ left' = left - top.ret * top.power
         /\ Write(top.ret, "loop")
  /\ input' = input

\* The digit after the loop.
LastDigit ==
  /\ pc = "loop" /\ left < 10
  /\ Write(left, "done")
  /\ UNCHANGED <<input, left>>

ItoaNext == Strip \/ LastDigit

ItoaSpec == ItoaInit /\ [][ItoaNext]_itoaVars

-----------------------------------------------------------------------------
\* The decimal digits of a number that are not zero.
NonZeroDigits[n \in Nat] ==
  IF n = 0 THEN <<>>
  ELSE IF n % 10 = 0 THEN NonZeroDigits[n \div 10]
  ELSE Append(NonZeroDigits[n \div 10], n % 10)

\* A one and a zero with at least one digit behind them.
HasTenInside(n) ==
  LET d == Decimal[n]
  IN  \E i \in 1..(Len(d) - 2) : d[i] = 1 /\ d[i + 1] = 0

\* What itoa really computes: the decimal digits without the zeros before the
\* last one.  2005 and 205 are both rendered as 25.
DropsInnerZeros ==
  pc = "done" => str = Append(NonZeroDigits[input \div 10], input % 10)

\* itoa writes past the buffer exactly for the numbers that have the digits 1
\* and 0 in a row before the last digit: at 10 inside the number _get_order_num
\* stops one digit early, finds a zero and strips nothing, for ever.
OverrunsAtTen ==
  /\ pc = "done" => ~HasTenInside(input)
  /\ pc = "overrun" => HasTenInside(input)

\* The key made from a descriptor is its decimal number: it fits the buffer,
\* and no two descriptors have the same key.
RendersDecimal ==
  /\ pc = "done" => str = Decimal[input]
  /\ pc # "overrun"
=============================================================================
