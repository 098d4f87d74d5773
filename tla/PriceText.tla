----------------------------- MODULE PriceText -----------------------------
(***************************************************************************)
(* formatPrice of the web pages: a price in cents, a number, becomes a     *)
(* text with a point, and a text becomes the number.  A text is its digits *)
(* before the point, whether there is one, and its digits behind it.       *)
(* Prices are whole cents (pay_value is a bigint), so the branch for       *)
(* numbers with a point is left out.                                       *)
(***************************************************************************)
EXTENDS Positional

CONSTANT MaxDigits    \* bound on the digits of a price

ASSUME DigitsAssumption == MaxDigits \in Nat \ {0}

VARIABLE price        \* the digits of a voucher's payValue

Numerals(n) == UNION {[1 .. k -> 0 .. 9] : k \in 1 .. n}

\* A number has no leading zero.
PriceInit == price \in {s \in Numerals(MaxDigits) : Len(s) > 1 => s[1] # 0}

ValueOf(digits) == Value(10, digits)

Text(whole, decimals) == [whole |-> whole, point |-> TRUE, decimals |-> decimals]

\* What the page shows for no value.
Nothing == [whole |-> <<>>, point |-> FALSE, decimals |-> <<>>]

Last2(s) == SubSeq(s, Len(s) - 1, Len(s))

\* Mutant: a single digit is not padded.
NumberToTextUnpadded(s) ==
  CASE ValueOf(s) = 0  -> Nothing
    [] Len(s) \in 1 .. 2 /\ ValueOf(s) # 0 -> Text(<<0>>, s)
    [] OTHER -> Text(SubSeq(s, 1, Len(s) - 2), Last2(s))

NumberToText(s) ==
  CASE ValueOf(s) = 0  -> Nothing
    [] Len(s) = 1 /\ ValueOf(s) # 0 -> Text(<<0>>, <<0>> \o s)
    [] Len(s) = 2 -> Text(<<0>>, s)
    [] OTHER -> Text(SubSeq(s, 1, Len(s) - 2), Last2(s))

\* p, the result, is still empty when its length is asked for: the branch of one decimal, which
\* would append the missing zero, is never taken.
TextToNumber(t) ==
  LET index == IF t.point THEN Len(t.whole) ELSE -1
      p == <<>>
  IN  ValueOf(t.whole \o t.decimals \o
                CASE index < 0 -> <<0, 0>>
                  [] index >= 0 /\ index = Len(p) - 2 -> <<0>>
                  [] OTHER -> <<>>)

-----------------------------------------------------------------------------

(***************************************************************************)
(* The text shown for a price has two digits behind its point, one before  *)
(* it, and read back it is the price (formatPrice, both ways).             *)
(***************************************************************************)
ShownPriceReadsBack ==
  ValueOf(price) > 0 =>
    LET text == NumberToText(price) IN
      /\ Len(text.decimals) = 2 /\ text.whole # <<>>
      /\ TextToNumber(text) = ValueOf(price)
=============================================================================
