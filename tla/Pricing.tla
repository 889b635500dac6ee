------------------------------- MODULE Pricing -------------------------------
(***************************************************************************)
(* The arithmetic of money: what a seller is paid for a price              *)
(* (calculateSellerPayout), how an amount that includes GST is split, how  *)
(* the delivery fee of an order is shared by its invoices, and how an      *)
(* amount is cut into the words of a tax invoice.                          *)
(*                                                                         *)
(* Amounts are whole paise.  An amount before rounding is a fraction, kept *)
(* as its numerator over Scale or Fine: the code computes it in floating   *)
(* point, whose own error, far below a paisa, is left out.                 *)
(***************************************************************************)
EXTENDS Integers

\* roundInr: n / d to the nearest paisa, a half upwards.
RoundInr(n, d) == (2 * n + d) \div (2 * d)

(***************************************************************************)
(* calculateSellerPayout, for a price and a logistics base in paise.       *)
(***************************************************************************)
Scale == 10000
Fine == 1000 * Scale

\* 2% of the price and 75 rupees, the base, each with 18% GST.
GatewayGst(price) == 36 * price
Gateway(price) == 200 * price + GatewayGst(price)
LogisticsGst(base) == 1800 * base
Logistics(base) == Scale * base + LogisticsGst(base)

\* What gateway and logistics leave of the price; negative when they exceed it.
Remainder(price, base) == Scale * price - Gateway(price) - Logistics(base)

\* 5% of the remainder and 18% GST on that, over Fine.
CommissionGst(price, base, waiver) == IF waiver THEN 0 ELSE 9 * Remainder(price, base)
Commission(price, base, waiver) ==
    IF waiver THEN 0 ELSE 50 * Remainder(price, base) + CommissionGst(price, base, waiver)

Net(price, base, waiver) ==
    1000 * Remainder(price, base) - Commission(price, base, waiver)

\* The lines of the breakdown as the seller sees them.
NetSettlement(price, base, waiver) == RoundInr(Net(price, base, waiver), Fine)
GatewayLine(price) == -RoundInr(Gateway(price), Scale)
LogisticsLine(base) == -RoundInr(Logistics(base), Scale)
CommissionLine(price, base, waiver) ==
    IF Commission(price, base, waiver) <= 0 THEN 0
    ELSE -RoundInr(Commission(price, base, waiver), Fine)

\* 0.1% and 0.5% of the net settlement without its 12% GST.
Tds(price, base, waiver) == RoundInr(Net(price, base, waiver), 1120 * Fine)
Tcs(price, base, waiver) == RoundInr(5 * Net(price, base, waiver), 1120 * Fine)

\* The GST on commission, gateway and logistics, and the TCS.
InputGstCredits(price, base, waiver) ==
    LET gst == CommissionGst(price, base, waiver)
               + 1000 * (GatewayGst(price) + LogisticsGst(base))
    IN  RoundInr(1120 * gst + 5 * Net(price, base, waiver), 1120 * Fine)

(***************************************************************************)
(* The tax invoice.                                                        *)
(***************************************************************************)
ShippingGst == 18

\* splitGstInclusive: within a state the tax is halved into CGST and SGST, across states
\* it is IGST.
SplitGst(amount, percent, intra) ==
    LET net == RoundInr(100 * amount, 100 + percent)
        tax == amount - net
        half == RoundInr(tax, 2)
    IN  IF intra THEN [net |-> net, cgst |-> half, sgst |-> tax - half, igst |-> 0]
                 ELSE [net |-> net, cgst |-> 0, sgst |-> 0, igst |-> tax]

TaxOf(split) == split.cgst + split.sgst + split.igst

\* The part of the delivery fee on the invoice of a seller whose lines are subtotal; the
\* code keeps from dividing by less than a rupee.
DeliveryShare(fee, subtotal, total, sellers) ==
    IF sellers = 1 THEN fee
    ELSE RoundInr(fee * subtotal, IF total < 100 THEN 100 ELSE total)

\* amountInWordsInr: whole rupees by crore, lakh and thousand; each part but the last is
\* spoken as a number of two digits.
Words(amount) ==
    LET rupees == RoundInr(amount, 100) IN
    [crore |-> rupees \div 10000000,
     lakh |-> (rupees % 10000000) \div 100000,
     thousand |-> (rupees % 100000) \div 1000,
     hundred |-> rupees % 1000]

\* stateCodeFromPin: one state for each first digit of a PIN, none for 9.
StateOfPin == <<11, 20, 24, 27, 29, 33, 36, 19>>
=============================================================================
