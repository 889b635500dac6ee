---------------------------- MODULE LedgerProofs ----------------------------
(***************************************************************************)
(* Theorems about amounts, for every amount: the payout and the invoice,   *)
(* and the parts of BackOffice that keep prices, stocks, lists and pages.  *)
(***************************************************************************)
EXTENDS TallyProofs, Pricing

LEMMA IntervalTo == \A n \in Nat : IsFiniteSet(1..n) /\ Cardinality(1..n) = n
BY IntervalSize

-----------------------------------------------------------------------------
(***************************************************************************)
(* The arithmetic of Pricing, for every amount.                            *)
(***************************************************************************)
\* Rounding is within half a unit of the fraction, the upper half included.
LEMMA RoundInrBounds ==
    ASSUME NEW n \in Int, NEW d \in Int, d > 0
    PROVE  /\ RoundInr(n, d) \in Int
           /\ 2 * d * RoundInr(n, d) <= 2 * n + d
           /\ 2 * n + d < 2 * d * RoundInr(n, d) + 2 * d
  <1>. DEFINE e == 2 * d
              m == 2 * n + d
  <1>1. e \in Int /\ e > 0 /\ m \in Int
    OBVIOUS
  <1>2. m \div e \in Int /\ e * (m \div e) <= m /\ m < e * (m \div e) + e
    BY <1>1, SMT
  <1>. QED
    BY <1>2 DEF RoundInr

\* Rounding keeps the order of two fractions over one denominator.
LEMMA RoundInrMonotone ==
    ASSUME NEW m \in Int, NEW n \in Int, NEW d \in Int, d > 0, m <= n
    PROVE  RoundInr(m, d) <= RoundInr(n, d)
  <1>. DEFINE x == RoundInr(m, d)
              y == RoundInr(n, d)
  <1>1. /\ x \in Int /\ y \in Int
        /\ 2 * d * x <= 2 * m + d
        /\ 2 * n + d < 2 * d * y + 2 * d
    BY RoundInrBounds
  <1>. HIDE DEF x, y
  <1>2. 2 * d * x < 2 * d * (y + 1)
    BY <1>1
  <1>3. x < y + 1
    BY <1>1, <1>2
  <1>. QED
    BY <1>1, <1>3 DEF x, y

-----------------------------------------------------------------------------
(***************************************************************************)
(* The payout.                                                             *)
(***************************************************************************)
LEMMA PayoutTypes ==
    ASSUME NEW price \in Int, NEW base \in Int, NEW waiver \in BOOLEAN
    PROVE  /\ Gateway(price) \in Int /\ Logistics(base) \in Int
           /\ Remainder(price, base) \in Int
           /\ Commission(price, base, waiver) \in Int
           /\ Net(price, base, waiver) \in Int
  BY DEF Gateway, GatewayGst, Logistics, LogisticsGst, Remainder, Commission,
         CommissionGst, Net, Scale

\* The golden values of the test of the calculator: 1846.19 rupees for 2100.
THEOREM GoldenValues ==
    /\ NetSettlement(210000, 7500, FALSE) = 184619
    /\ GatewayLine(210000) = -4956
    /\ LogisticsLine(7500) = -8850
    /\ CommissionLine(210000, 7500, FALSE) = -11575
    /\ Tds(210000, 7500, FALSE) = 165
    /\ Tcs(210000, 7500, FALSE) = 824
    /\ InputGstCredits(210000, 7500, FALSE) = 4696
  BY DEF NetSettlement, GatewayLine, LogisticsLine, CommissionLine, Tds, Tcs,
         InputGstCredits, Net, Gateway, GatewayGst, Logistics, LogisticsGst, Remainder,
         Commission, CommissionGst, RoundInr, Scale, Fine

\* What the seller is told adds up: as long as the price covers gateway and logistics,
\* the price less the three deductions is the net settlement to within two paise, with
\* and without the waiver.
THEOREM LinesAddUp ==
    ASSUME NEW price \in Nat, NEW base \in Nat, NEW waiver \in BOOLEAN,
           Remainder(price, base) >= 0
    PROVE  LET shown == price + GatewayLine(price) + LogisticsLine(base)
                        + CommissionLine(price, base, waiver)
               net == NetSettlement(price, base, waiver)
           IN  shown - net <= 2 /\ net - shown <= 2
  <1>. DEFINE g == RoundInr(Gateway(price), Scale)
              l == RoundInr(Logistics(base), Scale)
              c == RoundInr(Commission(price, base, waiver), Fine)
              n == RoundInr(Net(price, base, waiver), Fine)
  <1>a. Scale \in Int /\ Scale > 0 /\ Fine \in Int /\ Fine > 0
    BY DEF Scale, Fine
  <1>b. /\ price \in Int /\ base \in Int
        /\ Gateway(price) \in Int /\ Logistics(base) \in Int
        /\ Remainder(price, base) \in Int
        /\ Commission(price, base, waiver) \in Int
        /\ Net(price, base, waiver) \in Int
    BY PayoutTypes
  <1>1. /\ g \in Int /\ 2 * Scale * g <= 2 * Gateway(price) + Scale
        /\ 2 * Gateway(price) + Scale < 2 * Scale * g + 2 * Scale
    BY <1>a, <1>b, RoundInrBounds
  <1>2. /\ l \in Int /\ 2 * Scale * l <= 2 * Logistics(base) + Scale
        /\ 2 * Logistics(base) + Scale < 2 * Scale * l + 2 * Scale
    BY <1>a, <1>b, RoundInrBounds
  <1>3. /\ c \in Int /\ 2 * Fine * c <= 2 * Commission(price, base, waiver) + Fine
        /\ 2 * Commission(price, base, waiver) + Fine < 2 * Fine * c + 2 * Fine
    BY <1>a, <1>b, RoundInrBounds
  <1>4. /\ n \in Int /\ 2 * Fine * n <= 2 * Net(price, base, waiver) + Fine
        /\ 2 * Net(price, base, waiver) + Fine < 2 * Fine * n + 2 * Fine
    BY <1>a, <1>b, RoundInrBounds
  <1>5. Commission(price, base, waiver) >= 0
    BY <1>b DEF Commission, CommissionGst
  <1>6. Commission(price, base, waiver) = 0 => c = 0
    BY <1>3 DEF Fine, Scale
  <1>7. CommissionLine(price, base, waiver) = -c
    BY <1>3, <1>5, <1>6, <1>b DEF CommissionLine
  <1>8. Net(price, base, waiver) =
          Fine * price - 1000 * Gateway(price) - 1000 * Logistics(base)
          - Commission(price, base, waiver)
    BY <1>b DEF Net, Remainder, Fine, Scale
  <1>. HIDE DEF g, l, c, n
  <1>9. /\ (price - g - l - c) - n <= 2
        /\ n - (price - g - l - c) <= 2
    BY <1>1, <1>2, <1>3, <1>4, <1>8, <1>b DEF Fine, Scale
  <1>. QED
    BY <1>7, <1>9 DEF GatewayLine, LogisticsLine, NetSettlement, g, l, n

\* A higher price never settles for less.
THEOREM NetMonotone ==
    ASSUME NEW p \in Int, NEW q \in Int, p <= q, NEW base \in Int, NEW waiver \in BOOLEAN
    PROVE  NetSettlement(p, base, waiver) <= NetSettlement(q, base, waiver)
  <1>1. /\ Net(p, base, waiver) \in Int /\ Net(q, base, waiver) \in Int
        /\ Fine \in Int /\ Fine > 0
    BY PayoutTypes DEF Fine, Scale
  <1>2. Net(p, base, waiver) <= Net(q, base, waiver)
    BY DEF Net, Remainder, Commission, CommissionGst, Gateway, GatewayGst, Logistics,
           LogisticsGst, Scale
  <1>. QED
    BY <1>1, <1>2, RoundInrMonotone DEF NetSettlement

\* The waiver is never to the seller's cost where the price covers gateway and logistics;
\* below, the commission is negative and the seller without a waiver settles for more.
THEOREM WaiverPays ==
    ASSUME NEW price \in Int, NEW base \in Int
    PROVE  /\ Remainder(price, base) >= 0 =>
                NetSettlement(price, base, FALSE) <= NetSettlement(price, base, TRUE)
           /\ Remainder(price, base) <= 0 =>
                NetSettlement(price, base, TRUE) <= NetSettlement(price, base, FALSE)
  <1>. DEFINE rest == Remainder(price, base)
              waived == Net(price, base, TRUE)
              charged == Net(price, base, FALSE)
  <1>1. rest \in Int /\ waived = 1000 * rest /\ charged = 941 * rest
    BY SMT DEF Net, Remainder, Commission, CommissionGst, Gateway, GatewayGst, Logistics,
           LogisticsGst, Scale
  <1>2. Fine \in Int /\ Fine > 0
    BY SMT DEF Fine, Scale
  <1>3. /\ NetSettlement(price, base, TRUE) = RoundInr(waived, Fine)
        /\ NetSettlement(price, base, FALSE) = RoundInr(charged, Fine)
    BY Zenon DEF NetSettlement
  <1>. HIDE DEF rest, waived, charged
  <1>4. rest >= 0 => charged <= waived
    BY <1>1, SMT
  <1>5. rest <= 0 => waived <= charged
    BY <1>1, SMT
  <1>6. /\ rest >= 0 => RoundInr(charged, Fine) <= RoundInr(waived, Fine)
        /\ rest <= 0 => RoundInr(waived, Fine) <= RoundInr(charged, Fine)
    BY <1>1, <1>2, <1>4, <1>5, RoundInrMonotone, SMT
  <1>. QED
    BY <1>3, <1>6, Zenon DEF rest

-----------------------------------------------------------------------------
(***************************************************************************)
(* The invoice.                                                            *)
(***************************************************************************)
\* A line of a tax invoice adds up to the paisa, whatever the rate; nothing of the tax is
\* negative, and CGST and SGST differ by a paisa at most, CGST being the larger.
THEOREM SplitAddsUp ==
    ASSUME NEW amount \in Nat, NEW percent \in Nat, NEW intra \in BOOLEAN
    PROVE  LET split == SplitGst(amount, percent, intra) IN
           /\ split.net + TaxOf(split) = amount
           /\ split.net >= 0 /\ split.igst >= 0 /\ split.sgst >= 0
           /\ split.cgst - split.sgst \in {0, 1}
  <1>. DEFINE net == RoundInr(100 * amount, 100 + percent)
              tax == amount - net
              half == RoundInr(tax, 2)
  <1>1. /\ 100 * amount \in Int /\ 100 + percent \in Int /\ 100 + percent > 0
        /\ (100 + percent) * amount >= 100 * amount
    <2>1. percent * amount >= 0
      BY SMT
    <2>. QED
      BY <2>1, SMT
  <1>2. /\ net \in Int
        /\ 2 * (100 + percent) * net <= 2 * (100 * amount) + (100 + percent)
        /\ 2 * (100 * amount) + (100 + percent)
             < 2 * (100 + percent) * net + 2 * (100 + percent)
    BY <1>1, RoundInrBounds
  <1>. HIDE DEF net
  <1>3. (100 + percent) * (2 * net) < (100 + percent) * (2 * amount + 2)
    BY <1>1, <1>2
  <1>4. net <= amount
    BY <1>1, <1>2, <1>3
  <1>5. (100 + percent) * (2 * net + 2) > 0
    BY <1>1, <1>2
  <1>6. net >= 0
    BY <1>1, <1>2, <1>5
  <1>7. /\ half \in Int /\ 4 * half <= 2 * tax + 2 /\ 2 * tax + 2 < 4 * half + 4
    <2>1. tax \in Int
      BY <1>2
    <2>. HIDE DEF tax
    <2>. QED
      BY <2>1, RoundInrBounds
  <1>. HIDE DEF half
  <1>8. tax >= 0 /\ tax - half >= 0 /\ half - (tax - half) \in {0, 1}
    BY <1>2, <1>4, <1>7
  <1>. QED
    BY <1>2, <1>6, <1>7, <1>8 DEF SplitGst, TaxOf, net, half

LEMMA DivModUnique ==
    ASSUME NEW n \in Nat, NEW d \in Nat, d > 0,
           NEW q \in Nat, NEW r \in Nat, r < d, n = d * q + r
    PROVE  n \div d = q /\ n % d = r
  BY SMT

\* Up to a hundred crore rupees the words of an amount say the amount: the parts are the
\* digits of the rupees, each small enough for the words the code has for it.
THEOREM WordsSayTheAmount ==
    ASSUME NEW amount \in Nat, RoundInr(amount, 100) < 1000000000
    PROVE  LET w == Words(amount) IN
           /\ 10000000 * w.crore + 100000 * w.lakh + 1000 * w.thousand + w.hundred
                = RoundInr(amount, 100)
           /\ w.crore \in 0 .. 99 /\ w.lakh \in 0 .. 99
           /\ w.thousand \in 0 .. 99 /\ w.hundred \in 0 .. 999
  <1>. DEFINE n == RoundInr(amount, 100)
              c == n \div 10000000
              m == n % 10000000
              l == m \div 100000
              k == m % 100000
              t == k \div 1000
              h == k % 1000
  <1>1. n \in Int /\ 2 * amount + 100 < 200 * n + 200
    BY RoundInrBounds, SMT
  <1>2. n \in Nat /\ n < 1000000000
    <2>. HIDE DEF n
    <2>1. n \in Nat
      BY <1>1, SMT
    <2>. QED
      BY <2>1, SMT DEF n
  <1>. HIDE DEF n
  <1>3. c \in Nat /\ m \in Nat /\ m < 10000000 /\ 10000000 * c + m = n
    BY <1>2, DivMod, SMT
  <1>. HIDE DEF c, m
  <1>4. l \in Nat /\ k \in Nat /\ k < 100000 /\ 100000 * l + k = m
    BY <1>3, DivMod, SMT
  <1>. HIDE DEF l, k
  <1>5. t \in Nat /\ h \in Nat /\ h < 1000 /\ 1000 * t + h = k
    BY <1>4, DivMod, SMT
  <1>. HIDE DEF t, h
  <1>6. n % 100000 = k
    <2>1. 100 * c + l \in Nat /\ n = 100000 * (100 * c + l) + k
      BY <1>3, <1>4, SMT
    <2>. QED
      BY <2>1, <1>2, <1>4, DivModUnique, SMT
  <1>7. n % 1000 = h
    <2>. DEFINE q == 10000 * c + 100 * l + t
    <2>1. q \in Nat /\ n = 1000 * q + h
      BY <1>3, <1>4, <1>5, SMT
    <2>. HIDE DEF q
    <2>. QED
      BY <2>1, <1>2, <1>5, DivModUnique, SMT
  <1>8. /\ 10000000 * c + 100000 * l + 1000 * t + h = n
        /\ c \in 0 .. 99 /\ l \in 0 .. 99 /\ t \in 0 .. 99 /\ h \in 0 .. 999
    BY <1>2, <1>3, <1>4, <1>5, SMT
  <1>9. Words(amount) = [crore |-> c, lakh |-> l, thousand |-> t, hundred |-> h]
    BY <1>6, <1>7, SMT DEF Words, n, c, m, l, k, t, h
  <1>. QED
    BY <1>8, <1>9, SMT DEF n

\* The shares of two sellers who bill all lines of an order miss its delivery fee by a
\* paisa at most.
THEOREM SharesMeetTheFee ==
    ASSUME NEW fee \in Nat, NEW a \in Nat, NEW b \in Nat, a + b >= 100
    PROVE  LET shares == DeliveryShare(fee, a, a + b, 2) + DeliveryShare(fee, b, a + b, 2)
           IN  shares - fee \in {0, 1}
  <1>. DEFINE t == a + b
              x == RoundInr(fee * a, t)
              y == RoundInr(fee * b, t)
  <1>1. t \in Int /\ t > 0 /\ fee * a \in Int /\ fee * b \in Int /\ fee * a + fee * b = t * fee
    BY SMT
  <1>2. /\ x \in Int /\ 2 * t * x <= 2 * (fee * a) + t
        /\ 2 * (fee * a) + t < 2 * t * x + 2 * t
    BY <1>1, RoundInrBounds
  <1>3. /\ y \in Int /\ 2 * t * y <= 2 * (fee * b) + t
        /\ 2 * (fee * b) + t < 2 * t * y + 2 * t
    BY <1>1, RoundInrBounds
  <1>4. DeliveryShare(fee, a, t, 2) = x /\ DeliveryShare(fee, b, t, 2) = y
    BY DEF DeliveryShare
  <1>. HIDE DEF t, x, y
  <1>5. /\ t * (x + y) <= t * (fee + 1)
        /\ t * fee < t * (x + y + 1)
    BY <1>1, <1>2, <1>3
  <1>6. x + y <= fee + 1 /\ fee < x + y + 1
    BY <1>1, <1>2, <1>3, <1>5
  <1>. QED
    BY <1>2, <1>3, <1>4, <1>6 DEF t

-----------------------------------------------------------------------------
(***************************************************************************)
(* The catalogue: what the normalisation of variants keeps.                *)
(***************************************************************************)
LEMMA ShelfStart ==
    ASSUME PartInit, part = "catalogue"
    PROVE  Shelf!Init
BY DEF PartInit

LEMMA ShelfStep ==
    ASSUME [PartNext]_<<vars, store>>, part = "catalogue"
    PROVE  [Shelf!Next]_Shelf!vars
BY DEF PartNext, vars, store, Shelf!vars, Shelf!slot

LEMMA ShelfFacts ==
    /\ NoVariant \notin Variants
    /\ SheetsSent \subseteq [options : Seq(Shelf!Options), items : Seq(Shelf!Items)]
    /\ ShelfStatuses \subseteq {"ACTIVE", "OUT_OF_STOCK", "DRAFT"}
    /\ TypedPrices \subseteq Nat /\ TypedStocks \subseteq Nat /\ EditsMade \in Nat
    /\ \A list \in LinesOrdered :
          /\ Len(list) \in {1, 2} /\ DOMAIN list = 1..Len(list)
          /\ 1 \in DOMAIN list /\ Len(list) \in DOMAIN list
          /\ list[1] \in Variants \cup {NoVariant} /\ list[Len(list)] \in Variants \cup {NoVariant}
<1>1. /\ NoVariant \notin Variants
      /\ SheetsSent \subseteq [options : Seq(Shelf!Options), items : Seq(Shelf!Items)]
      /\ ShelfStatuses \subseteq {"ACTIVE", "OUT_OF_STOCK", "DRAFT"}
      /\ TypedPrices \subseteq Nat /\ TypedStocks \subseteq Nat /\ EditsMade \in Nat
  BY ShelfConstants DEF Shelf!ShelfAssumption
<1>2. ASSUME NEW list \in LinesOrdered
      PROVE  /\ Len(list) \in {1, 2} /\ DOMAIN list = 1..Len(list)
             /\ 1 \in DOMAIN list /\ Len(list) \in DOMAIN list
             /\ list[1] \in Variants \cup {NoVariant} /\ list[Len(list)] \in Variants \cup {NoVariant}
  <2>1. \/ \E i \in Variants \cup {NoVariant} : list = <<i>>
        \/ \E i, k \in Variants \cup {NoVariant} : list = <<i, k>>
    BY ShelfConstants DEF Shelf!ShelfAssumption
  <2>2. ASSUME NEW i \in Variants \cup {NoVariant}, list = <<i>>
        PROVE  Len(list) = 1 /\ DOMAIN list = 1..1 /\ list[1] = i
    BY <2>2
  <2>3. ASSUME NEW i \in Variants \cup {NoVariant}, NEW k \in Variants \cup {NoVariant},
               list = <<i, k>>
        PROVE  Len(list) = 2 /\ DOMAIN list = 1..2 /\ list[1] = i /\ list[2] = k
    BY <2>3
  <2>. QED
    BY <2>1, <2>2, <2>3
<1>. QED
  BY <1>1, <1>2

LEMMA ShelfCardinality ==
    ASSUME NEW S
    PROVE  /\ Shelf!Cardinality(S) = Cardinality(S)
           /\ Shelf!IsFiniteSet(S) <=> IsFiniteSet(S)
BY DEF Shelf!Cardinality, Cardinality, Shelf!IsFiniteSet, IsFiniteSet

LEMMA ShelfSum ==
    ASSUME NEW f, NEW S
    PROVE  Shelf!MapThenSumSet(LAMBDA x : f[x], S) = SumOf(f, S)
BY DEF SumOf, MapThenSumSet, MapThenFoldSet, Shelf!MapThenSumSet, Shelf!MapThenFoldSet

\* out picks from the first m elements of seq.
Picked(seq, kept, m, out) ==
    out = [n \in 0..m |->
              IF n = 0 THEN <<>>
              ELSE IF seq[n] \in kept THEN Append(out[n - 1], seq[n]) ELSE out[n - 1]]

LEMMA PickedExists ==
    ASSUME NEW seq, NEW kept
    PROVE  \A m \in Nat : \E out : Picked(seq, kept, m, out)
<1>. DEFINE G == {m \in Nat : \E out : Picked(seq, kept, m, out)}
<1>1. 0 \in G
  <2>. DEFINE out == [n \in 0..0 |-> <<>>]
  <2>1. Picked(seq, kept, 0, out)
    BY DEF Picked
  <2>. QED
    BY <2>1
<1>2. ASSUME NEW m \in Nat, m \in G
      PROVE  m + 1 \in G
  <2>1. PICK out : Picked(seq, kept, m, out)
    BY <1>2
  <2>. DEFINE next == IF seq[m + 1] \in kept THEN Append(out[m], seq[m + 1]) ELSE out[m]
              more == [n \in 0..(m + 1) |-> IF n = m + 1 THEN next ELSE out[n]]
  <2>2. \A n \in 0..(m + 1) :
           /\ n # 0 => n - 1 \in 0..(m + 1) /\ n - 1 # m + 1
           /\ n # m + 1 => n \in 0..m
    OBVIOUS
  <2>3. \A n \in 0..m : out[n] = IF n = 0 THEN <<>>
                                 ELSE IF seq[n] \in kept THEN Append(out[n - 1], seq[n])
                                      ELSE out[n - 1]
    BY <2>1 DEF Picked
  <2>4. \A n \in 0..(m + 1) : n # 0 => more[n - 1] = out[n - 1]
    BY <2>2
  <2>5. \A n \in 0..(m + 1) :
           more[n] = IF n = 0 THEN <<>>
                     ELSE IF seq[n] \in kept THEN Append(more[n - 1], seq[n]) ELSE more[n - 1]
    <3>1. ASSUME NEW n \in 0..(m + 1), n = m + 1
          PROVE  n # 0 /\ more[n] = IF seq[n] \in kept THEN Append(more[n - 1], seq[n])
                                    ELSE more[n - 1]
      <4>1. n # 0 /\ n - 1 = m /\ more[n] = next /\ more[n - 1] = out[m]
        BY <2>4, <3>1
      <4>. QED
        BY <3>1, <4>1
    <3>2. ASSUME NEW n \in 0..(m + 1), n # m + 1
          PROVE  more[n] = IF n = 0 THEN <<>>
                           ELSE IF seq[n] \in kept THEN Append(more[n - 1], seq[n])
                                ELSE more[n - 1]
      BY <2>2, <2>3, <2>4, <3>2
    <3>. QED
      BY <3>1, <3>2
  <2>6. Picked(seq, kept, m + 1, more)
    BY <2>5 DEF Picked
  <2>. QED
    BY <2>6
<1>3. Nat \subseteq G
  <2>. HIDE DEF G
  <2>. QED
    BY <1>1, <1>2, Induction
<1>. QED
  BY <1>3

LEMMA PickedKeeps ==
    ASSUME NEW A, NEW seq \in Seq(A), NEW kept \in SUBSET A, NEW out,
           Picked(seq, kept, Len(seq), out)
    PROVE  out[Len(seq)] \in Seq(kept)
<1>. DEFINE G == {n \in Nat : n <= Len(seq) => out[n] \in Seq(kept)}
<1>0. \A n \in 0..Len(seq) :
         out[n] = IF n = 0 THEN <<>>
                  ELSE IF seq[n] \in kept THEN Append(out[n - 1], seq[n]) ELSE out[n - 1]
  BY Zenon DEF Picked
<1>1. 0 \in G
  <2>1. out[0] = <<>>
    <3>1. Len(seq) \in Nat
      OBVIOUS
    <3>2. 0 \in 0..Len(seq)
      BY <3>1
    <3>. QED
      BY <1>0, <3>2, Zenon
  <2>2. <<>> \in Seq(kept)
    OBVIOUS
  <2>. QED
    BY <2>1, <2>2
<1>2. ASSUME NEW n \in Nat, n \in G
      PROVE  n + 1 \in G
  <2>1. CASE n + 1 <= Len(seq)
    <3>1. out[n] \in Seq(kept) /\ n + 1 \in 0..Len(seq)
      BY <1>2, <2>1
    <3>2. out[n + 1] = IF seq[n + 1] \in kept THEN Append(out[n], seq[n + 1]) ELSE out[n]
      BY <1>0, <3>1
    <3>3. ASSUME seq[n + 1] \in kept
          PROVE  Append(out[n], seq[n + 1]) \in Seq(kept)
      BY <3>1, <3>3
    <3>4. out[n + 1] \in Seq(kept)
      <4>1. CASE seq[n + 1] \in kept
        BY <3>2, <3>3, <4>1
      <4>2. CASE seq[n + 1] \notin kept
        BY <3>1, <3>2, <4>2
      <4>. QED
        BY <4>1, <4>2
    <3>. QED
      BY <3>4
  <2>. QED
    BY <2>1
<1>3. Nat \subseteq G
  <2>. HIDE DEF G
  <2>. QED
    BY <1>1, <1>2, Induction
<1>. QED
  BY <1>3

\* What is kept of a sequence is a sequence of those.
LEMMA OnlyKept ==
    ASSUME NEW A, NEW seq \in Seq(A), NEW kept \in SUBSET A
    PROVE  Shelf!Only(seq, kept) \in Seq(kept)
<1>. DEFINE out == CHOOSE out : Picked(seq, kept, Len(seq), out)
<1>1. Len(seq) \in Nat
  OBVIOUS
<1>2. \E out_ : Picked(seq, kept, Len(seq), out_)
  BY <1>1, PickedExists
<1>3. Picked(seq, kept, Len(seq), out)
  BY <1>2
<1>4. Shelf!Only(seq, kept) = out[Len(seq)]
  BY DEF Shelf!Only, Picked
<1>. HIDE DEF out
<1>. QED
  BY <1>3, <1>4, PickedKeeps

Filled == {o \in Shelf!Options : o.values # <<>>}

LEMMA FormParsed ==
    ASSUME NEW form \in SheetsSent
    PROVE  /\ Shelf!ParseOptions(form) \in Seq(Filled)
           /\ Shelf!ParseItems(form) \in Seq(Shelf!Wares)
<1>. DEFINE offered == {o \in Shelf!ToSet(form.options) : o.values # <<>>}
            whole == {i \in Shelf!ToSet(form.items) :
                         i.id # NoVariant /\ i.price >= 0 /\ i.stock >= 0}
<1>1. form.options \in Seq(Shelf!Options) /\ form.items \in Seq(Shelf!Items)
  BY ShelfFacts
<1>2. Shelf!ToSet(form.options) \subseteq Shelf!Options /\ Shelf!ToSet(form.items) \subseteq Shelf!Items
  BY <1>1 DEF Shelf!ToSet
<1>3. offered \in SUBSET Shelf!Options /\ offered \subseteq Filled
  BY <1>2 DEF Filled
<1>4. whole \in SUBSET Shelf!Items /\ whole \subseteq Shelf!Wares
  BY <1>2 DEF Shelf!Items, Shelf!Wares
<1>5. Shelf!ParseOptions(form) = Shelf!Only(form.options, offered)
      /\ Shelf!ParseItems(form) = Shelf!Only(form.items, whole)
  BY DEF Shelf!ParseOptions, Shelf!ParseItems
<1>. HIDE DEF offered, whole
<1>6. Shelf!ParseOptions(form) \in Seq(offered) /\ Shelf!ParseItems(form) \in Seq(whole)
  BY <1>1, <1>3, <1>4, <1>5, OnlyKept
<1>. QED
  BY <1>3, <1>4, <1>6

\* Every option that was kept offers a value.
LEMMA ValuesThere ==
    ASSUME NEW options \in Seq(Filled), NEW name \in Shelf!Names(options)
    PROVE  Shelf!ValuesOf(options, name) # {}
<1>. DEFINE L == {n \in DOMAIN options : options[n].name = name}
            B == {Len(options) - n : n \in L}
            IsLast(n) == /\ options[n].name = name
                         /\ \A k \in DOMAIN options : options[k].name = name => k <= n
            last == CHOOSE n \in DOMAIN options : IsLast(n)
<1>1. /\ Len(options) \in Nat /\ DOMAIN options = 1..Len(options)
      /\ \A n \in DOMAIN options : options[n] \in Filled
  OBVIOUS
<1>2. L # {}
  BY DEF Shelf!Names
<1>3. B \subseteq Nat /\ B # {}
  BY <1>1, <1>2
<1>4. PICK b \in B : \A m \in B : b <= m
  BY <1>3, Least
<1>5. PICK n \in L : b = Len(options) - n
  BY <1>4
<1>6. \A k \in L : k <= n
  <2>1. ASSUME NEW k \in L
        PROVE  k <= n
    <3>1. Len(options) - n <= Len(options) - k
      BY <1>4, <1>5
    <3>. QED
      BY <1>1, <3>1
  <2>. QED
    BY <2>1
<1>7. n \in DOMAIN options /\ IsLast(n)
  BY <1>5, <1>6
<1>8. last \in DOMAIN options /\ IsLast(last)
  <2>. HIDE DEF IsLast
  <2>. QED
    BY <1>7
<1>9. Shelf!ValuesOf(options, name) = Shelf!ToSet(options[last].values)
  BY DEF Shelf!ValuesOf
<1>10. options[last].values \in Seq(OptionValues) /\ options[last].values # <<>>
  <2>. HIDE DEF last
  <2>1. options[last] \in Filled
    BY <1>1, <1>8
  <2>. QED
    BY <2>1 DEF Filled, Shelf!Options
<1>. HIDE DEF last
<1>11. options[last].values[1] \in Shelf!ToSet(options[last].values)
  BY <1>10 DEF Shelf!ToSet
<1>. QED
  BY <1>9, <1>11

LEMMA CombinationThere ==
    ASSUME NEW options \in Seq(Filled)
    PROVE  Shelf!Combinations(options) # {}
<1>. DEFINE f == [name \in Shelf!Names(options) |-> CHOOSE v \in Shelf!ValuesOf(options, name) : TRUE]
<1>1. \A name \in Shelf!Names(options) : f[name] \in Shelf!ValuesOf(options, name)
  BY ValuesThere
<1>2. f \in Shelf!Combinations(options)
  BY <1>1 DEF Shelf!Combinations
<1>. QED
  BY <1>2

\* The columns that variants set.
LEMMA StockIsNumber ==
    ASSUME NEW items \in Seq(Shelf!Wares)
    PROVE  Shelf!TotalStock(items) \in Nat
<1>. DEFINE D == DOMAIN items
            f == [n \in D |-> items[n].stock]
            ItemPart(g, s) == IF s = {} THEN 0 ELSE items[Chosen(s)].stock + g[s \ {Chosen(s)}]
<1>1. \A n \in D : items[n] \in Shelf!Wares
  OBVIOUS
<1>2. D = 1..Len(items) /\ Len(items) \in Nat
  OBVIOUS
<1>3. \A n \in D : f[n] \in Nat
  BY <1>1 DEF Shelf!Wares
<1>4. Shelf!TotalStock(items) = (CHOOSE g : g = [s \in SUBSET D |-> ItemPart(g, s)])[D]
  BY DEF Shelf!TotalStock, Shelf!MapThenSumSet, Shelf!MapThenFoldSet, Chosen
<1>5. \A g : \A s \in SUBSET D : ItemPart(g, s) = Part(f, g, s)
  <2>1. \A s \in SUBSET D : s # {} => f[Chosen(s)] = items[Chosen(s)].stock
    BY DEF Chosen
  <2>. HIDE DEF f, D
  <2>. QED
    BY <2>1 DEF Part
<1>6. \A g : g = [s \in SUBSET D |-> ItemPart(g, s)] <=> Sums(f, SUBSET D, g)
  <2>. HIDE DEF f, D, ItemPart
  <2>. QED
    BY <1>5 DEF Sums
<1>7. Shelf!TotalStock(items) = SumOf(f, D)
  <2>1. SumOf(f, D) = (CHOOSE g : Sums(f, SUBSET D, g))[D]
    BY SumIs
  <2>2. (CHOOSE g : g = [s \in SUBSET D |-> ItemPart(g, s)]) = (CHOOSE g : Sums(f, SUBSET D, g))
    <3>. HIDE DEF f, D, ItemPart
    <3>. QED
      BY <1>6
  <2>. QED
    BY <1>4, <2>1, <2>2, Zenon
<1>8. IsFiniteSet(D)
  BY <1>2, IntervalTo
<1>. HIDE DEF f, D
<1>. QED
  BY <1>3, <1>7, <1>8, SumOfNumbers

LEMMA LowestIsNumber ==
    ASSUME NEW items \in Seq(Shelf!Wares), items # <<>>
    PROVE  Shelf!Lowest(items) \in Nat
<1>. DEFINE B == {items[n].price : n \in DOMAIN items}
            IsLeast(x) == \A n \in DOMAIN items : x <= items[n].price
<1>1. \A n \in DOMAIN items : items[n].price \in Nat
  <2>1. \A n \in DOMAIN items : items[n] \in Shelf!Wares
    OBVIOUS
  <2>. QED
    BY <2>1 DEF Shelf!Wares
<1>2. 1 \in DOMAIN items
  OBVIOUS
<1>3. B \subseteq Nat /\ B # {}
  BY <1>1, <1>2
<1>4. \E x \in B : IsLeast(x)
  BY <1>3, Least
<1>5. Shelf!Lowest(items) = CHOOSE x \in B : IsLeast(x)
  BY DEF Shelf!Lowest
<1>. HIDE DEF B, IsLeast
<1>. QED
  BY <1>3, <1>4, <1>5

\* A form that is accepted has one row for each combination, and at least one.
LEMMA CompleteSells ==
    ASSUME NEW form \in SheetsSent, Shelf!Complete(form)
    PROVE  LET options == Shelf!ParseOptions(form)
               items == Shelf!ParseItems(form)
           IN  /\ Shelf!Sellable(options, items)
               /\ options \in Seq(Shelf!Options)
               /\ items \in Seq(Shelf!Wares) /\ items # <<>>
<1>. DEFINE options == Shelf!ParseOptions(form)
            items == Shelf!ParseItems(form)
            D == DOMAIN items
            keys == [n \in D |-> Shelf!Key(items[n], options)]
            C == Shelf!Combinations(options)
<1>1. options \in Seq(Filled) /\ items \in Seq(Shelf!Wares)
  BY FormParsed
<1>2. /\ \A n, k \in D : n # k => items[n].id # items[k].id /\ keys[n] # keys[k]
      /\ {keys[n] : n \in D} = C
  BY DEF Shelf!Complete
<1>3. \A n \in D : keys[n] = Shelf!Key(items[n], options)
  OBVIOUS
<1>. HIDE DEF options, items, keys, C
<1>4. D = 1..Len(items) /\ Len(items) \in Nat
  BY <1>1
<1>5. IsFiniteSet(D) /\ Cardinality(D) = Len(items)
  BY <1>4, IntervalTo
<1>6. keys \in Bijection(D, C)
  <2>1. keys \in [D -> C]
    BY <1>2 DEF keys
  <2>. QED
    BY <1>2, <2>1 DEF Bijection, Injection, IsInjective, Surjection
<1>7. Cardinality(C) = Len(items)
  BY <1>5, <1>6, FS_Bijection DEF ExistsBijection
<1>8. Len(items) = Shelf!Cardinality(C)
  BY <1>7, ShelfCardinality
<1>9. \A key \in C : \E n \in D : Shelf!Key(items[n], options) = key
  BY <1>2, <1>3
<1>10. \A n, k \in D : items[n].id = items[k].id => n = k
  BY <1>2
<1>11. items # <<>>
  <2>1. C # {}
    BY <1>1, CombinationThere DEF C
  <2>. QED
    BY <1>1, <1>9, <2>1
<1>12. options \in Seq(Shelf!Options)
  BY <1>1 DEF Filled
<1>13. Shelf!Sellable(options, items)
  BY <1>8, <1>9, <1>10 DEF Shelf!Sellable, C
<1>. QED
  BY <1>1, <1>11, <1>12, <1>13 DEF options, items

\* A delta changes nothing but the stock of the variant it names.
LEMMA DeltaKeeps ==
    ASSUME NEW items \in Seq(Shelf!Wares), NEW id, NEW delta \in {-1, 1},
           ~Shelf!DeltaThrows(items, id, delta)
    PROVE  LET next == Shelf!ApplyDelta(items, id, delta) IN
           /\ next \in Seq(Shelf!Wares)
           /\ DOMAIN next = DOMAIN items /\ Len(next) = Len(items)
           /\ \A n \in DOMAIN items : /\ next[n].id = items[n].id
                                      /\ next[n].choice = items[n].choice
                                      /\ next[n].price = items[n].price
<1>. DEFINE D == DOMAIN items
            at == Shelf!IndexOf(items, id)
            next == Shelf!ApplyDelta(items, id, delta)
<1>1. D = 1..Len(items) /\ Len(items) \in Nat /\ \A n \in D : items[n] \in Shelf!Wares
  OBVIOUS
<1>2. next = [n \in D |-> IF n \in at THEN [items[n] EXCEPT !.stock = @ + delta] ELSE items[n]]
  BY DEF Shelf!ApplyDelta
<1>3. \A n \in at : items[n].stock + delta >= 0
  <2>1. \A n \in at : items[n] \in Shelf!Wares
    BY <1>1 DEF Shelf!IndexOf
  <2>2. \A n \in at : ~(items[n].stock + delta < 0)
    BY DEF Shelf!DeltaThrows
  <2>. QED
    BY <2>1, <2>2 DEF Shelf!Wares
<1>. HIDE DEF at, next
<1>4. ASSUME NEW n \in D
      PROVE  /\ next[n] \in Shelf!Wares
             /\ next[n].id = items[n].id /\ next[n].choice = items[n].choice
             /\ next[n].price = items[n].price
  <2>1. items[n] \in Shelf!Wares
    BY <1>1
  <2>2. CASE n \in at
    <3>1. next[n] = [items[n] EXCEPT !.stock = items[n].stock + delta]
      BY <1>2, <2>2
    <3>2. items[n].stock + delta \in Nat
      BY <1>3, <2>1, <2>2 DEF Shelf!Wares
    <3>. QED
      BY <2>1, <3>1, <3>2 DEF Shelf!Wares
  <2>3. CASE n \notin at
    BY <1>2, <2>1, <2>3
  <2>. QED
    BY <2>2, <2>3
<1>5. next \in [1..Len(items) -> Shelf!Wares] /\ DOMAIN next = D
  BY <1>1, <1>2, <1>4
<1>6. next \in Seq(Shelf!Wares) /\ Len(next) = Len(items)
  BY <1>1, <1>5
<1>. QED
  BY <1>4, <1>5, <1>6 DEF next

LEMMA DeltaSells ==
    ASSUME NEW options, NEW items \in Seq(Shelf!Wares), NEW id, NEW delta \in {-1, 1},
           ~Shelf!DeltaThrows(items, id, delta)
    PROVE  LET next == Shelf!ApplyDelta(items, id, delta) IN
           /\ Shelf!Sellable(options, items) => Shelf!Sellable(options, next)
           /\ Shelf!Lowest(next) = Shelf!Lowest(items)
<1>. DEFINE D == DOMAIN items
            next == Shelf!ApplyDelta(items, id, delta)
<1>1. /\ DOMAIN next = D /\ Len(next) = Len(items)
      /\ \A n \in D : /\ next[n].id = items[n].id
                      /\ next[n].choice = items[n].choice
                      /\ next[n].price = items[n].price
  BY DeltaKeeps
<1>. HIDE DEF next
<1>2. \A n \in D : Shelf!Key(next[n], options) = Shelf!Key(items[n], options)
  BY <1>1 DEF Shelf!Key
<1>3. Shelf!Sellable(options, items) => Shelf!Sellable(options, next)
  BY <1>1, <1>2 DEF Shelf!Sellable
<1>4. Shelf!Lowest(next) = Shelf!Lowest(items)
  <2>. DEFINE B(seq) == {seq[n].price : n \in DOMAIN seq}
              IsLeast(seq, x) == \A n \in DOMAIN seq : x <= seq[n].price
  <2>1. B(next) = B(items)
    BY <1>1
  <2>2. \A x : IsLeast(next, x) <=> IsLeast(items, x)
    BY <1>1
  <2>3. \A seq : Shelf!Lowest(seq) = CHOOSE x \in B(seq) : IsLeast(seq, x)
    BY DEF Shelf!Lowest
  <2>. HIDE DEF B, IsLeast
  <2>4. (CHOOSE x \in B(next) : IsLeast(next, x)) = (CHOOSE x \in B(items) : IsLeast(items, x))
    BY <2>1, <2>2
  <2>. QED
    BY <2>3, <2>4
<1>. QED
  BY <1>3, <1>4 DEF next

(***************************************************************************)
(* Every step of the catalogue keeps Shelf!ShelfInv.                       *)
(***************************************************************************)
LEMMA ShelfInit == Shelf!Init => Shelf!ShelfInv
<1>. SUFFICES ASSUME Shelf!Init PROVE Shelf!ShelfInv
  OBVIOUS
<1>1. ~Shelf!Exists
  BY DEF Shelf!Init, Shelf!Exists
<1>2. \A r \in Slots : step[r] = "idle" /\ task[r] = Shelf!Free
  BY DEF Shelf!Init
<1>3. Shelf!TypeOK
  BY ShelfFacts, <1>2 DEF Shelf!Init, Shelf!TypeOK
<1>4. Shelf!OrdersStand
  BY <1>2 DEF Shelf!Init, Shelf!OrdersStand
<1>. QED
  BY <1>1, <1>2, <1>3, <1>4 DEF Shelf!ShelfInv, Shelf!VariantsSellable, Shelf!StockIsOfVariants,
     Shelf!ListedAtLowest, Shelf!ReadIsSellable, Shelf!OneOpen, Shelf!ReadIsRow,
     Shelf!PieceIsThere, Shelf!StockedOrSold

\* What the row promises by itself, and its stock with the orders that stand.
RowSells(product, columns, alone) ==
    /\ product \in Shelf!Rows
    /\ product.items # <<>> =>
          /\ Shelf!Sellable(product.options, product.items)
          /\ "stock" \notin columns => product.stock = Shelf!TotalStock(product.items)
          /\ alone /\ "price" \notin columns => product.price = Shelf!Lowest(product.items)
RowStocked(product, counts) ==
    \/ product.stock >= 0
    \/ product.stock = -1 /\ \E list \in LinesOrdered : Shelf!Twice(list) /\ counts[list] > 0
RowKept(product, columns, counts, alone) ==
    RowSells(product, columns, alone) /\ (alone => RowStocked(product, counts))

LEMMA RowIsThere ==
    ASSUME NEW product \in Shelf!Rows
    PROVE  product # Shelf!NoRow
BY ShelfFacts DEF Shelf!Rows, Shelf!NoRow

LEMMA RowIsKept ==
    ASSUME Shelf!ShelfInv, Shelf!Exists
    PROVE  RowKept(t1, t4, t2, serial)
BY DEF Shelf!ShelfInv, Shelf!TypeOK, Shelf!VariantsSellable, Shelf!StockIsOfVariants,
   Shelf!ListedAtLowest, Shelf!StockedOrSold, Shelf!TwiceOrdered, Shelf!Exists,
   Shelf!HasVariants, RowKept, RowSells, RowStocked

\* What open orders and cancellations have at hand, with the row and the orders they meet.
TasksKept(steps, jobs, product, counts, alone) ==
    /\ \A r \in Slots : steps[r] = "write" =>
          /\ product # Shelf!NoRow
          /\ jobs[r].items # <<>> => Shelf!Sellable(jobs[r].options, jobs[r].items)
    /\ alone =>
          /\ \A r, q \in Slots : steps[r] # "idle" /\ steps[q] # "idle" => r = q
          /\ \A r \in Slots : steps[r] = "write" =>
                jobs[r].options = product.options /\ jobs[r].items = product.items
          /\ \A r \in Slots : steps[r] # "idle" /\ jobs[r].op = "order" =>
                /\ product # Shelf!NoRow
                /\ IF product.items # <<>> THEN \A n \in DOMAIN jobs[r].ids : jobs[r].ids[n] # NoVariant
                   ELSE product.stock >= 1
          /\ \A list \in LinesOrdered : counts[list] >= 0
          /\ \A r \in Slots : steps[r] # "idle" /\ jobs[r].op = "cancel" => counts[jobs[r].ids] > 0

LEMMA TasksAreKept ==
    ASSUME Shelf!ShelfInv
    PROVE  TasksKept(step, task, t1, t2, serial)
BY DEF Shelf!ShelfInv, Shelf!ReadIsSellable, Shelf!OneOpen, Shelf!ReadIsRow, Shelf!PieceIsThere,
   Shelf!OrdersStand, Shelf!Exists, Shelf!HasVariants, TasksKept

LEMMA ShelfRebuilt ==
    ASSUME Shelf!TypeOK', t1' # Shelf!NoRow => RowKept(t1', t4', t2', serial'),
           TasksKept(step', task', t1', t2', serial')
    PROVE  Shelf!ShelfInv'
<1>1. (Shelf!VariantsSellable /\ Shelf!StockIsOfVariants /\ Shelf!ListedAtLowest)'
  BY DEF Shelf!VariantsSellable, Shelf!StockIsOfVariants, Shelf!ListedAtLowest,
     Shelf!Exists, Shelf!HasVariants, RowKept, RowSells
<1>2. Shelf!StockedOrSold'
  BY DEF Shelf!StockedOrSold, Shelf!TwiceOrdered, Shelf!Exists, RowKept, RowStocked
<1>3. (Shelf!ReadIsSellable /\ Shelf!OneOpen /\ Shelf!ReadIsRow /\ Shelf!PieceIsThere
       /\ Shelf!OrdersStand)'
  BY DEF Shelf!ReadIsSellable, Shelf!OneOpen, Shelf!ReadIsRow, Shelf!PieceIsThere,
     Shelf!OrdersStand, Shelf!Exists, Shelf!HasVariants, TasksKept
<1>. QED
  BY <1>1, <1>2, <1>3 DEF Shelf!ShelfInv

\* Who edits alone finds no task open.
LEMMA EditMeets ==
    ASSUME Shelf!ShelfInv, Shelf!Edit
    PROVE  /\ t5' \in 0..EditsMade
           /\ serial => \A r \in Slots : step[r] = "idle"
<1>1. t5 \in 0..EditsMade /\ EditsMade \in Nat
  BY ShelfFacts DEF Shelf!ShelfInv, Shelf!TypeOK
<1>. QED
  BY <1>1 DEF Shelf!Edit, Shelf!Quiet

LEMMA ShelfEdit ==
    ASSUME Shelf!ShelfInv, Shelf!Edit, UNCHANGED <<serial, t2, t3, Shelf!slot>>,
           t4' \subseteq {"stock", "price", "status"},
           t1' # Shelf!NoRow => RowKept(t1', t4', t2, serial),
           t1' \in Shelf!Rows \cup {Shelf!NoRow},
           t1' = Shelf!NoRow => \A r \in Slots : step[r] # "write"
    PROVE  Shelf!ShelfInv'
<1>1. t5' \in 0..EditsMade /\ (serial => \A r \in Slots : step[r] = "idle")
  BY EditMeets
<1>2. serial' = serial /\ t2' = t2 /\ t3' = t3 /\ step' = step /\ task' = task
  BY DEF Shelf!slot
<1>3. Shelf!TypeOK'
  BY <1>1, <1>2 DEF Shelf!ShelfInv, Shelf!TypeOK
<1>4. TasksKept(step, task, t1', t2, serial)
  BY <1>1, TasksAreKept DEF TasksKept
<1>. QED
  BY <1>2, <1>3, <1>4, ShelfRebuilt

LEMMA SheetIsRow ==
    ASSUME NEW form \in SheetsSent, Shelf!Complete(form), NEW state \in ShelfStatuses,
           NEW counts, NEW alone \in BOOLEAN
    PROVE  LET sheet == Shelf!Sheet(form) IN
           RowKept([status |-> state, price |-> sheet.price, stock |-> sheet.stock,
                    options |-> sheet.options, items |-> sheet.items], {}, counts, alone)
<1>. DEFINE options == Shelf!ParseOptions(form)
            items == Shelf!ParseItems(form)
            product == [status |-> state, price |-> Shelf!Lowest(items),
                    stock |-> Shelf!TotalStock(items), options |-> options, items |-> items]
<1>1. /\ Shelf!Sellable(options, items) /\ options \in Seq(Shelf!Options)
      /\ items \in Seq(Shelf!Wares) /\ items # <<>>
  BY CompleteSells
<1>. HIDE DEF options, items
<1>2. Shelf!TotalStock(items) \in Nat /\ Shelf!Lowest(items) \in Nat
  BY <1>1, StockIsNumber, LowestIsNumber
<1>3. product \in Shelf!Rows
  BY <1>1, <1>2 DEF Shelf!Rows
<1>4. RowKept(product, {}, counts, alone)
  BY <1>1, <1>2, <1>3 DEF RowKept, RowSells, RowStocked
<1>. QED
  BY <1>4 DEF Shelf!Sheet, options, items

LEMMA ShelfCreate ==
    ASSUME Shelf!ShelfInv, NEW state \in ShelfStatuses, Shelf!Create(state)
    PROVE  Shelf!ShelfInv'
<1>1. ~Shelf!Exists /\ Shelf!Edit /\ UNCHANGED <<serial, t2, t3, Shelf!slot>> /\ t4' = {}
  BY DEF Shelf!Create
<1>2. \A r \in Slots : step[r] # "write"
  BY <1>1 DEF Shelf!ShelfInv, Shelf!ReadIsSellable
<1>3. serial \in BOOLEAN
  BY DEF Shelf!ShelfInv, Shelf!TypeOK
<1>4. RowKept(t1', {}, t2, serial)
  <2>1. PICK sheet \in {Shelf!Sheet(form) : form \in {f \in SheetsSent : Shelf!Complete(f)}} \cup
                        [price : TypedPrices, stock : TypedStocks, options : {<<>>}, items : {<<>>}] :
           t1' = [status |-> state, price |-> sheet.price, stock |-> sheet.stock,
                  options |-> sheet.options, items |-> sheet.items]
    BY DEF Shelf!Create
  <2>2. CASE sheet \in {Shelf!Sheet(form) : form \in {f \in SheetsSent : Shelf!Complete(f)}}
    <3>1. PICK form \in SheetsSent : Shelf!Complete(form) /\ sheet = Shelf!Sheet(form)
      BY <2>2
    <3>. QED
      BY <1>3, <2>1, <3>1, SheetIsRow
  <2>3. CASE sheet \in [price : TypedPrices, stock : TypedStocks, options : {<<>>}, items : {<<>>}]
    <3>1. /\ sheet.price \in Nat /\ sheet.stock \in Nat
          /\ sheet.options = <<>> /\ sheet.items = <<>>
      BY <2>3, ShelfFacts
    <3>2. t1' \in Shelf!Rows /\ t1'.items = <<>> /\ t1'.stock >= 0
      BY <2>1, <3>1 DEF Shelf!Rows
    <3>. QED
      BY <3>2 DEF RowKept, RowSells, RowStocked
  <2>. QED
    BY <2>1, <2>2, <2>3
<1>5. t1' \in Shelf!Rows
  BY <1>4 DEF RowKept, RowSells
<1>. QED
  BY <1>1, <1>2, <1>4, <1>5, ShelfEdit

LEMMA ShelfUpdateVariants ==
    ASSUME Shelf!ShelfInv, NEW form \in SheetsSent, Shelf!UpdateVariants(form)
    PROVE  Shelf!ShelfInv'
<1>. DEFINE sheet == Shelf!Sheet(form)
<1>1. /\ Shelf!Exists /\ Shelf!Edit /\ Shelf!Complete(form)
      /\ UNCHANGED <<serial, t2, t3, Shelf!slot>> /\ t4' = {}
      /\ t1' = [t1 EXCEPT !.price = sheet.price, !.stock = sheet.stock,
                          !.options = sheet.options, !.items = sheet.items]
  BY DEF Shelf!UpdateVariants
<1>2. serial \in BOOLEAN /\ t1 \in Shelf!Rows
  BY <1>1 DEF Shelf!ShelfInv, Shelf!TypeOK, Shelf!Exists
<1>. HIDE DEF sheet
<1>3. t1' = [status |-> t1.status, price |-> sheet.price, stock |-> sheet.stock,
             options |-> sheet.options, items |-> sheet.items]
  BY <1>1, <1>2 DEF Shelf!Rows
<1>4. t1.status \in ShelfStatuses
  BY <1>2 DEF Shelf!Rows
<1>5. RowKept(t1', {}, t2, serial)
  <2>. DEFINE state == t1.status
  <2>. HIDE DEF state
  <2>1. RowKept([status |-> state, price |-> sheet.price, stock |-> sheet.stock,
                 options |-> sheet.options, items |-> sheet.items], {}, t2, serial)
    BY <1>1, <1>2, <1>4, SheetIsRow DEF sheet, state
  <2>. QED
    BY <1>3, <2>1 DEF state
<1>6. t1' \in Shelf!Rows
  BY <1>5 DEF RowKept, RowSells
<1>7. t1' # Shelf!NoRow
  BY <1>6, RowIsThere
<1>. QED
  BY <1>1, <1>5, <1>6, <1>7, ShelfEdit

LEMMA ShelfUpdate ==
    ASSUME Shelf!ShelfInv, NEW column, NEW value, Shelf!Update(column, value),
           \/ column = "stock" /\ value \in TypedStocks
           \/ column = "price" /\ value \in TypedPrices
           \/ column = "status" /\ value \in ShelfStatuses
    PROVE  Shelf!ShelfInv'
<1>1. /\ Shelf!Exists /\ Shelf!Edit /\ UNCHANGED <<serial, t2, t3, Shelf!slot>>
      /\ t1' = [t1 EXCEPT ![column] = value] /\ t4' = t4 \cup {column}
  BY DEF Shelf!Update
<1>2. t1 \in Shelf!Rows /\ t4 \subseteq {"stock", "price", "status"}
  BY <1>1 DEF Shelf!ShelfInv, Shelf!TypeOK, Shelf!Exists
<1>3. RowKept(t1, t4, t2, serial)
  BY <1>1, RowIsKept
<1>4. t1' \in Shelf!Rows /\ t1'.items = t1.items /\ t1'.options = t1.options
      /\ (column = "stock" \/ t1'.stock = t1.stock)
      /\ (column = "price" \/ t1'.price = t1.price)
      /\ (t1'.stock = t1.stock \/ t1'.stock >= 0)
  <2>1. CASE column = "stock" /\ value \in TypedStocks
    <3>1. t1' = [t1 EXCEPT !.stock = value] /\ value \in Nat
      BY <1>1, <2>1, ShelfFacts
    <3>. QED
      BY <1>2, <2>1, <3>1 DEF Shelf!Rows
  <2>2. CASE column = "price" /\ value \in TypedPrices
    <3>1. t1' = [t1 EXCEPT !.price = value] /\ value \in Nat
      BY <1>1, <2>2, ShelfFacts
    <3>. QED
      BY <1>2, <2>2, <3>1 DEF Shelf!Rows
  <2>3. CASE column = "status" /\ value \in ShelfStatuses
    <3>1. t1' = [t1 EXCEPT !.status = value]
      BY <1>1, <2>3
    <3>. QED
      BY <1>2, <2>3, <3>1 DEF Shelf!Rows
  <2>. QED
    BY <2>1, <2>2, <2>3
<1>6. RowKept(t1', t4', t2, serial)
  BY <1>1, <1>3, <1>4 DEF RowKept, RowSells, RowStocked
<1>7. t1' # Shelf!NoRow
  BY <1>4, RowIsThere
<1>8. t4' \subseteq {"stock", "price", "status"}
  BY <1>1, <1>2
<1>. QED
  BY <1>1, <1>4, <1>6, <1>7, <1>8, ShelfEdit

LEMMA ShelfRemove ==
    ASSUME Shelf!ShelfInv, Shelf!RemoveProduct
    PROVE  Shelf!ShelfInv'
<1>1. /\ Shelf!Edit /\ t1' = Shelf!NoRow /\ \A r \in Slots : step[r] # "write"
      /\ UNCHANGED <<serial, t2, t3, t4, Shelf!slot>>
  BY DEF Shelf!RemoveProduct
<1>2. t4' \subseteq {"stock", "price", "status"}
  BY <1>1 DEF Shelf!ShelfInv, Shelf!TypeOK
<1>. QED
  BY <1>1, <1>2, ShelfEdit

\* A task at a step, for the row it meets.
Placed(at, j) ==
    /\ at \in {"idle", "read", "write"}
    /\ at = "idle" <=> j = Shelf!Free
    /\ at # "idle" => /\ j.ids \in LinesOrdered
                      /\ <<j.op, j.delta>> \in {<<"order", -1>>, <<"cancel", 1>>}
    /\ at = "write" => j.options \in Seq(Shelf!Options) /\ j.items \in Seq(Shelf!Wares)
Meets(at, j, product, counts, alone) ==
    /\ at = "write" =>
          product # Shelf!NoRow /\ (j.items # <<>> => Shelf!Sellable(j.options, j.items))
    /\ alone =>
          /\ at = "write" => j.options = product.options /\ j.items = product.items
          /\ at # "idle" /\ j.op = "order" =>
                /\ product # Shelf!NoRow
                /\ IF product.items # <<>> THEN \A n \in DOMAIN j.ids : j.ids[n] # NoVariant
                   ELSE product.stock >= 1
          /\ at # "idle" /\ j.op = "cancel" => counts[j.ids] > 0

LEMMA TaskIsPlaced ==
    ASSUME Shelf!ShelfInv, NEW r \in Slots
    PROVE  Placed(step[r], task[r]) /\ Meets(step[r], task[r], t1, t2, serial)
<1>1. Placed(step[r], task[r])
  BY DEF Shelf!ShelfInv, Shelf!TypeOK, Placed
<1>2. Meets(step[r], task[r], t1, t2, serial)
  BY TasksAreKept DEF TasksKept, Meets
<1>. QED
  BY <1>1, <1>2

LEMMA ShelfTask ==
    ASSUME Shelf!ShelfInv, NEW r \in Slots, NEW at, NEW j,
           Shelf!Goto(r, at, j), UNCHANGED <<serial, t1, t2, t3, t4, t5>>,
           Placed(at, j), Meets(at, j, t1, t2, serial),
           serial /\ at # "idle" => \A q \in Slots : q # r => step[q] = "idle"
    PROVE  Shelf!ShelfInv'
<1>1. Shelf!TypeOK /\ TasksKept(step, task, t1, t2, serial)
  BY TasksAreKept DEF Shelf!ShelfInv
<1>2. /\ step' = [step EXCEPT ![r] = at] /\ step \in [Slots -> {"idle", "read", "write"}]
      /\ task' = [task EXCEPT ![r] = j]
  BY <1>1 DEF Shelf!Goto, Shelf!TypeOK
<1>3. /\ step'[r] = at /\ task'[r] = j /\ DOMAIN task' = Slots
      /\ \A q \in Slots : q # r => task'[q] = task[q]
      /\ \A q \in Slots : q # r => step'[q] = step[q]
      /\ step' \in [Slots -> {"idle", "read", "write"}]
  BY <1>1, <1>2 DEF Placed, Shelf!TypeOK
<1>4. \A q \in Slots : Placed(step'[q], task'[q]) /\ Meets(step'[q], task'[q], t1, t2, serial)
  BY <1>3, TaskIsPlaced
<1>5. Shelf!TypeOK'
  BY <1>1, <1>3, <1>4 DEF Shelf!TypeOK, Placed
<1>6. serial => \A p, q \in Slots : step'[p] # "idle" /\ step'[q] # "idle" => p = q
  BY <1>1, <1>3 DEF TasksKept
<1>7. TasksKept(step', task', t1, t2, serial)
  BY <1>1, <1>4, <1>6 DEF TasksKept, Meets
<1>8. t1 # Shelf!NoRow => RowKept(t1, t4, t2, serial)
  BY RowIsKept DEF Shelf!Exists
<1>. QED
  BY <1>5, <1>7, <1>8, ShelfRebuilt

LEMMA ShelfDone ==
    ASSUME Shelf!ShelfInv, NEW r \in Slots, Shelf!Done(r),
           UNCHANGED <<serial, t1, t2, t3, t4, t5>>
    PROVE  Shelf!ShelfInv'
<1>1. Shelf!Goto(r, "idle", Shelf!Free)
  BY DEF Shelf!Done
<1>2. Placed("idle", Shelf!Free) /\ Meets("idle", Shelf!Free, t1, t2, serial)
  BY DEF Placed, Meets
<1>. QED
  BY <1>1, <1>2, ShelfTask

LEMMA ShelfOpen ==
    ASSUME Shelf!ShelfInv, NEW r \in Slots, NEW list \in LinesOrdered,
           Shelf!CheckItems(r, list) \/ Shelf!CancelOrder(r, list)
    PROVE  Shelf!ShelfInv'
<1>. DEFINE order == [op |-> "order", ids |-> list, delta |-> -1]
            cancel == [op |-> "cancel", ids |-> list, delta |-> 1]
<1>1. /\ step[r] = "idle" /\ (serial => \A q \in Slots : step[q] = "idle")
      /\ UNCHANGED <<serial, t1, t2, t3, t4, t5>>
  BY DEF Shelf!CheckItems, Shelf!OpenOrder, Shelf!CancelOrder, Shelf!Begin, Shelf!Quiet
<1>2. CASE Shelf!CheckItems(r, list)
  <2>1. /\ Shelf!Goto(r, "read", order) /\ Shelf!Exists
        /\ \A n \in DOMAIN list :
              IF t1.items # <<>> THEN ~Shelf!DeltaThrows(t1.items, list[n], -1) ELSE t1.stock >= 1
    BY <1>2 DEF Shelf!CheckItems, Shelf!OpenOrder, Shelf!HasVariants
  <2>2. ASSUME t1.items # <<>>, NEW n \in DOMAIN list, list[n] = NoVariant
        PROVE  FALSE
    <3>1. t1.items \in Seq(Shelf!Wares)
      BY <2>1 DEF Shelf!ShelfInv, Shelf!TypeOK, Shelf!Exists, Shelf!Rows
    <3>2. \A m \in DOMAIN t1.items : t1.items[m].id \in Variants
      <4>1. \A m \in DOMAIN t1.items : t1.items[m] \in Shelf!Wares
        BY <3>1
      <4>. QED
        BY <4>1 DEF Shelf!Wares
    <3>3. Shelf!IndexOf(t1.items, list[n]) = {}
      BY <2>2, <3>2, ShelfFacts DEF Shelf!IndexOf
    <3>. QED
      BY <2>1, <2>2, <3>3 DEF Shelf!DeltaThrows
  <2>3. Placed("read", order)
    BY DEF Placed, Shelf!Free
  <2>4. 1 \in DOMAIN list
    BY ShelfFacts
  <2>5. Meets("read", order, t1, t2, serial)
    BY <2>1, <2>2, <2>4 DEF Meets, Shelf!Exists
  <2>. HIDE DEF order
  <2>. QED
    BY <1>1, <2>1, <2>3, <2>5, ShelfTask
<1>3. CASE Shelf!CancelOrder(r, list)
  <2>1. Shelf!Goto(r, "read", cancel) /\ t2[list] > 0
    BY <1>3 DEF Shelf!CancelOrder
  <2>2. Placed("read", cancel)
    BY DEF Placed, Shelf!Free
  <2>3. Meets("read", cancel, t1, t2, serial)
    BY <2>1 DEF Meets
  <2>. HIDE DEF cancel
  <2>. QED
    BY <1>1, <2>1, <2>2, <2>3, ShelfTask
<1>. QED
  BY <1>2, <1>3

LEMMA ShelfRead ==
    ASSUME Shelf!ShelfInv, NEW r \in Slots, Shelf!ReadProduct(r)
    PROVE  Shelf!ShelfInv'
<1>. DEFINE j == task[r]
            read == [op |-> j.op, ids |-> j.ids, delta |-> j.delta,
                     options |-> t1.options, items |-> t1.items]
<1>1. /\ step[r] = "read" /\ UNCHANGED <<serial, t1, t2, t3, t4, t5>>
      /\ IF Shelf!Exists THEN Shelf!Goto(r, "write", read) ELSE Shelf!Done(r)
  BY DEF Shelf!ReadProduct
<1>2. CASE Shelf!Exists
  <2>1. t1 \in Shelf!Rows
    BY <1>2 DEF Shelf!ShelfInv, Shelf!TypeOK, Shelf!Exists
  <2>2. Placed("read", j) /\ Meets("read", j, t1, t2, serial)
    BY <1>1, TaskIsPlaced
  <2>3. /\ read.op = j.op /\ read.ids = j.ids /\ read.delta = j.delta
        /\ read.options = t1.options /\ read.items = t1.items /\ read # Shelf!Free
    BY <2>2 DEF Shelf!Free, Placed
  <2>. HIDE DEF j, read
  <2>4. Placed("write", read)
    BY <2>1, <2>2, <2>3 DEF Placed, Shelf!Rows
  <2>5. Meets("write", read, t1, t2, serial)
    <3>1. RowKept(t1, t4, t2, serial) /\ t1 # Shelf!NoRow
      BY <1>2, RowIsKept DEF Shelf!Exists
    <3>. QED
      BY <2>2, <2>3, <3>1 DEF Meets, RowKept, RowSells
  <2>6. serial => \A q \in Slots : q # r => step[q] = "idle"
    BY <1>1, TasksAreKept DEF TasksKept
  <2>. QED
    BY <1>1, <1>2, <2>4, <2>5, <2>6, ShelfTask
<1>3. CASE ~Shelf!Exists
  BY <1>1, <1>3, ShelfDone
<1>. QED
  BY <1>2, <1>3

LEMMA ShelfFail ==
    ASSUME Shelf!ShelfInv, NEW r \in Slots, Shelf!Fail(r)
    PROVE  Shelf!ShelfInv'
BY ShelfDone DEF Shelf!Fail

\* A task writes the row and is done: what the others hold stays as good.
LEMMA ShelfPut ==
    ASSUME Shelf!ShelfInv, NEW r \in Slots, step[r] = "write", Shelf!Done(r), Shelf!Commit(r),
           UNCHANGED <<serial, t5>>, t4' \subseteq {"stock", "price", "status"},
           RowKept(t1', t4', t2', serial)
    PROVE  Shelf!ShelfInv'
<1>. DEFINE j == task[r]
<1>1. Shelf!TypeOK /\ TasksKept(step, task, t1, t2, serial)
  BY TasksAreKept DEF Shelf!ShelfInv
<1>2. /\ step' = [step EXCEPT ![r] = "idle"] /\ step \in [Slots -> {"idle", "read", "write"}]
      /\ task' = [task EXCEPT ![r] = Shelf!Free]
  BY <1>1 DEF Shelf!Goto, Shelf!Done, Shelf!TypeOK
<1>3. /\ step'[r] = "idle" /\ task'[r] = Shelf!Free /\ DOMAIN task' = Slots
      /\ \A q \in Slots : q # r => task'[q] = task[q] /\ step'[q] = step[q]
      /\ step' \in [Slots -> {"idle", "read", "write"}]
  BY <1>1, <1>2 DEF Shelf!TypeOK
<1>4. \A q \in Slots : Placed(step'[q], task'[q])
  BY <1>3, TaskIsPlaced DEF Placed
<1>5. Placed("write", j)
  BY TaskIsPlaced
<1>6. /\ t3' \in Nat /\ t2' \in [LinesOrdered -> Int]
      /\ serial => \A list \in LinesOrdered : t2'[list] >= 0
  <2>1. t3 \in Nat /\ t2 \in [LinesOrdered -> Int]
    BY <1>1 DEF Shelf!TypeOK
  <2>2. j.delta \in Int /\ j.ids \in LinesOrdered /\ Len(j.ids) \in {1, 2}
    BY <1>5, ShelfFacts DEF Placed
  <2>3. /\ t3' = IF j.op = "order" THEN t3 + Len(j.ids) ELSE t3
        /\ t2' = [t2 EXCEPT ![j.ids] = @ - j.delta]
    BY DEF Shelf!Commit
  <2>4. serial => \A list \in LinesOrdered : t2[list] >= 0
    BY <1>1 DEF TasksKept
  <2>5. serial => t2[j.ids] - j.delta >= 0
    <3>1. <<j.op, j.delta>> \in {<<"order", -1>>, <<"cancel", 1>>}
      BY <1>5 DEF Placed
    <3>2. serial /\ j.op = "cancel" => t2[j.ids] > 0
      BY <1>1 DEF TasksKept
    <3>3. t2[j.ids] \in Int
      BY <2>1, <2>2
    <3>. QED
      BY <2>2, <2>4, <3>1, <3>2, <3>3
  <2>. HIDE DEF j
  <2>. QED
    BY <2>1, <2>2, <2>3, <2>4, <2>5
<1>7. t1' \in Shelf!Rows
  BY DEF RowKept, RowSells
<1>8. Shelf!TypeOK'
  BY <1>1, <1>3, <1>4, <1>6, <1>7 DEF Shelf!TypeOK, Placed
<1>9. TasksKept(step', task', t1', t2', serial)
  <2>1. serial => \A q \in Slots : step'[q] = "idle"
    BY <1>1, <1>3 DEF TasksKept
  <2>2. t1' # Shelf!NoRow
    BY <1>7, RowIsThere
  <2>. QED
    BY <1>1, <1>3, <1>6, <2>1, <2>2 DEF TasksKept
<1>. QED
  BY <1>8, <1>9, ShelfRebuilt

\* What a line finds, where the variant it names was read from what could be bought, and
\* what it leaves of the row.
LineFinds(product, columns, alone, read, id, delta) ==
    /\ RowSells(product, columns, alone) /\ columns \subseteq {"stock", "price", "status"}
    /\ read.options \in Seq(Shelf!Options) /\ read.items \in Seq(Shelf!Wares)
    /\ read.items # <<>> => Shelf!Sellable(read.options, read.items)
    /\ alone => read.options = product.options /\ read.items = product.items
    /\ id \in Variants \cup {NoVariant} /\ delta \in {-1, 1}
    /\ ~Shelf!LineThrows(read, id, delta)
LineLeaves(out, product, alone, read, id, delta) ==
    /\ out = [product |-> out.product, typed |-> out.typed]
    /\ RowSells(out.product, out.typed, alone)
    /\ out.typed \subseteq {"stock", "price", "status"}
    /\ Shelf!ByVariant(read, id) => out.product.stock >= 0
    /\ ~Shelf!ByVariant(read, id) => out.product.stock = product.stock + delta
    /\ alone => (out.product.items = <<>> <=> product.items = <<>>)

LEMMA LineKeeps ==
    ASSUME NEW product, NEW columns, NEW alone \in BOOLEAN, NEW read, NEW id, NEW delta,
           LineFinds(product, columns, alone, read, id, delta)
    PROVE  LineLeaves(Shelf!PutLine([product |-> product, typed |-> columns], read, id, delta),
                      product, alone, read, id, delta)
<1>. DEFINE out == Shelf!PutLine([product |-> product, typed |-> columns], read, id, delta)
            next == Shelf!ApplyDelta(read.items, id, delta)
<1>0. /\ RowSells(product, columns, alone) /\ columns \subseteq {"stock", "price", "status"}
      /\ read.options \in Seq(Shelf!Options) /\ read.items \in Seq(Shelf!Wares)
      /\ read.items # <<>> => Shelf!Sellable(read.options, read.items)
      /\ alone => read.options = product.options /\ read.items = product.items
      /\ id \in Variants \cup {NoVariant} /\ delta \in {-1, 1}
      /\ ~Shelf!LineThrows(read, id, delta)
  BY DEF LineFinds
<1>1. product \in Shelf!Rows
  BY <1>0 DEF RowSells
<1>5. delta \in {-1, 1}
  BY <1>0
<1>6. /\ columns \subseteq {"stock", "price", "status"}
      /\ alone => read.options = product.options /\ read.items = product.items
  BY <1>0
<1>2. ASSUME Shelf!ByVariant(read, id)
      PROVE  LineLeaves(out, product, alone, read, id, delta)
  <2>1. ~Shelf!DeltaThrows(read.items, id, delta) /\ id # NoVariant /\ read.items # <<>>
    BY <1>0, <1>2 DEF Shelf!ByVariant, Shelf!LineThrows, Shelf!HasVariants
  <2>2. next \in Seq(Shelf!Wares) /\ Len(next) = Len(read.items)
    BY <1>0, <2>1, DeltaKeeps
  <2>3. Shelf!Sellable(read.options, next) /\ Shelf!Lowest(next) = Shelf!Lowest(read.items)
    BY <1>0, <2>1, DeltaSells
  <2>4. Shelf!TotalStock(next) \in Nat
    BY <2>2, StockIsNumber
  <2>5. out = [product |-> [product EXCEPT !.options = read.options, !.items = next,
                                           !.stock = Shelf!TotalStock(next)],
               typed |-> columns \ {"stock"}]
    BY <1>2 DEF Shelf!PutLine, Shelf!WriteBack, Shelf!PutVariants
  <2>. HIDE DEF next, out
  <2>6. /\ out.product \in Shelf!Rows /\ out.product.options = read.options
        /\ out.product.items = next /\ out.product.stock = Shelf!TotalStock(next)
        /\ out.product.price = product.price /\ out.typed = columns \ {"stock"}
        /\ out = [product |-> out.product, typed |-> out.typed]
    <3>1. out.product = [status |-> product.status, price |-> product.price,
                         stock |-> Shelf!TotalStock(next), options |-> read.options,
                         items |-> next]
      BY <1>1, <2>5 DEF Shelf!Rows
    <3>. QED
      BY <1>0, <1>1, <2>2, <2>4, <2>5, <3>1 DEF Shelf!Rows
  <2>7. alone /\ "price" \notin out.typed => out.product.price = Shelf!Lowest(next)
    BY <1>0, <2>1, <2>3, <2>6 DEF RowSells
  <2>8. RowSells(out.product, out.typed, alone)
    BY <2>3, <2>6, <2>7 DEF RowSells
  <2>9. next # <<>>
    BY <2>1, <2>2
  <2>10. out.typed \subseteq {"stock", "price", "status"} /\ out.product.stock >= 0
    BY <1>6, <2>4, <2>6
  <2>11. alone => (out.product.items = <<>> <=> product.items = <<>>)
    BY <1>6, <2>1, <2>6, <2>9
  <2>. QED
    BY <1>2, <2>6, <2>8, <2>10, <2>11 DEF LineLeaves
<1>3. ASSUME ~Shelf!ByVariant(read, id)
      PROVE  LineLeaves(out, product, alone, read, id, delta)
  <2>1. out = [product |-> [product EXCEPT !.stock = @ + delta],
               typed |-> IF product.items # <<>> THEN columns \cup {"stock"} ELSE columns]
    BY <1>3 DEF Shelf!PutLine, Shelf!HasVariants
  <2>. HIDE DEF out
  <2>2. /\ out.product \in Shelf!Rows /\ out.product.options = product.options
        /\ out.product.items = product.items /\ out.product.stock = product.stock + delta
        /\ out.product.price = product.price
        /\ out.typed = IF product.items # <<>> THEN columns \cup {"stock"} ELSE columns
        /\ out = [product |-> out.product, typed |-> out.typed]
    BY <1>1, <1>5, <2>1 DEF Shelf!Rows
  <2>3. RowSells(out.product, out.typed, alone)
    BY <1>0, <2>2 DEF RowSells
  <2>4. out.typed \subseteq {"stock", "price", "status"}
    BY <1>6, <2>2
  <2>. QED
    BY <1>3, <2>2, <2>3, <2>4 DEF LineLeaves
<1>4. LineLeaves(out, product, alone, read, id, delta)
  BY <1>2, <1>3
<1>. QED
  BY <1>4

LEMMA ShelfWrite ==
    ASSUME Shelf!ShelfInv, NEW r \in Slots, Shelf!WriteStock(r)
    PROVE  Shelf!ShelfInv'
<1>. DEFINE j == task[r]
            first == j.ids[1]
            last == j.ids[Len(j.ids)]
            one == Shelf!PutLine([product |-> t1, typed |-> t4], j, first, j.delta)
            two == Shelf!PutLine(one, one.product, last, j.delta)
            throws == \/ Shelf!LineThrows(j, first, j.delta)
                      \/ Shelf!Twice(j.ids) /\ Shelf!LineThrows(one.product, last, j.delta)
<1>1. step[r] = "write" /\ Shelf!Done(r) /\ UNCHANGED <<serial, t5>>
  BY DEF Shelf!WriteStock
<1>2. CASE throws
  <2>1. UNCHANGED <<t1, t2, t3, t4>>
    BY <1>2 DEF Shelf!WriteStock
  <2>. QED
    BY <1>1, <2>1, ShelfDone
<1>3. /\ t1 # Shelf!NoRow /\ t4 \subseteq {"stock", "price", "status"}
      /\ RowKept(t1, t4, t2, serial) /\ serial \in BOOLEAN
      /\ t2 \in [LinesOrdered -> Int] /\ (serial => \A list \in LinesOrdered : t2[list] >= 0)
  <2>1. t1 # Shelf!NoRow
    BY <1>1, TaskIsPlaced DEF Meets
  <2>2. serial => \A list \in LinesOrdered : t2[list] >= 0
    BY TasksAreKept DEF TasksKept
  <2>. QED
    BY <2>1, <2>2, RowIsKept DEF Shelf!ShelfInv, Shelf!TypeOK, Shelf!Exists
<1>4. /\ j.ids \in LinesOrdered /\ j.delta \in {-1, 1}
      /\ j.options \in Seq(Shelf!Options) /\ j.items \in Seq(Shelf!Wares)
      /\ j.items # <<>> => Shelf!Sellable(j.options, j.items)
      /\ serial => j.options = t1.options /\ j.items = t1.items
      /\ serial /\ j.delta = -1 =>
            IF t1.items # <<>> THEN \A n \in DOMAIN j.ids : j.ids[n] # NoVariant ELSE t1.stock >= 1
  <2>1. Placed("write", j) /\ Meets("write", j, t1, t2, serial)
    BY <1>1, TaskIsPlaced
  <2>2. j.delta = -1 => j.op = "order"
    BY <2>1 DEF Placed
  <2>. HIDE DEF j
  <2>. QED
    BY <2>1, <2>2 DEF Placed, Meets
<1>5. /\ first \in Variants \cup {NoVariant} /\ last \in Variants \cup {NoVariant}
      /\ serial /\ j.delta = -1 =>
            IF t1.items # <<>> THEN first # NoVariant /\ last # NoVariant ELSE t1.stock >= 1
  BY <1>4, ShelfFacts
<1>6. CASE ~throws
  <2>1. /\ t1' = (IF Shelf!Twice(j.ids) THEN two ELSE one).product
        /\ t4' = (IF Shelf!Twice(j.ids) THEN two ELSE one).typed
        /\ Shelf!Commit(r)
    BY <1>6 DEF Shelf!WriteStock
  <2>2. t2' = [t2 EXCEPT ![j.ids] = @ - j.delta]
    BY <2>1 DEF Shelf!Commit
  <2>3. /\ ~Shelf!LineThrows(j, first, j.delta)
        /\ Shelf!Twice(j.ids) => ~Shelf!LineThrows(one.product, last, j.delta)
    BY <1>6
  <2>4. RowSells(t1, t4, serial)
    BY <1>3 DEF RowKept
  <2>. HIDE DEF j, first, last, throws
  <2>10. LineFinds(t1, t4, serial, j, first, j.delta)
    BY <1>3, <1>4, <1>5, <2>3, <2>4 DEF LineFinds
  <2>11. LineLeaves(one, t1, serial, j, first, j.delta)
    BY <1>3, <2>10, LineKeeps
  <2>. HIDE DEF one
  <2>5. /\ one = [product |-> one.product, typed |-> one.typed]
        /\ RowSells(one.product, one.typed, serial)
        /\ one.typed \subseteq {"stock", "price", "status"}
        /\ Shelf!ByVariant(j, first) => one.product.stock >= 0
        /\ ~Shelf!ByVariant(j, first) => one.product.stock = t1.stock + j.delta
        /\ serial => (one.product.items = <<>> <=> t1.items = <<>>)
    BY <2>11 DEF LineLeaves
  <2>6. /\ one.product \in Shelf!Rows
        /\ one.product.options \in Seq(Shelf!Options) /\ one.product.items \in Seq(Shelf!Wares)
        /\ one.product.items # <<>> => Shelf!Sellable(one.product.options, one.product.items)
    BY <2>5 DEF RowSells, Shelf!Rows
  <2>7. ASSUME Shelf!Twice(j.ids)
        PROVE  /\ RowSells(two.product, two.typed, serial)
               /\ two.typed \subseteq {"stock", "price", "status"}
               /\ Shelf!ByVariant(one.product, last) => two.product.stock >= 0
               /\ ~Shelf!ByVariant(one.product, last) =>
                     two.product.stock = one.product.stock + j.delta
    <3>. DEFINE p == one.product
                c == one.typed
                out == Shelf!PutLine([product |-> p, typed |-> c], p, last, j.delta)
    <3>1. two = out
      BY <2>5
    <3>. HIDE DEF two, out
    <3>2. /\ RowSells(p, c, serial) /\ c \subseteq {"stock", "price", "status"}
          /\ p.options \in Seq(Shelf!Options) /\ p.items \in Seq(Shelf!Wares)
          /\ p.items # <<>> => Shelf!Sellable(p.options, p.items)
          /\ ~Shelf!LineThrows(p, last, j.delta)
      BY <2>3, <2>5, <2>6, <2>7
    <3>. HIDE DEF p, c
    <3>4. LineFinds(p, c, serial, p, last, j.delta)
      BY <1>4, <1>5, <3>2 DEF LineFinds
    <3>5. LineLeaves(out, p, serial, p, last, j.delta)
      BY <1>3, <3>4, LineKeeps DEF out
    <3>3. /\ RowSells(out.product, out.typed, serial)
          /\ out.typed \subseteq {"stock", "price", "status"}
          /\ Shelf!ByVariant(p, last) => out.product.stock >= 0
          /\ ~Shelf!ByVariant(p, last) => out.product.stock = p.stock + j.delta
      BY <3>5 DEF LineLeaves
    <3>. QED
      BY <3>1, <3>3 DEF p
  <2>. HIDE DEF two
  <2>8. ASSUME serial
        PROVE  RowStocked(t1', t2')
    <3>1. /\ t1 \in Shelf!Rows /\ t1.stock \in Int /\ t1.stock >= -1
          /\ one.product.stock \in Int
      BY <1>3, <2>4, <2>6, <2>8 DEF RowKept, RowSells, RowStocked, Shelf!Rows
    <3>2. CASE j.delta = 1
      <4>1. one.product.stock >= 0
        BY <2>5, <3>1, <3>2
      <4>2. Shelf!Twice(j.ids) => two.product.stock >= 0
        BY <2>7, <3>1, <3>2, <4>1
      <4>. QED
        BY <2>1, <4>1, <4>2 DEF RowStocked
    <3>3. CASE j.delta = -1 /\ t1.items # <<>>
      <4>1. first # NoVariant /\ last # NoVariant /\ j.items # <<>> /\ one.product.items # <<>>
        BY <1>4, <1>5, <2>5, <2>8, <3>3
      <4>2. Shelf!ByVariant(j, first) /\ Shelf!ByVariant(one.product, last)
        BY <4>1 DEF Shelf!ByVariant, Shelf!HasVariants
      <4>. QED
        BY <2>1, <2>5, <2>7, <4>2 DEF RowStocked
    <3>4. CASE j.delta = -1 /\ t1.items = <<>>
      <4>1. t1.stock >= 1
        BY <1>5, <2>8, <3>4
      <4>2. one.product.stock >= 0
        BY <2>5, <3>1, <3>4, <4>1
      <4>3. CASE ~Shelf!Twice(j.ids)
        BY <2>1, <4>2, <4>3 DEF RowStocked
      <4>4. CASE Shelf!Twice(j.ids)
        <5>1. two.product.stock >= -1 /\ two.product.stock \in Int
          BY <2>7, <3>1, <3>4, <4>2, <4>4 DEF RowSells, Shelf!Rows
        <5>2. t2[j.ids] >= 0 /\ t2[j.ids] \in Int
          BY <1>3, <1>4, <2>8
        <5>3. t2'[j.ids] > 0
          BY <1>3, <1>4, <2>2, <3>4, <5>2
        <5>. QED
          BY <1>4, <2>1, <4>4, <5>1, <5>3 DEF RowStocked
      <4>. QED
        BY <4>3, <4>4
    <3>. QED
      BY <1>4, <3>2, <3>3, <3>4
  <2>9. RowKept(t1', t4', t2', serial) /\ t4' \subseteq {"stock", "price", "status"}
    BY <2>1, <2>5, <2>7, <2>8 DEF RowKept
  <2>. QED
    BY <1>1, <2>1, <2>9, ShelfPut
<1>. QED
  BY <1>2, <1>6

LEMMA ShelfStutter ==
    ASSUME Shelf!ShelfInv, UNCHANGED Shelf!vars
    PROVE  Shelf!ShelfInv'
<1>1. UNCHANGED <<serial, t1, t2, t3, t4, t5, step, task>>
  BY DEF Shelf!vars, Shelf!slot
<1>2. Shelf!TypeOK'
  BY <1>1 DEF Shelf!ShelfInv, Shelf!TypeOK
<1>3. t1 # Shelf!NoRow => RowKept(t1, t4, t2, serial)
  BY RowIsKept DEF Shelf!Exists
<1>4. TasksKept(step, task, t1, t2, serial)
  BY TasksAreKept
<1>. QED
  BY <1>1, <1>2, <1>3, <1>4, ShelfRebuilt

LEMMA ShelfKept ==
    ASSUME Shelf!ShelfInv, [Shelf!Next]_Shelf!vars
    PROVE  Shelf!ShelfInv'
<1>1. CASE Shelf!RemoveProduct
  BY <1>1, ShelfRemove
<1>2. CASE \E form \in SheetsSent : Shelf!UpdateVariants(form)
  BY <1>2, ShelfUpdateVariants
<1>3. CASE \E stock \in TypedStocks : Shelf!Update("stock", stock)
  BY <1>3, ShelfUpdate
<1>4. CASE \E price \in TypedPrices : Shelf!Update("price", price)
  BY <1>4, ShelfUpdate
<1>5. CASE \E state \in ShelfStatuses : Shelf!Update("status", state) \/ Shelf!Create(state)
  BY <1>5, ShelfUpdate, ShelfCreate
<1>6. CASE \E r \in Slots : \/ \E list \in LinesOrdered :
                                   Shelf!CheckItems(r, list) \/ Shelf!CancelOrder(r, list)
                            \/ Shelf!ReadProduct(r) \/ Shelf!WriteStock(r) \/ Shelf!Fail(r)
  BY <1>6, ShelfOpen, ShelfRead, ShelfWrite, ShelfFail
<1>7. CASE UNCHANGED Shelf!vars
  BY <1>7, ShelfStutter
<1>. QED
  BY <1>1, <1>2, <1>3, <1>4, <1>5, <1>6, <1>7 DEF Shelf!Next

\* A product whose stock is not below zero is on one tab.
LEMMA OneTab == Shelf!ShelfInv => Shelf!OnOneTab
<1>. SUFFICES ASSUME Shelf!ShelfInv, Shelf!Exists, serial, ~(t1.stock = -1 /\ Shelf!TwiceOrdered)
              PROVE  Shelf!Cardinality(Shelf!Tabs(t1)) = 1
  BY DEF Shelf!OnOneTab
<1>1. t1 \in Shelf!Rows /\ t1.stock >= 0
  BY DEF Shelf!ShelfInv, Shelf!TypeOK, Shelf!StockedOrSold, Shelf!Exists
<1>2. t1.status \in {"ACTIVE", "OUT_OF_STOCK", "DRAFT"} /\ t1.stock \in Int
  BY <1>1, ShelfFacts DEF Shelf!Rows
<1>3. \E tab : Shelf!Tabs(t1) = {tab}
  <2>1. CASE t1.status = "ACTIVE" /\ t1.stock > 0
    <3>1. Shelf!Tabs(t1) = {"active"}
      BY <2>1 DEF Shelf!Tabs
    <3>. QED
      BY <3>1
  <2>2. CASE t1.status = "OUT_OF_STOCK" \/ (t1.status = "ACTIVE" /\ t1.stock = 0)
    <3>1. Shelf!Tabs(t1) = {"out_of_stock"}
      BY <2>2 DEF Shelf!Tabs
    <3>. QED
      BY <3>1
  <2>3. CASE t1.status = "DRAFT"
    <3>1. Shelf!Tabs(t1) = {"draft"}
      BY <2>3 DEF Shelf!Tabs
    <3>. QED
      BY <3>1
  <2>4. t1.stock > 0 \/ t1.stock = 0
    BY <1>1, <1>2
  <2>. QED
    BY <1>2, <2>1, <2>2, <2>3, <2>4
<1>. QED
  BY <1>3, FS_Singleton, ShelfCardinality

\* A product with variants can be bought in each of its combinations and its column is the
\* sum of their stocks, whatever edits, sales and cancellations overlap.  Where they do not,
\* it is listed at its lowest price, and every product is found on one tab, but one with a
\* stock of minus one that an order lists twice (products.service.ts:103-179,
\* product-variants.util.ts:75-129).
THEOREM ProductsStaySellable == PartSpec => []ProductsSellable
<1>. DEFINE IInv == part = "catalogue" => Shelf!ShelfInv
<1>1. PartInit => IInv
  BY ShelfStart, ShelfInit
<1>2. IInv /\ [PartNext]_<<vars, store>> => IInv'
  <2>. SUFFICES ASSUME IInv, [PartNext]_<<vars, store>>, part' = "catalogue"
                PROVE  Shelf!ShelfInv'
    OBVIOUS
  <2>1. part = "catalogue"
    BY DEF PartNext, store
  <2>2. [Shelf!Next]_Shelf!vars
    BY <2>1, ShelfStep
  <2>. QED
    BY <2>1, <2>2, ShelfKept
<1>3. IInv => ProductsSellable
  BY OneTab DEF ProductsSellable, Shelf!ShelfInv
<1>. HIDE DEF IInv
<1>. QED
  BY <1>1, <1>2, <1>3, PTL DEF PartSpec

-----------------------------------------------------------------------------
(***************************************************************************)
(* Invoices: what the pages of a document come to.                         *)
(***************************************************************************)
LEMMA InvoicesStart ==
    ASSUME PartInit, part = "invoices"
    PROVE  Invoice!Init
BY DEF PartInit

LEMMA InvoicesStep ==
    ASSUME [PartNext]_<<vars, store>>, part = "invoices"
    PROVE  [Invoice!Next]_Invoice!vars
BY DEF PartNext, vars, store, Invoice!vars, Invoice!slot

LEMMA InvoiceFacts ==
    /\ Purchases \subseteq [kind : {"order", "replacement"}, lines : Seq(Invoice!Lines),
                            fee : Nat, pin : Nat]
    /\ SellerAddresses \in [Billers -> SUBSET SUBSET {"business", "pickup"}]
    /\ LastInvoiceDay \in Nat
BY InvoiceConstants DEF Invoice!InvoicesAssumption

LEMMA InvoiceCardinality ==
    ASSUME NEW S
    PROVE  Invoice!Cardinality(S) = Cardinality(S)
BY DEF Invoice!Cardinality, Cardinality, Invoice!IsFiniteSet, IsFiniteSet

LEMMA InvoiceSum ==
    ASSUME NEW f
    PROVE  Invoice!SumFunction(f) = SumOf(f, DOMAIN f)
BY DEF SumOf, MapThenSumSet, MapThenFoldSet, Invoice!SumFunction, Invoice!SumFunctionOnSet,
   Invoice!FoldFunctionOnSet, Invoice!MapThenFoldSet

LEMMA InvoicePricing ==
    /\ \A amount, percent, intra :
          Invoice!SplitGst(amount, percent, intra) = SplitGst(amount, percent, intra)
    /\ \A split : Invoice!TaxOf(split) = TaxOf(split)
    /\ \A fee, a, t, n : Invoice!DeliveryShare(fee, a, t, n) = DeliveryShare(fee, a, t, n)
    /\ Invoice!ShippingGst = 18
BY DEF Invoice!SplitGst, SplitGst, Invoice!RoundInr, RoundInr, Invoice!TaxOf, TaxOf,
   Invoice!DeliveryShare, DeliveryShare, Invoice!ShippingGst

\* The lines of a basket, with their amounts and sellers.
AmountsOf(b) == [i \in DOMAIN b.lines |-> b.lines[i].amount]
SellerOf(b) == [i \in DOMAIN b.lines |-> b.lines[i].seller]

LEMMA BasketSets ==
    ASSUME NEW b \in Purchases
    PROVE  /\ IsFiniteSet(DOMAIN b.lines) /\ IsFiniteSet(Invoice!SellersOf(b)) /\ b.fee \in Nat
           /\ \A i \in DOMAIN b.lines : /\ AmountsOf(b)[i] \in Nat /\ b.lines[i].gst \in Nat
                                        /\ b.lines[i].amount = AmountsOf(b)[i]
                                        /\ SellerOf(b)[i] \in Invoice!SellersOf(b)
           /\ \A s : Invoice!LinesOf(b, s) = {i \in DOMAIN b.lines : SellerOf(b)[i] = s}
<1>1. b.lines \in Seq(Invoice!Lines) /\ b.fee \in Nat
  BY InvoiceFacts
<1>2. DOMAIN b.lines = 1..Len(b.lines) /\ Len(b.lines) \in Nat
  BY <1>1
<1>3. IsFiniteSet(DOMAIN b.lines)
  BY <1>2, IntervalTo
<1>4. IsFiniteSet(Invoice!SellersOf(b))
  <2>. DEFINE f == SellerOf(b)
              D == DOMAIN b.lines
              S == Invoice!SellersOf(b)
  <2>1. f \in [D -> S] /\ \A s \in S : \E i \in D : f[i] = s
    BY DEF Invoice!SellersOf, SellerOf
  <2>2. IsFiniteSet(D)
    BY <1>3
  <2>. HIDE DEF f, D, S
  <2>3. f \in Surjection(D, S)
    BY <2>1 DEF Surjection
  <2>4. IsFiniteSet(S)
    BY <2>2, <2>3, FS_Surjection
  <2>. QED
    BY <2>4 DEF S
<1>5. \A i \in DOMAIN b.lines : b.lines[i] \in Invoice!Lines
  BY <1>1
<1>. QED
  BY <1>1, <1>3, <1>4, <1>5 DEF AmountsOf, SellerOf, Invoice!SellersOf, Invoice!LinesOf,
     Invoice!Lines

LEMMA AmountIs ==
    ASSUME NEW b \in Purchases, NEW L \in SUBSET DOMAIN b.lines
    PROVE  Invoice!Amount(b, L) = SumOf(AmountsOf(b), L) /\ Invoice!Amount(b, L) \in Nat
<1>. DEFINE f == [i \in L |-> b.lines[i].amount]
<1>1. IsFiniteSet(L)
  BY BasketSets, FS_Subset
<1>2. \A i \in L : AmountsOf(b)[i] \in Nat /\ f[i] \in Nat /\ f[i] = AmountsOf(b)[i]
  BY BasketSets
<1>3. Invoice!Amount(b, L) = SumOf(f, L)
  BY InvoiceSum DEF Invoice!Amount
<1>. HIDE DEF f
<1>4. \A i \in L : f[i] \in Int /\ AmountsOf(b)[i] = f[i]
  BY <1>2
<1>5. SumOf(f, L) = SumOf(AmountsOf(b), L)
  BY <1>1, <1>4, SumSame
<1>6. SumOf(f, L) \in Nat
  BY <1>1, <1>2, SumOfNumbers
<1>. QED
  BY <1>3, <1>5, <1>6

LEMMA SplitTypes ==
    ASSUME NEW amount \in Nat, NEW percent \in Nat, NEW intra \in BOOLEAN
    PROVE  LET split == Invoice!SplitGst(amount, percent, intra) IN
           /\ split.net \in Int /\ Invoice!TaxOf(split) \in Int
           /\ split.net + Invoice!TaxOf(split) = amount
<1>. DEFINE net == RoundInr(100 * amount, 100 + percent)
            half == RoundInr(amount - net, 2)
            split == SplitGst(amount, percent, intra)
<1>1. net \in Int
  <2>1. 100 * amount \in Int /\ 100 + percent \in Int /\ 100 + percent > 0
    OBVIOUS
  <2>. QED
    BY <2>1, RoundInrBounds
<1>2. half \in Int
  <2>. HIDE DEF net
  <2>1. amount - net \in Int
    BY <1>1
  <2>. QED
    BY <2>1, RoundInrBounds
<1>3. split.net = net
      /\ (intra => split.cgst = half /\ split.sgst = amount - net - half /\ split.igst = 0)
      /\ (~intra => split.cgst = 0 /\ split.sgst = 0 /\ split.igst = amount - net)
  BY DEF SplitGst
<1>4. split.net + TaxOf(split) = amount
  BY SplitAddsUp
<1>5. TaxOf(split) = split.cgst + split.sgst + split.igst
  BY DEF TaxOf
<1>. HIDE DEF net, half, split
<1>6. TaxOf(split) \in Int
  BY <1>1, <1>2, <1>3, <1>5
<1>. QED
  BY <1>1, <1>3, <1>4, <1>6, InvoicePricing DEF split

\* What a seller bills of the delivery fee.
ShareOf(b, s) ==
    Invoice!DeliveryShare(b.fee, Invoice!Amount(b, Invoice!LinesOf(b, s)), Invoice!Subtotal(b),
                          Invoice!Cardinality(Invoice!SellersOf(b)))

LEMMA SubtotalIs ==
    ASSUME NEW b \in Purchases
    PROVE  /\ Invoice!Subtotal(b) = SumOf(AmountsOf(b), DOMAIN b.lines)
           /\ Invoice!Subtotal(b) \in Nat
BY AmountIs DEF Invoice!Subtotal

LEMMA ShareBounds ==
    ASSUME NEW b \in Purchases, NEW s
    PROVE  LET n == Cardinality(Invoice!SellersOf(b))
               a == Invoice!Amount(b, Invoice!LinesOf(b, s))
               t == IF Invoice!Subtotal(b) < 100 THEN 100 ELSE Invoice!Subtotal(b)
           IN  /\ ShareOf(b, s) \in Nat
               /\ n = 1 => ShareOf(b, s) = b.fee
               /\ n # 1 => /\ 2 * t * ShareOf(b, s) <= 2 * b.fee * a + t
                           /\ 2 * b.fee * a <= 2 * t * ShareOf(b, s) + t
<1>. DEFINE n == Cardinality(Invoice!SellersOf(b))
            a == Invoice!Amount(b, Invoice!LinesOf(b, s))
            sum == Invoice!Subtotal(b)
            t == IF sum < 100 THEN 100 ELSE sum
            fee == b.fee
            x == RoundInr(fee * a, t)
<1>1. a \in Nat
  BY BasketSets, AmountIs
<1>2. sum \in Nat /\ fee \in Nat
  BY SubtotalIs, BasketSets
<1>3. ShareOf(b, s) = IF n = 1 THEN fee ELSE x
  BY InvoicePricing, InvoiceCardinality DEF ShareOf, DeliveryShare
<1>. HIDE DEF a, sum, fee, n
<1>4. t \in Int /\ t > 0 /\ fee * a \in Int /\ fee * a >= 0
  BY <1>1, <1>2, SMT
<1>. HIDE DEF t
<1>5. /\ x \in Int /\ 2 * t * x <= 2 * (fee * a) + t
      /\ 2 * (fee * a) + t < 2 * t * x + 2 * t
  <2>. DEFINE y == fee * a
  <2>1. y \in Int
    BY <1>4
  <2>. HIDE DEF y
  <2>2. /\ RoundInr(y, t) \in Int /\ 2 * t * RoundInr(y, t) <= 2 * y + t
        /\ 2 * y + t < 2 * t * RoundInr(y, t) + 2 * t
    BY <1>4, <2>1, RoundInrBounds
  <2>. QED
    BY <2>2 DEF y
<1>. HIDE DEF x
<1>6. x >= 0
  <2>1. 2 * t * (x + 1) > 0
    BY <1>4, <1>5
  <2>. QED
    BY <1>4, <1>5, <2>1
<1>7. 2 * (fee * a) <= 2 * t * x + t
  <2>. DEFINE y == fee * a
              z == t * x
  <2>1. y \in Int /\ z \in Int /\ 2 * t * x = 2 * z
    BY <1>4, <1>5
  <2>2. 2 * y + t < 2 * t * x + 2 * t
    BY <1>5
  <2>. HIDE DEF y, z
  <2>3. 2 * y <= 2 * t * x + t
    BY <1>4, <2>1, <2>2
  <2>. QED
    BY <2>3 DEF y
<1>8. 2 * fee * a = 2 * (fee * a)
  BY <1>1, <1>2
<1>9. /\ ShareOf(b, s) \in Nat
      /\ n = 1 => ShareOf(b, s) = fee
      /\ n # 1 => 2 * t * ShareOf(b, s) <= 2 * fee * a + t
                  /\ 2 * fee * a <= 2 * t * ShareOf(b, s) + t
  BY <1>2, <1>3, <1>5, <1>6, <1>7, <1>8
<1>. QED
  BY <1>9 DEF n, a, t, sum, fee

\* A page adds up.
LEMMA PageAddsUp ==
    ASSUME NEW b \in Purchases, NEW s
    PROVE  LET page == Invoice!Page(b, s) IN
           /\ page.total = Invoice!Amount(b, Invoice!LinesOf(b, s)) + ShareOf(b, s)
           /\ page.net + page.tax = page.total
           /\ page.total \in Nat
<1>. DEFINE L == Invoice!LinesOf(b, s)
            here == Invoice!Intra(b, s)
            split == [i \in L |-> Invoice!SplitGst(b.lines[i].amount, b.lines[i].gst, here)]
            carriage == Invoice!SplitGst(ShareOf(b, s), 18, here)
            nets == [i \in L |-> split[i].net]
            taxes == [i \in L |-> Invoice!TaxOf(split[i])]
            page == Invoice!Page(b, s)
            amount == Invoice!Amount(b, L)
<1>1. L \in SUBSET DOMAIN b.lines /\ IsFiniteSet(L)
  BY BasketSets, FS_Subset
<1>2. here \in BOOLEAN
  BY DEF Invoice!Intra
<1>3. amount = SumOf(AmountsOf(b), L) /\ amount \in Nat
  BY <1>1, AmountIs
<1>4. ShareOf(b, s) \in Nat
  BY ShareBounds
<1>5. page.total = amount + ShareOf(b, s)
      /\ page.net = SumOf(nets, L) + carriage.net
      /\ page.tax = SumOf(taxes, L) + Invoice!TaxOf(carriage)
  <2>1. page = [total |-> amount + ShareOf(b, s),
                net |-> Invoice!SumFunction(nets) + carriage.net,
                tax |-> Invoice!SumFunction(taxes) + Invoice!TaxOf(carriage)]
    BY InvoicePricing DEF Invoice!Page, ShareOf
  <2>2. Invoice!SumFunction(nets) = SumOf(nets, L) /\ Invoice!SumFunction(taxes) = SumOf(taxes, L)
    BY InvoiceSum
  <2>. QED
    BY <2>1, <2>2
<1>6. \A i \in L : /\ nets[i] \in Int /\ taxes[i] \in Int
                   /\ AmountsOf(b)[i] = nets[i] + taxes[i]
  <2>1. ASSUME NEW i \in L
        PROVE  /\ nets[i] \in Int /\ taxes[i] \in Int
               /\ AmountsOf(b)[i] = nets[i] + taxes[i]
    <3>1. /\ b.lines[i].amount \in Nat /\ b.lines[i].gst \in Nat
          /\ AmountsOf(b)[i] = b.lines[i].amount
      BY <1>1, BasketSets
    <3>2. nets[i] = Invoice!SplitGst(b.lines[i].amount, b.lines[i].gst, here).net
          /\ taxes[i] = Invoice!TaxOf(Invoice!SplitGst(b.lines[i].amount, b.lines[i].gst, here))
      OBVIOUS
    <3>. HIDE DEF here, nets, taxes
    <3>. QED
      BY <1>2, <3>1, <3>2, SplitTypes
  <2>. QED
    BY <2>1
<1>7. carriage.net \in Int /\ Invoice!TaxOf(carriage) \in Int
      /\ carriage.net + Invoice!TaxOf(carriage) = ShareOf(b, s)
  BY <1>2, <1>4, SplitTypes
<1>. HIDE DEF nets, taxes, carriage, L, page, amount
<1>8. SumOf(AmountsOf(b), L) = SumOf(nets, L) + SumOf(taxes, L)
  BY <1>1, <1>6, SumAdds
<1>9. SumOf(nets, L) \in Int /\ SumOf(taxes, L) \in Int
  BY <1>1, <1>6, SumParts DEF Summed
<1>10. page.net + page.tax = page.total /\ page.total \in Nat
  BY <1>3, <1>4, <1>5, <1>7, <1>8, <1>9
<1>. QED
  BY <1>5, <1>10 DEF page, amount, L

\* Half a paisa for each page at most, between what is billed of the fee and the fee.
LEMMA SharesCoverFee ==
    ASSUME NEW S, IsFiniteSet(S), NEW share, NEW a, NEW t \in Nat, t > 0, NEW fee \in Nat,
           SumOf(a, S) = t,
           \A s \in S : /\ share[s] \in Nat /\ a[s] \in Nat
                        /\ 2 * t * share[s] <= 2 * fee * a[s] + t
                        /\ 2 * fee * a[s] <= 2 * t * share[s] + t
    PROVE  /\ 2 * (SumOf(share, S) - fee) <= Cardinality(S)
           /\ -2 * (SumOf(share, S) - fee) <= Cardinality(S)
<1>. DEFINE p == [s \in S |-> 2 * t * share[s]]
            q == [s \in S |-> 2 * fee * a[s]]
            n == Cardinality(S)
            sum == SumOf(share, S)
<1>1. n \in Nat /\ sum \in Int
  <2>1. \A s \in S : share[s] \in Int
    OBVIOUS
  <2>2. SumOf(share, S) \in Int
    BY <2>1, SumPartsOf DEF Summed
  <2>. QED
    BY <2>2, FS_CardinalityType
<1>2. \A s \in S : share[s] \in Int /\ p[s] = (2 * t) * share[s] /\ a[s] \in Int
                   /\ q[s] = (2 * fee) * a[s]
  OBVIOUS
<1>3. \A s \in S : p[s] \in Int /\ q[s] \in Int /\ p[s] <= q[s] + t /\ q[s] <= p[s] + t
  <2>1. ASSUME NEW s \in S
        PROVE  p[s] \in Int /\ q[s] \in Int /\ p[s] <= q[s] + t /\ q[s] <= p[s] + t
    <3>1. p[s] = 2 * t * share[s] /\ q[s] = 2 * fee * a[s]
      OBVIOUS
    <3>2. p[s] \in Int /\ q[s] \in Int
      BY <1>2
    <3>. HIDE DEF p, q
    <3>. QED
      BY <3>1, <3>2
  <2>. QED
    BY <2>1
<1>. HIDE DEF p, q
<1>4. SumOf(p, S) = (2 * t) * sum
  <2>1. 2 * t \in Int
    OBVIOUS
  <2>. QED
    BY <1>2, <2>1, SumScales
<1>5. SumOf(q, S) = (2 * fee) * t
  <2>1. 2 * fee \in Int
    OBVIOUS
  <2>. QED
    BY <1>2, <2>1, SumScales
<1>6. SumOf(p, S) <= SumOf(q, S) + t * n /\ SumOf(q, S) <= SumOf(p, S) + t * n
  <2>1. t \in Int
    OBVIOUS
  <2>. QED
    BY <1>3, <2>1, SumWithin
<1>. HIDE DEF n, sum
<1>7. 2 * (sum - fee) <= n /\ -2 * (sum - fee) <= n
  <2>. DEFINE x == 2 * (sum - fee)
  <2>1. x \in Int /\ t * x = (2 * t) * sum - (2 * fee) * t
    BY <1>1
  <2>. HIDE DEF x
  <2>2. t * x <= t * n /\ t * (-x) <= t * n
    <3>. DEFINE y == t * x
                z == t * n
    <3>1. y \in Int /\ z \in Int /\ t * (-x) = -y
      BY <1>1, <2>1
    <3>2. y = SumOf(p, S) - SumOf(q, S)
      BY <1>4, <1>5, <2>1
    <3>3. SumOf(p, S) \in Int /\ SumOf(q, S) \in Int
      BY <1>1, <1>4, <1>5
    <3>4. SumOf(p, S) <= SumOf(q, S) + z /\ SumOf(q, S) <= SumOf(p, S) + z
      BY <1>6
    <3>. HIDE DEF y, z
    <3>5. y <= z /\ -y <= z
      BY <3>1, <3>2, <3>3, <3>4
    <3>. QED
      BY <3>1, <3>5 DEF y, z
  <2>3. x <= n
    <3>1. SUFFICES ASSUME x >= n + 1 PROVE FALSE
      BY <1>1, <2>1
    <3>2. t * (x - n) > 0 /\ t * (x - n) = t * x - t * n
      BY <1>1, <2>1, <3>1
    <3>. QED
      BY <1>1, <2>1, <2>2, <3>2
  <2>4. -x <= n
    <3>1. SUFFICES ASSUME -x >= n + 1 PROVE FALSE
      BY <1>1, <2>1
    <3>2. t * ((-x) - n) > 0 /\ t * ((-x) - n) = t * (-x) - t * n
      BY <1>1, <2>1, <3>1
    <3>. QED
      BY <1>1, <2>1, <2>2, <3>2
  <2>. QED
    BY <1>1, <2>3, <2>4 DEF x
<1>. QED
  BY <1>7 DEF n, sum

\* The pages of a document come to what it cost.
LEMMA PagesCover ==
    ASSUME NEW b \in Purchases
    PROVE  LET pages == Invoice!Pages(b)
               n == Invoice!Cardinality(DOMAIN pages)
               off == Invoice!SumFunction([s \in DOMAIN pages |-> pages[s].total]) - Invoice!Total(b)
           IN  /\ \A s \in DOMAIN pages : pages[s].net + pages[s].tax = pages[s].total
               /\ Invoice!Subtotal(b) >= 100 => 2 * off <= n /\ -2 * off <= n
               /\ n = 1 => off = 0
<1>. DEFINE pages == Invoice!Pages(b)
            S == Invoice!SellersOf(b)
            D == DOMAIN b.lines
            n == Cardinality(S)
            totals == [s \in S |-> pages[s].total]
            amounts == [s \in S |-> Invoice!Amount(b, Invoice!LinesOf(b, s))]
            shares == [s \in S |-> ShareOf(b, s)]
            sum == Invoice!Subtotal(b)
            fee == b.fee
            off == SumOf(totals, S) - (sum + fee)
<1>1. DOMAIN pages = S /\ \A s \in S : pages[s] = Invoice!Page(b, s)
  BY DEF Invoice!Pages
<1>2. IsFiniteSet(S) /\ IsFiniteSet(D) /\ fee \in Nat /\ sum \in Nat /\ n \in Nat
  BY BasketSets, SubtotalIs, FS_CardinalityType
<1>3. \A s \in S : /\ amounts[s] \in Int /\ shares[s] \in Int
                   /\ totals[s] = amounts[s] + shares[s]
                   /\ amounts[s] \in Nat /\ shares[s] \in Nat
  <2>1. ASSUME NEW s \in S
        PROVE  amounts[s] \in Nat /\ shares[s] \in Nat /\ totals[s] = amounts[s] + shares[s]
    <3>1. Invoice!LinesOf(b, s) \in SUBSET D
      BY BasketSets
    <3>2. Invoice!Amount(b, Invoice!LinesOf(b, s)) \in Nat
      BY <3>1, AmountIs
    <3>3. ShareOf(b, s) \in Nat
      BY ShareBounds
    <3>4. Invoice!Page(b, s).total = Invoice!Amount(b, Invoice!LinesOf(b, s)) + ShareOf(b, s)
      BY PageAddsUp
    <3>. QED
      BY <1>1, <3>2, <3>3, <3>4
  <2>. QED
    BY <2>1
<1>4. \A s \in S : pages[s].net + pages[s].tax = pages[s].total
  BY <1>1, PageAddsUp
<1>5. SumOf(amounts, S) = sum
  <2>1. \A i \in D : AmountsOf(b)[i] \in Int /\ SellerOf(b)[i] \in S
    BY BasketSets
  <2>2. \A s \in S : amounts[s] = SumOf(AmountsOf(b), OfKind(D, SellerOf(b), s))
    BY BasketSets, AmountIs DEF OfKind
  <2>3. sum = SumOf(AmountsOf(b), D)
    BY SubtotalIs
  <2>. HIDE DEF amounts, S, D, sum
  <2>4. SumOf(amounts, S) = SumOf(AmountsOf(b), D)
    <3>. DEFINE amt == AmountsOf(b)
                kind == SellerOf(b)
    <3>1. \A i \in D : amt[i] \in Int
      BY <2>1
    <3>2. \A i \in D : kind[i] \in S
      BY <2>1
    <3>3. \A s \in S : amounts[s] = SumOf(amt, OfKind(D, kind, s))
      BY <2>2
    <3>. HIDE DEF amt, kind
    <3>4. SumOf(amounts, S) = SumOf(amt, D)
      BY <1>2, <3>1, <3>2, <3>3, SumByKind
    <3>. QED
      BY <3>4 DEF amt
  <2>. QED
    BY <2>3, <2>4
<1>6. Invoice!SumFunction([s \in DOMAIN pages |-> pages[s].total]) = SumOf(totals, S)
      /\ Invoice!Total(b) = sum + fee /\ Invoice!Cardinality(DOMAIN pages) = n
  BY <1>1, InvoiceSum, InvoiceCardinality DEF Invoice!Total
<1>7. /\ \A s \in S : n = 1 => shares[s] = fee
      /\ \A s \in S : n # 1 /\ sum >= 100 =>
            /\ 2 * sum * shares[s] <= 2 * fee * amounts[s] + sum
            /\ 2 * fee * amounts[s] <= 2 * sum * shares[s] + sum
  <2>1. ASSUME NEW s \in S, n = 1 PROVE shares[s] = fee
    BY <2>1, ShareBounds
  <2>2. ASSUME NEW s \in S, n # 1, sum >= 100
        PROVE  /\ 2 * sum * shares[s] <= 2 * fee * amounts[s] + sum
               /\ 2 * fee * amounts[s] <= 2 * sum * shares[s] + sum
    <3>1. ~(sum < 100)
      BY <1>2, <2>2
    <3>2. LET t == IF sum < 100 THEN 100 ELSE sum IN
          /\ 2 * t * ShareOf(b, s) <= 2 * fee * Invoice!Amount(b, Invoice!LinesOf(b, s)) + t
          /\ 2 * fee * Invoice!Amount(b, Invoice!LinesOf(b, s)) <= 2 * t * ShareOf(b, s) + t
      BY <2>2, ShareBounds
    <3>3. shares[s] = ShareOf(b, s) /\ amounts[s] = Invoice!Amount(b, Invoice!LinesOf(b, s))
      OBVIOUS
    <3>. HIDE DEF shares, amounts, sum, fee
    <3>. QED
      BY <3>1, <3>2, <3>3
  <2>. QED
    BY <2>1, <2>2
<1>. HIDE DEF totals, amounts, shares, S, D, n, sum, fee
<1>8. SumOf(totals, S) = SumOf(amounts, S) + SumOf(shares, S)
  BY <1>2, <1>3, SumAdds
<1>9. SumOf(shares, S) \in Int
  BY <1>2, <1>3, SumPartsOf DEF Summed
<1>10. off = SumOf(shares, S) - fee
  BY <1>2, <1>5, <1>8, <1>9
<1>. HIDE DEF off
<1>11. ASSUME n = 1 PROVE off = 0
  <2>1. PICK s : S = {s}
    <3>1. Cardinality(S) = 1
      BY <1>11 DEF n
    <3>. QED
      BY <1>2, <3>1, FS_Singleton
  <2>2. SumOf(shares, S) = shares[s] + SumOf(shares, S \ {s})
    <3>1. Summed(shares, S)
      BY <1>2, <1>3, SumPartsOf
    <3>. QED
      BY <2>1, <3>1 DEF Summed
  <2>3. S \ {s} = {} /\ shares[s] = fee
    BY <1>7, <1>11, <2>1
  <2>4. SumOf(shares, {}) = 0
    BY <1>2, <1>3, SumPartsOf
  <2>5. SumOf(shares, S) = fee
    BY <1>2, <2>2, <2>3, <2>4
  <2>. QED
    BY <1>2, <1>10, <2>5
<1>12. ASSUME sum >= 100, n # 1 PROVE 2 * off <= n /\ -2 * off <= n
  <2>1. /\ 2 * (SumOf(shares, S) - fee) <= Cardinality(S)
        /\ -2 * (SumOf(shares, S) - fee) <= Cardinality(S)
    <3>1. sum > 0
      BY <1>2, <1>12
    <3>. QED
      BY <1>2, <1>3, <1>5, <1>7, <1>12, <3>1, SharesCoverFee
  <2>. QED
    BY <1>10, <2>1 DEF n
<1>13. sum >= 100 => 2 * off <= n /\ -2 * off <= n
  BY <1>2, <1>11, <1>12
<1>. QED
  BY <1>1, <1>4, <1>6, <1>11, <1>13 DEF off, n, totals, sum, fee, S

\* What a document, an open download and what was printed keep to.
RowTypes == [status : Invoice!Statuses, on : Invoice!Days \cup {Invoice!NoDay},
             number : Invoice!Numbers \cup {Invoice!NoNumber}]

RowTrue(d, it, alone) ==
    /\ it.status # "open" => it.on \in Invoice!Days
    /\ alone /\ it.number # Invoice!NoNumber =>
          it.status # "open" /\ it.number = Invoice!NumberOf(d, it.on)

RowsTrue(rows, alone) ==
    /\ rows \in [Pair -> RowTypes]
    /\ \A d \in Pair : RowTrue(d, rows[d], alone)
    /\ \A d, x \in Pair :
          rows[d].number = rows[x].number /\ rows[d].number # Invoice!NoNumber =>
              d = x \/ Invoice!IsReplacement(d) # Invoice!IsReplacement(x)

OpenTrue(at, has, rows, alone) ==
    IF at = "idle" THEN has = Invoice!Free
    ELSE /\ has \in Invoice!Job
         /\ alone => /\ rows[has.doc].status # "open" /\ has.on = rows[has.doc].on
                     /\ has.number # Invoice!NoNumber => rows[has.doc].number = has.number

PrintTrue(prints, it, b, alone) ==
    \A p \in prints : /\ p.number \in Invoice!Numbers /\ p.pages = Invoice!Pages(b)
                      /\ alone => p.number = it.number

OpensTrue(rows, alone) ==
    /\ step \in [Slots -> {"idle", "number", "sellers"}] /\ DOMAIN task = Slots
    /\ \A r \in Slots : OpenTrue(step[r], task[r], rows, alone)

PrintsTrue(rows, alone) ==
    /\ DOMAIN t5 = Pair
    /\ \A d \in Pair : PrintTrue(t5[d], rows[d], t2[d], alone)

RestTrue == /\ serial \in BOOLEAN /\ t1 \in Invoice!Days /\ t2 \in [Pair -> Purchases]
            /\ t4 \in Invoice!Profile

LEMMA InvoicesInvIs ==
    Invoice!InvoicesInv <=>
        RestTrue /\ RowsTrue(t3, serial) /\ OpensTrue(t3, serial) /\ PrintsTrue(t3, serial)
<1>1. ASSUME Invoice!InvoicesInv
      PROVE  RestTrue /\ RowsTrue(t3, serial) /\ OpensTrue(t3, serial) /\ PrintsTrue(t3, serial)
  <2>. USE <1>1 DEF Invoice!InvoicesInv, Invoice!TypeOK
  <2>1. RestTrue
    BY DEF RestTrue
  <2>2. RowsTrue(t3, serial)
    BY DEF RowsTrue, RowTrue, RowTypes, Invoice!DeliveredOn, Invoice!NumbersDiffer,
       Invoice!DayStays
  <2>3. OpensTrue(t3, serial)
    BY DEF OpensTrue, OpenTrue, Invoice!DayStays
  <2>4. PrintsTrue(t3, serial)
    BY DEF PrintsTrue, PrintTrue, Invoice!OneNumber, Invoice!PagesAreBaskets
  <2>. QED
    BY <2>1, <2>2, <2>3, <2>4
<1>2. ASSUME RestTrue, RowsTrue(t3, serial), OpensTrue(t3, serial), PrintsTrue(t3, serial)
      PROVE  Invoice!InvoicesInv
  <2>1. Invoice!TypeOK
    BY <1>2 DEF Invoice!TypeOK, RestTrue, RowsTrue, RowTypes, OpensTrue, OpenTrue, PrintsTrue,
       PrintTrue
  <2>2. Invoice!OneNumber /\ Invoice!PagesAreBaskets
    BY <1>2 DEF Invoice!OneNumber, Invoice!PagesAreBaskets, PrintsTrue, PrintTrue
  <2>3. Invoice!DeliveredOn /\ Invoice!NumbersDiffer
    BY <1>2 DEF Invoice!DeliveredOn, Invoice!NumbersDiffer, RowsTrue, RowTrue
  <2>4. Invoice!DayStays
    BY <1>2 DEF Invoice!DayStays, RowsTrue, RowTrue, OpensTrue, OpenTrue
  <2>. QED
    BY <2>1, <2>2, <2>3, <2>4 DEF Invoice!InvoicesInv
<1>. QED
  BY <1>1, <1>2

LEMMA NumberIsNumber ==
    /\ \A d \in Pair : \A day \in Invoice!Days : Invoice!NumberOf(d, day) \in Invoice!Numbers
    /\ \A number \in Invoice!Numbers : number # Invoice!NoNumber
<1>1. \A x, y : <<x, y>> # <<>>
  <2>1. ASSUME NEW x, NEW y, <<x, y>> = <<>> PROVE FALSE
    <3>1. Len(<<x, y>>) = 2 /\ Len(<<>>) = 0
      OBVIOUS
    <3>. QED
      BY <2>1, <3>1
  <2>. QED
    BY <2>1
<1>. QED
  BY <1>1 DEF Invoice!NumberOf, Invoice!Numbers, Invoice!NoNumber

LEMMA InvoicesInit == Invoice!Init => Invoice!InvoicesInv
<1>. SUFFICES ASSUME Invoice!Init PROVE Invoice!InvoicesInv
  OBVIOUS
<1>1. RestTrue
  BY InvoiceFacts DEF Invoice!Init, RestTrue, Invoice!Days
<1>2. RowsTrue(t3, serial)
  BY DEF Invoice!Init, RowsTrue, RowTrue, RowTypes, Invoice!Statuses
<1>3. OpensTrue(t3, serial)
  BY DEF Invoice!Init, OpensTrue, OpenTrue
<1>4. PrintsTrue(t3, serial)
  BY DEF Invoice!Init, PrintsTrue, PrintTrue
<1>. QED
  BY <1>1, <1>2, <1>3, <1>4, InvoicesInvIs

\* Of a step that changes rows: the day and the number of a document stay.
RowsStay(rows, now, alone) ==
    alone => \A d \in Pair :
        /\ rows[d].status # "open" => now[d].status # "open" /\ now[d].on = rows[d].on
        /\ rows[d].number # Invoice!NoNumber => now[d].number = rows[d].number

LEMMA StayTrue ==
    ASSUME RowsStay(t3, t3', serial), UNCHANGED serial
    PROVE  /\ OpensTrue(t3, serial) /\ UNCHANGED <<step, task>> => OpensTrue(t3, serial)'
           /\ PrintsTrue(t3, serial) /\ UNCHANGED <<t2, t5>> => PrintsTrue(t3, serial)'
           /\ \A at, has : OpenTrue(at, has, t3, serial) => OpenTrue(at, has, t3', serial)
           /\ \A d \in Pair : \A prints, b :
                 PrintTrue(prints, t3[d], b, serial) => PrintTrue(prints, t3'[d], b, serial)
<1>1. \A at, has : OpenTrue(at, has, t3, serial) => OpenTrue(at, has, t3', serial)
  <2>1. \A has \in Invoice!Job : has.doc \in Pair
    BY DEF Invoice!Job
  <2>. QED
    BY <2>1 DEF OpenTrue, RowsStay
<1>2. \A d \in Pair : \A prints, b :
         PrintTrue(prints, t3[d], b, serial) => PrintTrue(prints, t3'[d], b, serial)
  BY NumberIsNumber DEF PrintTrue, RowsStay
<1>. QED
  BY <1>1, <1>2 DEF OpensTrue, PrintsTrue

\* A step that changes one row and no more.
LEMMA BillMoves ==
    ASSUME Invoice!InvoicesInv, NEW d \in Pair, NEW it \in RowTypes,
           t3' = [t3 EXCEPT ![d] = it], it.number = t3[d].number, RowTrue(d, it, serial),
           serial /\ t3[d].status # "open" => it.status # "open" /\ it.on = t3[d].on,
           UNCHANGED <<serial, t1, t2, t4, t5, step, task>>
    PROVE  Invoice!InvoicesInv'
<1>1. RestTrue /\ RowsTrue(t3, serial) /\ OpensTrue(t3, serial) /\ PrintsTrue(t3, serial)
  BY InvoicesInvIs
<1>2. t3 \in [Pair -> RowTypes]
  BY <1>1 DEF RowsTrue
<1>3. t3'[d] = it /\ \A x \in Pair : (x # d => t3'[x] = t3[x]) /\ t3'[x].number = t3[x].number
  BY <1>2
<1>4. RowsTrue(t3, serial)'
  <2>1. t3' \in [Pair -> RowTypes]
    BY <1>2
  <2>2. \A x \in Pair : RowTrue(x, t3'[x], serial')
    BY <1>1, <1>3 DEF RowsTrue
  <2>. QED
    BY <1>1, <1>3, <2>1, <2>2 DEF RowsTrue, Invoice!IsReplacement
<1>5. RowsStay(t3, t3', serial)
  BY <1>3 DEF RowsStay
<1>6. OpensTrue(t3, serial)' /\ PrintsTrue(t3, serial)'
  BY <1>1, <1>5, StayTrue
<1>7. RestTrue'
  BY <1>1 DEF RestTrue
<1>. QED
  BY <1>4, <1>6, <1>7, InvoicesInvIs, PTL

LEMMA InvoicesDeliver ==
    ASSUME Invoice!InvoicesInv, NEW d \in Pair, Invoice!Deliver(d) \/ Invoice!Return(d)
    PROVE  Invoice!InvoicesInv'
<1>1. RestTrue /\ RowsTrue(t3, serial)
  BY InvoicesInvIs
<1>2. t3[d] \in RowTypes /\ t3 \in [Pair -> RowTypes] /\ RowTrue(d, t3[d], serial)
      /\ t1 \in Invoice!Days
  BY <1>1 DEF RowsTrue, RestTrue
<1>3. CASE Invoice!Deliver(d)
  <2>. DEFINE it == [t3[d] EXCEPT !.status = "DELIVERED", !.on = t1]
  <2>1. /\ t3' = [t3 EXCEPT ![d] = it]
        /\ t3[d].status = "open" \/ (t3[d].status = "DELIVERED" /\ ~serial)
        /\ UNCHANGED <<serial, t1, t2, t4, t5, step, task>>
    BY <1>2, <1>3 DEF Invoice!Deliver, Invoice!slot, RowTypes
  <2>2. it \in RowTypes /\ it.number = t3[d].number /\ it.status = "DELIVERED" /\ it.on = t1
    BY <1>2 DEF RowTypes, Invoice!Statuses
  <2>. HIDE DEF it
  <2>3. RowTrue(d, it, serial)
    BY <1>2, <2>1, <2>2 DEF RowTrue
  <2>. QED
    BY <2>1, <2>2, <2>3, BillMoves
<1>4. CASE Invoice!Return(d)
  <2>. DEFINE it == [t3[d] EXCEPT !.status = "closed"]
  <2>1. /\ t3' = [t3 EXCEPT ![d] = it] /\ t3[d].status = "DELIVERED"
        /\ UNCHANGED <<serial, t1, t2, t4, t5, step, task>>
    BY <1>2, <1>4 DEF Invoice!Return, Invoice!slot, RowTypes
  <2>2. it \in RowTypes /\ it.number = t3[d].number /\ it.status = "closed"
        /\ it.on = t3[d].on
    BY <1>2 DEF RowTypes, Invoice!Statuses
  <2>. HIDE DEF it
  <2>3. RowTrue(d, it, serial)
    BY <1>2, <2>1, <2>2 DEF RowTrue
  <2>. QED
    BY <2>1, <2>2, <2>3, BillMoves
<1>. QED
  BY <1>3, <1>4

\* A step of one download, with the rows and what was printed as they are.
LEMMA DownloadMoves ==
    ASSUME Invoice!InvoicesInv, NEW r \in Slots, NEW at \in {"idle", "number", "sellers"},
           NEW has, step' = [step EXCEPT ![r] = at], task' = [task EXCEPT ![r] = has],
           OpenTrue(at, has, t3', serial), RowsStay(t3, t3', serial), UNCHANGED serial
    PROVE  OpensTrue(t3, serial)'
<1>1. OpensTrue(t3, serial)
  BY InvoicesInvIs
<1>2. /\ step'[r] = at /\ task'[r] = has /\ DOMAIN task' = Slots
      /\ \A q \in Slots : q # r => step'[q] = step[q] /\ task'[q] = task[q]
      /\ step' \in [Slots -> {"idle", "number", "sellers"}]
  BY <1>1 DEF OpensTrue
<1>3. \A q \in Slots : OpenTrue(step[q], task[q], t3', serial)
  BY <1>1, StayTrue DEF OpensTrue
<1>4. (\A q \in Slots : OpenTrue(step[q], task[q], t3, serial))'
  BY <1>2, <1>3
<1>. QED
  BY <1>2, <1>4 DEF OpensTrue

LEMMA Shut ==
    ASSUME NEW rows, NEW alone
    PROVE  OpenTrue("idle", Invoice!Free, rows, alone)
BY DEF OpenTrue

LEMMA InvoicesRead ==
    ASSUME Invoice!InvoicesInv, NEW r \in Slots, NEW d \in Pair, Invoice!Download(r, d)
    PROVE  Invoice!InvoicesInv'
<1>. DEFINE has == [doc |-> d, number |-> t3[d].number, on |-> t3[d].on,
                    stored |-> {s \in Billers : "business" \in t4[s]}]
            at == IF t3[d].number # Invoice!NoNumber \/ Invoice!IsReplacement(d)
                  THEN "sellers" ELSE "number"
<1>1. RestTrue /\ RowsTrue(t3, serial) /\ PrintsTrue(t3, serial)
  BY InvoicesInvIs
<1>2. /\ step' = [step EXCEPT ![r] = at] /\ task' = [task EXCEPT ![r] = has]
      /\ t3[d].status = "DELIVERED" /\ UNCHANGED <<serial, t1, t2, t3, t4, t5>>
  BY DEF Invoice!Download, Invoice!ReadRow, Invoice!Keep
<1>3. has \in Invoice!Job
  BY <1>1, <1>2 DEF RowsTrue, RowTrue, RowTypes, Invoice!Job
<1>4. has.doc = d /\ has.on = t3[d].on /\ has.number = t3[d].number
  OBVIOUS
<1>5. at \in {"number", "sellers"}
  OBVIOUS
<1>. HIDE DEF has, at
<1>6. OpenTrue(at, has, t3', serial)
  BY <1>2, <1>3, <1>4, <1>5 DEF OpenTrue
<1>7. RowsStay(t3, t3', serial)
  BY <1>2 DEF RowsStay
<1>8. OpensTrue(t3, serial)'
  BY <1>2, <1>5, <1>6, <1>7, DownloadMoves
<1>9. RestTrue' /\ RowsTrue(t3, serial)' /\ PrintsTrue(t3, serial)'
  BY <1>1, <1>2 DEF RestTrue, RowsTrue, PrintsTrue, Invoice!IsReplacement
<1>. QED
  BY <1>8, <1>9, InvoicesInvIs, PTL

\* What a download has at hand.
LEMMA HasIsTrue ==
    ASSUME Invoice!InvoicesInv, NEW r \in Slots, step[r] # "idle"
    PROVE  task[r] \in Invoice!Job /\ OpenTrue(step[r], task[r], t3, serial)
<1>1. OpensTrue(t3, serial)
  BY InvoicesInvIs
<1>. QED
  BY <1>1 DEF OpensTrue, OpenTrue

\* A page is printed under the number of the row.
LEMMA Issued ==
    ASSUME Invoice!InvoicesInv, NEW d \in Pair, NEW number \in Invoice!Numbers,
           serial => t3'[d].number = number, RowsStay(t3, t3', serial), UNCHANGED <<serial, t2>>,
           t5' = [t5 EXCEPT ![d] = @ \cup {[number |-> number, pages |-> Invoice!Pages(t2[d])]}]
    PROVE  PrintsTrue(t3, serial)'
<1>. DEFINE p == [number |-> number, pages |-> Invoice!Pages(t2[d])]
<1>1. PrintsTrue(t3, serial)
  BY InvoicesInvIs
<1>2. \A x \in Pair : PrintTrue(t5[x], t3'[x], t2[x], serial)
  BY <1>1, StayTrue DEF PrintsTrue
<1>3. DOMAIN t5' = Pair /\ t5'[d] = t5[d] \cup {p} /\ \A x \in Pair : x # d => t5'[x] = t5[x]
  BY <1>1 DEF PrintsTrue
<1>4. p.number = number /\ p.pages = Invoice!Pages(t2[d])
  OBVIOUS
<1>. HIDE DEF p
<1>5. PrintTrue(t5'[d], t3'[d], t2[d], serial)
  BY <1>2, <1>3, <1>4 DEF PrintTrue
<1>6. \A x \in Pair : PrintTrue(t5'[x], t3'[x], t2'[x], serial')
  BY <1>2, <1>3, <1>5
<1>. QED
  BY <1>3, <1>6 DEF PrintsTrue

LEMMA InvoicesFail ==
    ASSUME Invoice!InvoicesInv, NEW r \in Slots, Invoice!Close(r),
           UNCHANGED <<serial, t1, t2, t3, t4, t5>>
    PROVE  Invoice!InvoicesInv'
<1>1. RestTrue /\ RowsTrue(t3, serial) /\ PrintsTrue(t3, serial)
  BY InvoicesInvIs
<1>2. RowsStay(t3, t3', serial)
  BY DEF RowsStay
<1>3. OpensTrue(t3, serial)'
  BY <1>2, Shut, DownloadMoves DEF Invoice!Close, Invoice!Keep
<1>4. RestTrue' /\ RowsTrue(t3, serial)' /\ PrintsTrue(t3, serial)'
  BY <1>1 DEF RestTrue, RowsTrue, PrintsTrue, Invoice!IsReplacement
<1>. QED
  BY <1>3, <1>4, InvoicesInvIs, PTL

LEMMA InvoicesResolve ==
    ASSUME Invoice!InvoicesInv, NEW r \in Slots, Invoice!ResolveSellers(r)
    PROVE  Invoice!InvoicesInv'
<1>. DEFINE d == task[r].doc
            number == task[r].number
<1>1. RestTrue /\ RowsTrue(t3, serial) /\ OpensTrue(t3, serial) /\ PrintsTrue(t3, serial)
  BY InvoicesInvIs
<1>2. UNCHANGED <<serial, t1, t2, t3, t4>> /\ step[r] = "sellers"
  BY DEF Invoice!ResolveSellers
<1>3. task[r] \in Invoice!Job /\ OpenTrue("sellers", task[r], t3, serial)
  BY <1>2, HasIsTrue
<1>4. RowsStay(t3, t3', serial)
  BY <1>2 DEF RowsStay
<1>5. RestTrue' /\ RowsTrue(t3, serial)'
  BY <1>1, <1>2 DEF RestTrue, RowsTrue, Invoice!IsReplacement
<1>6. CASE Invoice!Close(r) /\ UNCHANGED t5
  BY <1>2, <1>6, InvoicesFail
<1>7. CASE Invoice!Goto(r, "number") /\ UNCHANGED t5
  <2>1. /\ step' = [step EXCEPT ![r] = "number"] /\ task' = task
    BY <1>7 DEF Invoice!Goto
  <2>2. OpenTrue("number", task[r], t3, serial)
    BY <1>3 DEF OpenTrue
  <2>3. /\ step'[r] = "number" /\ step' \in [Slots -> {"idle", "number", "sellers"}]
        /\ \A q \in Slots : q # r => step'[q] = step[q]
    BY <1>1, <2>1 DEF OpensTrue
  <2>4. OpensTrue(t3, serial)'
    BY <1>1, <1>2, <2>1, <2>2, <2>3 DEF OpensTrue
  <2>5. PrintsTrue(t3, serial)'
    BY <1>1, <1>2, <1>7 DEF PrintsTrue
  <2>. QED
    BY <1>5, <2>4, <2>5, InvoicesInvIs, PTL
<1>8. CASE number # Invoice!NoNumber /\ Invoice!Issue(r, number) /\ Invoice!Close(r)
  <2>1. OpensTrue(t3, serial)'
    BY <1>2, <1>4, <1>8, Shut, DownloadMoves DEF Invoice!Close, Invoice!Keep
  <2>2. d \in Pair /\ number \in Invoice!Numbers /\ (serial => t3'[d].number = number)
    BY <1>2, <1>3, <1>8 DEF OpenTrue, Invoice!Job
  <2>3. t5' = [t5 EXCEPT ![d] = @ \cup {[number |-> number, pages |-> Invoice!Pages(t2[d])]}]
    BY <1>8 DEF Invoice!Issue
  <2>. HIDE DEF d, number
  <2>4. PrintsTrue(t3, serial)'
    BY <1>2, <1>4, <2>2, <2>3, Issued
  <2>. QED
    BY <1>5, <2>1, <2>4, InvoicesInvIs, PTL
<1>. QED
  BY <1>6, <1>7, <1>8 DEF Invoice!ResolveSellers

LEMMA InvoicesAssign ==
    ASSUME Invoice!InvoicesInv, NEW r \in Slots, Invoice!AssignNumber(r)
    PROVE  Invoice!InvoicesInv'
<1>. DEFINE d == task[r].doc
            number == Invoice!NumberOf(d, task[r].on)
            has == [task[r] EXCEPT !.number = number]
<1>1. RestTrue /\ RowsTrue(t3, serial) /\ OpensTrue(t3, serial) /\ PrintsTrue(t3, serial)
  BY InvoicesInvIs
<1>2. UNCHANGED <<serial, t1, t2, t4>> /\ step[r] = "number"
  BY DEF Invoice!AssignNumber
<1>3. task[r] \in Invoice!Job /\ OpenTrue("number", task[r], t3, serial)
  BY <1>2, HasIsTrue
<1>4. d \in Pair /\ number \in Invoice!Numbers /\ number # Invoice!NoNumber
  <2>1. d \in Pair /\ task[r].on \in Invoice!Days
    BY <1>3 DEF Invoice!Job
  <2>. QED
    BY <2>1, NumberIsNumber
<1>5. CASE Invoice!Taken(d, number)
  <2>1. Invoice!Close(r) /\ UNCHANGED <<t3, t5>>
    BY <1>5 DEF Invoice!AssignNumber
  <2>. QED
    BY <1>2, <2>1, InvoicesFail
<1>6. CASE ~Invoice!Taken(d, number)
  <2>1. /\ t3' = [t3 EXCEPT ![d].number = number]
        /\ \/ Invoice!Issue(r, number) /\ Invoice!Close(r)
           \/ Invoice!Keep(r, "sellers", has) /\ UNCHANGED t5
    BY <1>6 DEF Invoice!AssignNumber
  <2>. DEFINE it == t3'[d]
  <2>2. t3 \in [Pair -> RowTypes]
    BY <1>1 DEF RowsTrue
  <2>3. /\ it.number = number /\ it.status = t3[d].status /\ it.on = t3[d].on
        /\ t3' \in [Pair -> RowTypes] /\ \A x \in Pair : x # d => t3'[x] = t3[x]
    <3>. HIDE DEF d, number
    <3>1. /\ t3[d] \in RowTypes /\ DOMAIN t3 = Pair
          /\ it = [t3[d] EXCEPT !.number = number] /\ \A x \in Pair : x # d => t3'[x] = t3[x]
      BY <1>4, <2>1, <2>2
    <3>2. it \in RowTypes /\ it.number = number /\ it.status = t3[d].status /\ it.on = t3[d].on
      <4>. HIDE DEF it
      <4>. QED
        BY <1>4, <3>1 DEF RowTypes
    <3>3. \A x \in Pair : t3'[x] \in RowTypes
      BY <2>2, <3>1, <3>2
    <3>4. t3' = [x \in Pair |-> t3'[x]]
      BY <2>1, <2>2
    <3>5. t3' \in [Pair -> RowTypes]
      BY <3>3, <3>4
    <3>. QED
      BY <3>1, <3>2, <3>5
  <2>4. RowTrue(d, t3[d], serial)
    BY <1>1, <1>4 DEF RowsTrue
  <2>5. serial => t3[d].status # "open" /\ task[r].on = t3[d].on
    BY <1>3 DEF OpenTrue
  <2>6. serial /\ t3[d].number # Invoice!NoNumber => t3[d].number = number
    BY <2>4, <2>5 DEF RowTrue
  <2>7. RowsStay(t3, t3', serial)
    <3>1. ASSUME serial, NEW x \in Pair
          PROVE  /\ t3[x].status # "open" => t3'[x].status # "open" /\ t3'[x].on = t3[x].on
                 /\ t3[x].number # Invoice!NoNumber => t3'[x].number = t3[x].number
      <4>1. CASE x = d
        BY <2>3, <2>6, <3>1, <4>1
      <4>2. CASE x # d
        BY <2>3, <4>2
      <4>. QED
        BY <4>1, <4>2
    <3>. QED
      BY <3>1 DEF RowsStay
  <2>8. RowsTrue(t3, serial)'
    <3>1. \A x \in Pair \ {d} : t3[x].number = number =>
             Invoice!IsReplacement(x) # Invoice!IsReplacement(d)
      BY <1>6 DEF Invoice!Taken
    <3>2. RowTrue(d, it, serial)
      BY <2>3, <2>4, <2>5 DEF RowTrue
    <3>3. \A x \in Pair : RowTrue(x, t3'[x], serial')
      BY <1>1, <1>2, <2>3, <3>2 DEF RowsTrue
    <3>4. \A x, y \in Pair :
             t3'[x].number = t3'[y].number /\ t3'[x].number # Invoice!NoNumber =>
                 x = y \/ Invoice!IsReplacement(x) # Invoice!IsReplacement(y)
      <4>. HIDE DEF d, number
      <4>. QED
        BY <1>1, <1>4, <2>3, <3>1 DEF RowsTrue
    <3>5. \A x \in Pair : Invoice!IsReplacement(x)' = Invoice!IsReplacement(x)
      BY <1>2 DEF Invoice!IsReplacement
    <3>. QED
      BY <2>3, <3>3, <3>4, <3>5 DEF RowsTrue
  <2>9. RestTrue'
    BY <1>1, <1>2 DEF RestTrue
  <2>10. CASE Invoice!Issue(r, number) /\ Invoice!Close(r)
    <3>1. OpensTrue(t3, serial)'
      BY <1>2, <2>7, <2>10, Shut, DownloadMoves DEF Invoice!Close, Invoice!Keep
    <3>2. t5' = [t5 EXCEPT ![d] = @ \cup {[number |-> number, pages |-> Invoice!Pages(t2[d])]}]
      BY <2>10 DEF Invoice!Issue
    <3>3. serial => t3'[d].number = number
      BY <2>3
    <3>. HIDE DEF d, number, it
    <3>4. PrintsTrue(t3, serial)'
      BY <1>2, <1>4, <2>7, <3>2, <3>3, Issued
    <3>. QED
      BY <2>8, <2>9, <3>1, <3>4, InvoicesInvIs, PTL
  <2>11. CASE Invoice!Keep(r, "sellers", has) /\ UNCHANGED t5
    <3>1. has \in Invoice!Job /\ has.doc = d /\ has.number = number /\ has.on = task[r].on
      <4>. DEFINE n == number
      <4>1. n \in Invoice!Numbers
        BY <1>4
      <4>. HIDE DEF n
      <4>. QED
        BY <1>3, <4>1 DEF Invoice!Job, n
    <3>2. /\ step' = [step EXCEPT ![r] = "sellers"] /\ task' = [task EXCEPT ![r] = has]
      BY <2>11 DEF Invoice!Keep
    <3>. HIDE DEF has, d, number, it
    <3>3. OpenTrue("sellers", has, t3', serial)
      BY <2>3, <2>5, <3>1 DEF OpenTrue, it
    <3>4. OpensTrue(t3, serial)'
      BY <1>2, <2>7, <3>2, <3>3, DownloadMoves
    <3>5. PrintsTrue(t3, serial)'
      BY <1>1, <1>2, <2>7, <2>11, StayTrue
    <3>. QED
      BY <2>8, <2>9, <3>4, <3>5, InvoicesInvIs, PTL
  <2>. QED
    BY <2>1, <2>10, <2>11
<1>. QED
  BY <1>5, <1>6

LEMMA InvoicesAside ==
    ASSUME Invoice!InvoicesInv, t1' \in Invoice!Days, t4' \in Invoice!Profile,
           UNCHANGED <<serial, t2, t3, t5, step, task>>
    PROVE  Invoice!InvoicesInv'
<1>1. RestTrue /\ RowsTrue(t3, serial) /\ OpensTrue(t3, serial) /\ PrintsTrue(t3, serial)
  BY InvoicesInvIs
<1>2. RestTrue' /\ RowsTrue(t3, serial)' /\ OpensTrue(t3, serial)' /\ PrintsTrue(t3, serial)'
  BY <1>1 DEF RestTrue, RowsTrue, OpensTrue, PrintsTrue, Invoice!IsReplacement
<1>. QED
  BY <1>2, InvoicesInvIs, PTL

LEMMA InvoicesTick ==
    ASSUME Invoice!InvoicesInv, Invoice!Tick
    PROVE  Invoice!InvoicesInv'
<1>1. RestTrue
  BY InvoicesInvIs
<1>2. t1' \in Invoice!Days /\ t4' \in Invoice!Profile
  BY <1>1, InvoiceFacts DEF RestTrue, Invoice!Tick, Invoice!Days
<1>. QED
  BY <1>2, InvoicesAside DEF Invoice!Tick, Invoice!slot

LEMMA InvoicesSeller ==
    ASSUME Invoice!InvoicesInv, NEW s \in Billers, NEW has \in SellerAddresses[s],
           Invoice!EditSeller(s, has)
    PROVE  Invoice!InvoicesInv'
<1>1. RestTrue
  BY InvoicesInvIs
<1>2. t1' \in Invoice!Days
  BY <1>1 DEF RestTrue, Invoice!EditSeller
<1>3. t4' \in Invoice!Profile
  BY <1>1 DEF RestTrue, Invoice!EditSeller, Invoice!Profile
<1>. QED
  BY <1>2, <1>3, InvoicesAside DEF Invoice!EditSeller, Invoice!slot

LEMMA InvoicesKept ==
    ASSUME Invoice!InvoicesInv, [Invoice!Next]_Invoice!vars
    PROVE  Invoice!InvoicesInv'
<1>1. CASE Invoice!Tick
  BY <1>1, InvoicesTick
<1>2. CASE \E d \in Pair : Invoice!Deliver(d) \/ Invoice!Return(d)
  BY <1>2, InvoicesDeliver
<1>3. CASE \E s \in Billers : \E has \in SellerAddresses[s] : Invoice!EditSeller(s, has)
  BY <1>3, InvoicesSeller
<1>4. CASE \E r \in Slots, d \in Pair : Invoice!Download(r, d)
  BY <1>4, InvoicesRead
<1>5. CASE \E r \in Slots : Invoice!ResolveSellers(r) \/ Invoice!AssignNumber(r)
  BY <1>5, InvoicesResolve, InvoicesAssign
<1>6. CASE \E r \in Slots : Invoice!Fail(r)
  BY <1>6, InvoicesFail DEF Invoice!Fail
<1>7. CASE UNCHANGED Invoice!vars
  <2>1. RestTrue
    BY InvoicesInvIs
  <2>2. UNCHANGED <<serial, t1, t2, t3, t4, t5, step, task>>
    BY <1>7 DEF Invoice!vars, Invoice!slot
  <2>3. t1' \in Invoice!Days /\ t4' \in Invoice!Profile
    BY <2>1, <2>2 DEF RestTrue
  <2>. QED
    BY <2>2, <2>3, InvoicesAside
<1>. QED
  BY <1>1, <1>2, <1>3, <1>4, <1>5, <1>6, <1>7 DEF Invoice!Next

\* What is printed comes to what the document cost, under the number of its row.
LEMMA PrintsAddUp ==
    Invoice!InvoicesInv => Invoice!PagesCoverOrder /\ Invoice!NumberNamesOneOrder
<1>. SUFFICES ASSUME Invoice!InvoicesInv
              PROVE  Invoice!PagesCoverOrder /\ Invoice!NumberNamesOneOrder
  OBVIOUS
<1>1. RestTrue /\ RowsTrue(t3, serial) /\ PrintsTrue(t3, serial)
  BY InvoicesInvIs
<1>2. Invoice!PagesCoverOrder
  <2>1. ASSUME NEW d \in Pair, NEW p \in t5[d]
        PROVE  p.pages = Invoice!Pages(t2[d]) /\ t2[d] \in Purchases
    BY <1>1 DEF PrintsTrue, PrintTrue, RestTrue
  <2>. QED
    BY <2>1, PagesCover DEF Invoice!PagesCoverOrder
<1>3. Invoice!NumberNamesOneOrder
  <2>1. \A d \in Pair : \A p \in t5[d] :
           p.number # Invoice!NoNumber /\ (serial => p.number = t3[d].number)
    BY <1>1, NumberIsNumber DEF PrintsTrue, PrintTrue
  <2>. QED
    BY <1>1, <2>1 DEF RowsTrue, Invoice!NumberNamesOneOrder
<1>. QED
  BY <1>2, <1>3

\* What a buyer downloads adds up to what the document cost, under the number its row keeps
\* and no other of its kind has, whatever deliveries, edits and downloads overlap or fail
\* (invoices.service.ts:91-125, :474).
THEOREM InvoicesAlwaysAddUp == PartSpec => []InvoicesAddUp
<1>. DEFINE IInv == part = "invoices" => Invoice!InvoicesInv
<1>1. PartInit => IInv
  BY InvoicesStart, InvoicesInit
<1>2. IInv /\ [PartNext]_<<vars, store>> => IInv'
  <2>. SUFFICES ASSUME IInv, [PartNext]_<<vars, store>>, part' = "invoices"
                PROVE  Invoice!InvoicesInv'
    OBVIOUS
  <2>1. part = "invoices"
    BY DEF PartNext, store
  <2>2. [Invoice!Next]_Invoice!vars
    BY <2>1, InvoicesStep
  <2>. QED
    BY <2>1, <2>2, InvoicesKept
<1>3. IInv => InvoicesAddUp
  BY PrintsAddUp DEF InvoicesAddUp, Invoice!InvoicesInv
<1>. HIDE DEF IInv
<1>. QED
  BY <1>1, <1>2, <1>3, PTL DEF PartSpec

-----------------------------------------------------------------------------
(***************************************************************************)
(* The clean-up of replays.                                                *)
(***************************************************************************)
LEMMA ReplaysStart ==
    ASSUME PartInit, part = "replays"
    PROVE  Replay!Init
BY DEF PartInit

LEMMA ReplaysStep ==
    ASSUME [PartNext]_<<vars, store>>, part = "replays"
    PROVE  [Replay!Next]_Replay!vars /\ (Replay!Next \/ store' = store)
BY DEF PartNext, vars, store, Replay!vars

\* Cardinality is the same operator in every module.
LEMMA ReplayCardinality ==
    ASSUME NEW S
    PROVE  /\ Replay!Cardinality(S) = Cardinality(S)
           /\ Replay!IsFiniteSet(S) <=> IsFiniteSet(S)
BY DEF Replay!Cardinality, Cardinality, Replay!IsFiniteSet, IsFiniteSet

\* A page of a list that has its old members O first is full of them, or else no more than
\* the k members before the page remain.
OnPage(all, n, k, size) == {all[i] : i \in {x \in 1..n : k < x /\ x <= k + size}}
OldFirst(all, n, S, O) ==
    /\ all \in [1..n -> S]
    /\ \A i, j \in 1..n : i # j => all[i] # all[j]
    /\ \A i, j \in 1..n : i < j /\ all[j] \in O => all[i] \in O

LEMMA PageOfOld ==
    ASSUME NEW S, IsFiniteSet(S), NEW O \in SUBSET S, Cardinality(S) \in Nat,
           NEW all, OldFirst(all, Cardinality(S), S, O),
           NEW k \in Nat, NEW P \in Nat \ {0}
    PROVE  LET W == OnPage(all, Cardinality(S), k, P) IN
           \/ /\ k + P <= Cardinality(S)
              /\ W \subseteq O /\ Cardinality(W) = P
           \/ Cardinality(O \ W) <= k
<1>. DEFINE n == Cardinality(S)
            W == OnPage(all, n, k, P)
<1>. SUFFICES \/ k + P <= n /\ W \subseteq O /\ Cardinality(W) = P
              \/ Cardinality(O \ W) <= k
  OBVIOUS
<1>6. /\ n \in Nat /\ W = {all[i] : i \in {x \in 1..n : k < x /\ x <= k + P}}
      /\ all \in [1..n -> S] /\ \A i, j \in 1..n : i # j => all[i] # all[j]
      /\ \A i, j \in 1..n : i < j /\ all[j] \in O => all[i] \in O
  BY DEF OldFirst, OnPage
<1>5. n = Cardinality(S)
  OBVIOUS
<1>. HIDE DEF n, W
<1>1. all \in Injection(1..n, S)
  BY <1>6 DEF Injection, IsInjective
<1>2. \A s \in S : \E i \in 1..n : all[i] = s
  <2>1. Cardinality(1..n) = n
    BY <1>6, IntervalTo
  <2>2. all \in Surjection(1..n, S)
    BY <1>5, <1>1, <2>1, FS_Injection
  <2>. QED
    BY <2>2 DEF Surjection
<1>3. CASE k + P <= n /\ all[k + P] \in O
  <2>. DEFINE D == k + 1 .. k + P
              g == [i \in D |-> all[i]]
  <2>1. D \subseteq 1..n /\ W = {all[i] : i \in D}
    BY <1>6, <1>3
  <2>2. W \subseteq O
    BY <1>6, <1>3, <2>1
  <2>3. Cardinality(D) = P /\ IsFiniteSet(D)
    BY IntervalSize, k + 1 \in Int, k + P \in Int, k + 1 <= (k + P) + 1, (k + P) - (k + 1) + 1 = P, Zenon
  <2>4. g \in Bijection(D, W)
    BY <1>6, <2>1 DEF Bijection, Injection, IsInjective, Surjection
  <2>5. Cardinality(W) = P
    <3>. HIDE DEF D, g
    <3>. QED
      BY <2>3, <2>4, FS_Bijection DEF ExistsBijection
  <2>. QED
    BY <1>3, <2>2, <2>5
<1>4. CASE ~(k + P <= n /\ all[k + P] \in O)
  <2>. DEFINE E == {i \in 1..k : i \in 1..n}
              T == {all[i] : i \in E}
  <2>1. O \ W \subseteq T
    <3>1. ASSUME NEW s \in O \ W
          PROVE  s \in T
      <4>1. PICK i \in 1..n : all[i] = s
        BY <1>2
      <4>2. ~(k < i /\ i <= k + P)
        BY <1>6, <4>1
      <4>3. ~(k + P < i)
        BY <1>6, <1>4, <4>1
      <4>. QED
        BY <1>6, <4>1, <4>2, <4>3
    <3>. QED
      BY <3>1
  <2>2. IsFiniteSet(T) /\ Cardinality(T) <= k
    <3>1. IsFiniteSet(1..k) /\ Cardinality(1..k) = k
      BY <1>6, IntervalTo
    <3>2. E \in SUBSET (1..k)
      OBVIOUS
    <3>3. IsFiniteSet(E) /\ Cardinality(E) <= k
      <4>. HIDE DEF E
      <4>1. IsFiniteSet(E) /\ Cardinality(E) <= Cardinality(1..k)
        BY <3>1, <3>2, FS_Subset
      <4>. QED
        BY <3>1, <4>1
    <3>4. [i \in E |-> all[i]] \in Surjection(E, T)
      BY DEF Surjection
    <3>5. IsFiniteSet(T) /\ Cardinality(T) <= Cardinality(E)
      <4>. HIDE DEF E, T
      <4>. QED
        BY <3>3, <3>4, FS_Surjection
    <3>6. Cardinality(T) \in Nat /\ Cardinality(E) \in Nat
      <4>. HIDE DEF E, T
      <4>. QED
        BY <3>3, <3>5, FS_CardinalityType
    <3>. QED
      BY <3>3, <3>5, <3>6
  <2>3. Cardinality(O \ W) <= Cardinality(T) /\ Cardinality(O \ W) \in Nat /\ Cardinality(T) \in Nat
    <3>. HIDE DEF T
    <3>. QED
      BY <2>1, <2>2, FS_Subset, FS_CardinalityType
  <2>. HIDE DEF T
  <2>. QED
    BY <2>2, <2>3
<1>. QED
  BY <1>3, <1>4

LEMMA ReplayFacts ==
    /\ IsFiniteSet(Pair \cup Streams) /\ LastHour \in Nat /\ ReplayAge \in Nat
    /\ ReplayPage \in Nat \ {0} /\ ReplayPages \in Nat \ {0}
BY ReplayConstants, ReplayCardinality DEF Replay!ReplaysAssumption

\* The sets a run speaks of are finite, and no larger than the set of streams.
LEMMA ReplaySets ==
    ASSUME NEW A \in SUBSET (Pair \cup Streams)
    PROVE  /\ IsFiniteSet(A) /\ Cardinality(A) \in Nat
           /\ Replay!Cardinality(A) = Cardinality(A)
           /\ Cardinality(A) \in 0..Replay!Cardinality(Pair \cup Streams)
<1>1. IsFiniteSet(A) /\ Cardinality(A) <= Cardinality(Pair \cup Streams)
  BY ReplayFacts, FS_Subset
<1>2. Cardinality(A) \in Nat /\ Cardinality(Pair \cup Streams) \in Nat
  BY <1>1, ReplayFacts, FS_CardinalityType
<1>3. Replay!Cardinality(A) = Cardinality(A)
  BY ReplayCardinality
<1>4. Replay!Cardinality(Pair \cup Streams) = Cardinality(Pair \cup Streams)
  BY ReplayCardinality
<1>. QED
  BY <1>1, <1>2, <1>3, <1>4

\* What listObjects answers: a page of the stored replays, full of old ones unless no more
\* old ones remain than it has skipped.
LEMMA ReplayPageRead ==
    ASSUME Replay!TypeOK, NEW k \in Nat, NEW rows \in Replay!ListObjects(k), NEW cutoff \in Int
    PROVE  LET W == Replay!ToSet(rows)  O == Replay!Old(cutoff) IN
           /\ W \subseteq Replay!Stored /\ Len(rows) \in Nat
           /\ \/ W \subseteq O /\ Cardinality(W) = ReplayPage /\ Len(rows) = ReplayPage
              \/ Cardinality(O \ W) <= k
<1>. DEFINE S == Replay!Stored
            O == Replay!Old(cutoff)
            n == Cardinality(S)
            W == Replay!ToSet(rows)
<1>1. PICK all \in Replay!Listings : rows = Replay!PageFrom(all, k)
  BY DEF Replay!ListObjects
<1>2. S \subseteq Pair \cup Streams /\ O \subseteq S /\ \A s \in O : t3[s] < cutoff
  BY DEF Replay!Stored, Replay!Old
<1>3. IsFiniteSet(S) /\ n \in Nat /\ Replay!Cardinality(S) = n
  BY <1>2, ReplaySets
<1>4. all \in [1..n -> S] /\ \A i, j \in 1..n : i # j => all[i] # all[j]
  BY <1>1, <1>3 DEF Replay!Listings, Replay!SetToSeqs
<1>5. \A i, j \in 1..n : i < j => t3[all[i]] <= t3[all[j]]
  BY <1>1, <1>4 DEF Replay!Listings
<1>6. \A s \in S : t3[s] \in Int
  BY <1>2, ReplayFacts DEF Replay!TypeOK, Replay!NoTime
<1>7. \A i, j \in 1..n : i < j /\ all[j] \in O => all[i] \in O
  BY <1>2, <1>4, <1>5, <1>6 DEF Replay!Old
<1>8. all \in Seq(S) /\ Len(all) = n
  BY <1>3, <1>4
<1>9. /\ Len(rows) = IF n <= k THEN 0 ELSE IF n < k + ReplayPage THEN n - k ELSE ReplayPage
      /\ DOMAIN rows = 1..Len(rows)
      /\ \A i \in 1..Len(rows) : rows[i] = all[k + i]
  BY <1>1, <1>3, <1>8, ReplayFacts DEF Replay!PageFrom
<1>10. W = OnPage(all, n, k, ReplayPage)
  <2>. DEFINE T == {all[i] : i \in {x \in 1..n : k < x /\ x <= k + ReplayPage}}
  <2>1. ASSUME NEW s \in W
        PROVE  s \in T
    <3>1. PICK i \in 1..Len(rows) : s = all[k + i]
      BY <1>9 DEF Replay!ToSet
    <3>2. k + i \in 1..n /\ k < k + i /\ k + i <= k + ReplayPage
      BY <1>3, <1>9, ReplayFacts
    <3>. QED
      BY <3>1, <3>2
  <2>2. ASSUME NEW i \in 1..n, k < i, i <= k + ReplayPage
        PROVE  all[i] \in W
    <3>1. i - k \in 1..Len(rows) /\ k + (i - k) = i
      BY <1>3, <1>9, <2>2, ReplayFacts
    <3>. QED
      BY <1>9, <3>1 DEF Replay!ToSet
  <2>. QED
    BY <2>1, <2>2 DEF OnPage
<1>11. W \subseteq S /\ Len(rows) \in Nat
  BY <1>3, <1>4, <1>9, <1>10, ReplayFacts DEF OnPage
<1>12. \/ k + ReplayPage <= n /\ W \subseteq O /\ Cardinality(W) = ReplayPage
       \/ Cardinality(O \ W) <= k
  <2>1. O \in SUBSET S /\ OldFirst(all, n, S, O)
    BY <1>2, <1>4, <1>7 DEF OldFirst
  <2>. HIDE DEF S, O, W
  <2>. QED
    BY <1>3, <1>10, <2>1, ReplayFacts, PageOfOld
<1>13. k + ReplayPage <= n => Len(rows) = ReplayPage
  BY <1>3, <1>9, ReplayFacts
<1>. QED
  BY <1>11, <1>12, <1>13

LEMMA ReplaysInit ==
    ASSUME Replay!Init
    PROVE  Replay!ReplaysInv
<1>1. Replay!TypeOK
  <2>1. 0 \in 0..Replay!Cardinality(Pair \cup Streams)
    BY ReplaySets, ReplayFacts, FS_EmptySet
  <2>. QED
    BY <2>1, ReplayFacts DEF Replay!Init, Replay!TypeOK, Replay!NoRun, Replay!NoTime
<1>. QED
  BY <1>1, ReplayFacts DEF Replay!Init, Replay!ReplaysInv, Replay!RunHalvesBacklog

\* A replay is stored, or the clock ticks, while no serial run is open.
LEMMA ReplaysQuiet ==
    ASSUME Replay!ReplaysInv,
           Replay!Tick \/ Replay!Aborted \/ (\E s \in Pair \cup Streams : Replay!Recorded(s))
    PROVE  Replay!ReplaysInv' /\ Replay!YoungStays
<1>1. Replay!TypeOK'
  <2>1. 0 \in 0..Replay!Cardinality(Pair \cup Streams)
    BY ReplaySets, ReplayFacts, FS_EmptySet
  <2>. QED
    BY <2>1, ReplayFacts DEF Replay!ReplaysInv, Replay!TypeOK, Replay!Tick, Replay!Aborted,
       Replay!Recorded, Replay!NoRun, Replay!NoTime
<1>2. /\ Replay!RunHalvesBacklog'
      /\ t5' = "list" => t6'.pages < ReplayPages
      /\ t5' = "idle" => t6' = Replay!NoRun
      /\ ~(serial' /\ t5' # "idle")
  BY ReplayFacts DEF Replay!ReplaysInv, Replay!RunHalvesBacklog, Replay!Tick, Replay!Aborted,
     Replay!Recorded
<1>3. serial' => t4' \subseteq Replay!Stored' \cup t6'.ids
  <2>1. CASE Replay!Tick \/ Replay!Aborted
    <3>1. UNCHANGED <<serial, t3, t4>> /\ (serial => t6' = t6)
      BY <2>1 DEF Replay!Tick, Replay!Aborted
    <3>. QED
      BY <3>1 DEF Replay!ReplaysInv, Replay!Stored
  <2>2. ASSUME NEW s \in Pair \cup Streams, Replay!Recorded(s)
        PROVE  serial' => t4' \subseteq Replay!Stored' \cup t6'.ids
    <3>1. /\ t3' = [t3 EXCEPT ![s] = t1] /\ t4' = t4 \cup {s} /\ UNCHANGED <<serial, t6>>
          /\ t3 \in [Pair \cup Streams -> 0..Replay!NoTime] /\ t1 \in 0..LastHour
      BY <2>2 DEF Replay!Recorded, Replay!ReplaysInv, Replay!TypeOK
    <3>2. t1 # Replay!NoTime
      BY <3>1, ReplayFacts DEF Replay!NoTime
    <3>3. s \in Replay!Stored' /\ Replay!Stored \subseteq Replay!Stored'
      BY <3>1, <3>2 DEF Replay!Stored, Replay!NoTime
    <3>. QED
      BY <3>1, <3>3 DEF Replay!ReplaysInv
  <2>. QED
    BY <2>1, <2>2
<1>4. Replay!YoungStays
  BY DEF Replay!YoungStays, Replay!ReplaysInv, Replay!TypeOK, Replay!Tick, Replay!Aborted,
     Replay!Recorded, Replay!Stored
<1>. QED
  BY <1>1, <1>2, <1>3, <1>4 DEF Replay!ReplaysInv

LEMMA ReplaysBegin ==
    ASSUME Replay!ReplaysInv, Replay!DeleteOldReplays
    PROVE  Replay!ReplaysInv' /\ Replay!YoungStays
<1>. DEFINE cutoff == IF t1 < ReplayAge THEN 0 ELSE t1 - ReplayAge
            O == Replay!Old(cutoff)
<1>1. /\ t5 = "idle" /\ t2' = t1 /\ t5' = "list" /\ UNCHANGED <<serial, t1, t3, t4>>
      /\ t6' = [cutoff |-> cutoff, offset |-> 0, pages |-> 0, page |-> {}, ids |-> {}]
      /\ t7' = [before |-> Replay!Cardinality(O), after |-> 0]
  BY DEF Replay!DeleteOldReplays, Replay!NoRun
<1>2. cutoff \in 0..LastHour
  BY ReplayFacts DEF Replay!ReplaysInv, Replay!TypeOK
<1>3. O \subseteq Pair \cup Streams /\ Replay!Old(cutoff)' = O /\ Replay!Stored' = Replay!Stored
  BY <1>1 DEF Replay!Old, Replay!Stored
<1>4. Cardinality(O) \in 0..Replay!Cardinality(Pair \cup Streams) /\ Replay!Cardinality(O) = Cardinality(O)
  <2>. HIDE DEF O
  <2>. QED
    BY <1>3, ReplaySets
<1>5. Replay!TypeOK'
  <2>1. 0 \in 0..Replay!Cardinality(Pair \cup Streams)
    BY ReplaySets, ReplayFacts, FS_EmptySet
  <2>. QED
    BY <1>1, <1>2, <1>4, <2>1, ReplayFacts DEF Replay!ReplaysInv, Replay!TypeOK, Replay!NoTime
<1>6. t4' \subseteq Replay!Stored' \/ ~serial
  BY <1>1, <1>3 DEF Replay!ReplaysInv, Replay!NoRun
<1>7. Replay!InRun'
  <2>1. /\ t6'.cutoff = cutoff /\ t6'.ids = {} /\ t6'.offset = 0 /\ t6'.pages = 0
        /\ t7'.before = Replay!Cardinality(O) /\ t1' = t1 /\ t5' = "list"
    BY <1>1
  <2>2. Replay!Old(t6.cutoff)' = O
    BY <1>1, <2>1 DEF Replay!Old, Replay!Stored
  <2>3. Replay!Cardinality({}) = 0
    BY ReplayCardinality, FS_EmptySet
  <2>4. (O \ {}) \cup {} = O
    OBVIOUS
  <2>. HIDE DEF O, cutoff
  <2>. QED
    BY <2>1, <2>2, <2>3, <2>4, ReplayFacts DEF Replay!InRun, cutoff
<1>8. Replay!YoungStays
  BY <1>1 DEF Replay!YoungStays
<1>. QED
  BY <1>1, <1>5, <1>6, <1>7, <1>8, ReplayFacts DEF Replay!ReplaysInv, Replay!RunHalvesBacklog

LEMMA StoredTypes ==
    ASSUME Replay!TypeOK
    PROVE  /\ Replay!Old(t6.cutoff) \subseteq Replay!Stored /\ Replay!Stored \subseteq Pair \cup Streams
           /\ Replay!Old(t6.cutoff) \in SUBSET (Pair \cup Streams)
           /\ t6.ids \in SUBSET (Pair \cup Streams) /\ t6.page \subseteq Pair \cup Streams
           /\ t6.cutoff \in Int /\ t6.offset \in Nat
           /\ t6 \in [cutoff : 0..LastHour, offset : Nat, pages : 0..ReplayPages,
                      page : SUBSET (Pair \cup Streams), ids : SUBSET (Pair \cup Streams)]
BY ReplayFacts DEF Replay!TypeOK, Replay!Old, Replay!Stored

\* The old replays a run has yet to find, and those it has found.
LEMMA RunSets ==
    ASSUME NEW O \in SUBSET (Pair \cup Streams), NEW ids \in SUBSET (Pair \cup Streams)
    PROVE  LET left == O \ ids IN
           /\ IsFiniteSet(left) /\ IsFiniteSet(ids)
           /\ Cardinality(left) \in Nat /\ Cardinality(ids) \in Nat
           /\ Replay!Cardinality(left) = Cardinality(left)
           /\ Replay!Cardinality(ids) = Cardinality(ids)
           /\ Replay!Cardinality(left \cup ids) = Cardinality(left) + Cardinality(ids)
<1>. DEFINE left == O \ ids
<1>2. left \in SUBSET (Pair \cup Streams) /\ left \cap ids = {}
  OBVIOUS
<1>. HIDE DEF left
<1>4. /\ IsFiniteSet(left) /\ IsFiniteSet(ids)
      /\ Cardinality(left) \in Nat /\ Cardinality(ids) \in Nat
      /\ Replay!Cardinality(left) = Cardinality(left)
      /\ Replay!Cardinality(ids) = Cardinality(ids)
  BY <1>2, ReplaySets
<1>5. Replay!Cardinality(left \cup ids) = Cardinality(left) + Cardinality(ids)
  <2>1. Replay!Cardinality(left \cup ids) = Cardinality(left \cup ids)
    BY ReplayCardinality
  <2>2. Cardinality(left \cup ids) = Cardinality(left) + Cardinality(ids) - Cardinality({})
    BY <1>2, <1>4, FS_Union
  <2>. QED
    BY <1>4, <2>1, <2>2, FS_EmptySet
<1>. QED
  BY <1>4, <1>5 DEF left

LEMMA ReplaysList ==
    ASSUME Replay!ReplaysInv, Replay!ListPage
    PROVE  Replay!ReplaysInv' /\ Replay!YoungStays
<1>. DEFINE O == Replay!Old(t6.cutoff)
<1>1. PICK rows \in Replay!ListObjects(t6.offset) :
         LET old == {s \in Replay!ToSet(rows) : t3[s] < t6.cutoff} IN
         /\ t6' = [t6 EXCEPT !.page = old, !.ids = @ \cup old, !.pages = @ + 1,
                             !.offset = @ + Len(rows)]
         /\ t5' = IF old = {} THEN "clear" ELSE "delete"
  BY DEF Replay!ListPage, Replay!IsOld
<1>. DEFINE W == Replay!ToSet(rows)
            old == {s \in W : t3[s] < t6.cutoff}
<1>2. t5 = "list" /\ UNCHANGED <<serial, t1, t2, t3, t4, t7>> /\ t6.pages < ReplayPages
  BY DEF Replay!ListPage, Replay!ReplaysInv
<1>3. /\ t6 \in [cutoff : 0..LastHour, offset : Nat, pages : 0..ReplayPages,
                 page : SUBSET (Pair \cup Streams), ids : SUBSET (Pair \cup Streams)]
      /\ Replay!TypeOK
  BY DEF Replay!TypeOK, Replay!ReplaysInv
<1>4. /\ W \subseteq Replay!Stored /\ Len(rows) \in Nat
      /\ \/ W \subseteq O /\ Cardinality(W) = ReplayPage /\ Len(rows) = ReplayPage
         \/ Cardinality(O \ W) <= t6.offset
  <2>1. t6.offset \in Nat /\ t6.cutoff \in Int
    BY <1>3, StoredTypes
  <2>. QED
    BY <1>3, <2>1, ReplayPageRead
<1>5. /\ O \subseteq Replay!Stored /\ Replay!Stored \subseteq Pair \cup Streams
      /\ t6.ids \in SUBSET (Pair \cup Streams) /\ O \in SUBSET (Pair \cup Streams)
  BY <1>3, StoredTypes
<1>6. old = W \cap O
  BY <1>4 DEF Replay!Old
<1>7. /\ t6'.cutoff = t6.cutoff /\ t6'.page = old /\ t6'.ids = t6.ids \cup old
      /\ t6'.pages = t6.pages + 1 /\ t6'.offset = t6.offset + Len(rows)
      /\ t6' \in [cutoff : 0..LastHour, offset : Nat, pages : 0..ReplayPages,
                  page : SUBSET (Pair \cup Streams), ids : SUBSET (Pair \cup Streams)]
  <2>1. /\ old \in SUBSET (Pair \cup Streams) /\ t6.ids \cup old \in SUBSET (Pair \cup Streams)
        /\ t6.pages + 1 \in 0..ReplayPages /\ t6.offset + Len(rows) \in Nat
    BY <1>2, <1>3, <1>4, <1>5, ReplayFacts
  <2>2. t6' = [t6 EXCEPT !.page = old, !.ids = @ \cup old, !.pages = @ + 1, !.offset = @ + Len(rows)]
    BY <1>1
  <2>. HIDE DEF old
  <2>. QED
    BY <1>3, <2>1, <2>2
<1>8. Replay!TypeOK'
  BY <1>1, <1>2, <1>3, <1>7 DEF Replay!TypeOK
<1>9. Replay!Stored' = Replay!Stored /\ Replay!Old(t6.cutoff)' = O
  BY <1>2, <1>7 DEF Replay!Stored, Replay!Old
<1>10. ASSUME serial
       PROVE  Replay!InRun'
  <2>. DEFINE left == O \ t6.ids
              left1 == O \ t6'.ids
  <2>1. Replay!InRun
    BY <1>2, <1>10 DEF Replay!ReplaysInv
  <2>2. t6.ids \cap Replay!Stored = {}
    BY <1>2, <2>1 DEF Replay!InRun
  <2>3. left = O /\ left1 = O \ W /\ left1 \cup t6'.ids = left \cup t6.ids /\ left1 \subseteq left
    BY <1>5, <1>6, <1>7, <2>2
  <2>4. /\ t6'.ids \cap Replay!Stored' \subseteq old /\ old \subseteq t6'.ids \cap O
    BY <1>6, <1>7, <1>9, <2>2
  <2>5. /\ Cardinality(left) \in Nat /\ Cardinality(t6.ids) \in Nat
        /\ IsFiniteSet(left) /\ IsFiniteSet(t6.ids)
        /\ Replay!Cardinality(left) = Cardinality(left)
        /\ Replay!Cardinality(t6.ids) = Cardinality(t6.ids)
    BY <1>5, RunSets
  <2>6. /\ Cardinality(left1) \in Nat /\ Cardinality(t6'.ids) \in Nat
        /\ Replay!Cardinality(left1) = Cardinality(left1)
        /\ Replay!Cardinality(t6'.ids) = Cardinality(t6'.ids)
        /\ IsFiniteSet(t6'.ids)
    <3>1. t6'.ids \in SUBSET (Pair \cup Streams)
      BY <1>7
    <3>. HIDE DEF O
    <3>. QED
      BY <1>5, <3>1, RunSets
  <2>7. Cardinality(left1) <= Cardinality(left) /\ Cardinality(t6.ids) <= Cardinality(t6'.ids)
    <3>1. left1 \in SUBSET left /\ t6.ids \in SUBSET t6'.ids
      BY <1>7, <2>3
    <3>. HIDE DEF left1, left
    <3>. QED
      BY <2>5, <2>6, <3>1, FS_Subset
  <2>8. \/ Cardinality(left1) <= Cardinality(t6'.ids)
        \/ /\ Cardinality(t6'.ids) = t6'.offset /\ t6'.offset = t6'.pages * ReplayPage
           /\ old # {}
    <3>1. CASE Cardinality(left) <= Cardinality(t6.ids)
      <4>. HIDE DEF left, left1
      <4>. QED
        BY <2>5, <2>6, <2>7, <3>1
    <3>2. ASSUME Cardinality(t6.ids) = t6.offset, Cardinality(O \ W) <= t6.offset
          PROVE  Cardinality(left1) <= Cardinality(t6'.ids)
      <4>1. Cardinality(left1) <= t6.offset
        BY <2>3, <3>2
      <4>. HIDE DEF left, left1
      <4>. QED
        BY <2>5, <2>6, <2>7, <3>2, <4>1
    <3>3. ASSUME Cardinality(t6.ids) = t6.offset, t6.offset = t6.pages * ReplayPage,
                 W \subseteq O, Cardinality(W) = ReplayPage, Len(rows) = ReplayPage
          PROVE  /\ Cardinality(t6'.ids) = t6'.offset /\ t6'.offset = t6'.pages * ReplayPage
                 /\ old # {}
      <4>1. old = W /\ t6'.ids = t6.ids \cup W /\ t6.ids \cap W = {}
        BY <1>4, <1>6, <1>7, <2>2, <3>3
      <4>2. IsFiniteSet(W)
        BY <1>4, <1>5, ReplaySets
      <4>3. Cardinality(t6.ids \cup W) = Cardinality(t6.ids) + Cardinality(W) - Cardinality({})
        BY <2>5, <4>1, <4>2, FS_Union
      <4>4. Cardinality(t6'.ids) = t6.offset + ReplayPage
        BY <1>3, <3>3, <4>1, <4>3, ReplayFacts, FS_EmptySet
      <4>5. (t6.pages + 1) * ReplayPage = t6.pages * ReplayPage + ReplayPage
        BY <1>3, ReplayFacts
      <4>6. old # {}
        BY <3>3, <4>1, ReplayFacts, FS_EmptySet
      <4>. QED
        BY <1>7, <3>3, <4>4, <4>5, <4>6
    <3>4. \/ Cardinality(left) <= Cardinality(t6.ids)
          \/ Cardinality(t6.ids) = t6.offset /\ t6.offset = t6.pages * ReplayPage
      BY <2>1, <2>5 DEF Replay!InRun
    <3>. QED
      BY <1>4, <3>1, <3>2, <3>3, <3>4
  <2>9. t7'.before = Replay!Cardinality(left1 \cup t6'.ids)
    BY <1>2, <2>1, <2>3 DEF Replay!InRun
  <2>10. /\ t6'.cutoff = IF t1' < ReplayAge THEN 0 ELSE t1' - ReplayAge
         /\ t5' \in {"clear", "delete"} /\ (t5' = "clear" <=> old = {})
    BY <1>1, <1>2, <1>7, <2>1 DEF Replay!InRun
  <2>11. /\ Replay!Old(t6.cutoff)' = O /\ t6'.page = old /\ (old = {} => t6'.ids \cap Replay!Stored' = {})
         /\ left1 = Replay!Old(t6.cutoff)' \ t6'.ids
    BY <1>7, <1>9, <2>4
  <2>. HIDE DEF left1, left, old, O
  <2>. QED
    BY <2>4, <2>6, <2>8, <2>9, <2>10, <2>11 DEF Replay!InRun
<1>11. Replay!YoungStays
  BY <1>2 DEF Replay!YoungStays
<1>12. serial => t4' \subseteq Replay!Stored' \cup t6'.ids
  BY <1>2, <1>7, <1>9 DEF Replay!ReplaysInv
<1>13. t5' \in {"clear", "delete"} /\ serial' = serial
  BY <1>1, <1>2
<1>. QED
  BY <1>8, <1>10, <1>11, <1>12, <1>13 DEF Replay!ReplaysInv, Replay!RunHalvesBacklog

LEMMA ReplaysDelete ==
    ASSUME Replay!ReplaysInv, Replay!TryDeleteMany
    PROVE  Replay!ReplaysInv' /\ Replay!YoungStays
<1>. DEFINE O == Replay!Old(t6.cutoff)
<1>1. /\ t5 = "delete" /\ UNCHANGED <<serial, t1, t2, t4, t6, t7>>
      /\ t5' = IF t6.pages < ReplayPages THEN "list" ELSE "clear"
      /\ \/ t3' = [s \in Pair \cup Streams |-> IF s \in t6.page THEN Replay!NoTime ELSE t3[s]]
         \/ ~serial /\ t3' = t3
  BY DEF Replay!TryDeleteMany
<1>2. /\ Replay!TypeOK /\ t6.pages \in 0..ReplayPages
      /\ Replay!NoTime \in Nat /\ t3 \in [Pair \cup Streams -> 0..Replay!NoTime] /\ t1 \in Nat
      /\ O \subseteq Replay!Stored /\ Replay!Stored \subseteq Pair \cup Streams
  BY StoredTypes, ReplayFacts DEF Replay!ReplaysInv, Replay!TypeOK, Replay!NoTime
<1>3. Replay!TypeOK'
  BY <1>1, <1>2, ReplayFacts DEF Replay!TypeOK, Replay!NoTime
<1>4. ASSUME serial
      PROVE  /\ Replay!InRun' /\ t4' \subseteq Replay!Stored' \cup t6'.ids
             /\ Replay!YoungStays
  <2>1. /\ Replay!InRun /\ t4 \subseteq Replay!Stored \cup t6.ids
        /\ t3' = [s \in Pair \cup Streams |-> IF s \in t6.page THEN Replay!NoTime ELSE t3[s]]
    BY <1>1, <1>4 DEF Replay!ReplaysInv
  <2>2. /\ t6.ids \cap Replay!Stored \subseteq t6.page /\ t6.page \subseteq t6.ids \cap O
        /\ t6.cutoff = IF t1 < ReplayAge THEN 0 ELSE t1 - ReplayAge
    BY <1>1, <2>1 DEF Replay!InRun
  <2>3. Replay!Stored' = Replay!Stored \ t6.page
    BY <1>2, <2>1 DEF Replay!Stored, Replay!NoTime
  <2>4. Replay!Old(t6.cutoff)' = O \ t6.page
    BY <1>1, <1>2, <2>1, <2>3 DEF Replay!Old
  <2>5. (O \ t6.page) \ t6.ids = O \ t6.ids
    BY <2>2
  <2>6. Replay!YoungStays
    <3>1. \A s \in Replay!Stored : t1 <= t3[s] + ReplayAge => s \notin t6.page
      BY <1>2, <2>2, ReplayFacts DEF Replay!Old
    <3>. QED
      BY <1>1, <1>2, <2>1, <3>1 DEF Replay!YoungStays
  <2>7. Replay!InRun'
    <3>1. /\ t6' = t6 /\ t1' = t1 /\ t7' = t7 /\ t6.ids \cap Replay!Stored' = {}
          /\ t5' \in {"list", "clear"} /\ (t5' = "clear" => t6.pages = ReplayPages)
      BY <1>1, <1>2, <2>2, <2>3, ReplayFacts
    <3>2. Replay!Old(t6.cutoff)' \ t6.ids = O \ t6.ids
      BY <2>4, <2>5
    <3>. HIDE DEF O
    <3>. QED
      BY <1>1, <2>1, <3>1, <3>2 DEF Replay!InRun, O
  <2>8. t4' \subseteq Replay!Stored' \cup t6'.ids
    BY <1>1, <2>1, <2>2, <2>3
  <2>. QED
    BY <2>6, <2>7, <2>8
<1>5. /\ t5' \in {"list", "clear"} /\ (t5' = "list" => t6'.pages < ReplayPages)
      /\ serial' = serial
  BY <1>1
<1>6. ~serial => Replay!YoungStays
  BY DEF Replay!YoungStays
<1>. QED
  BY <1>3, <1>4, <1>5, <1>6 DEF Replay!ReplaysInv, Replay!RunHalvesBacklog

LEMMA ReplaysClear ==
    ASSUME Replay!ReplaysInv, Replay!ClearPointers
    PROVE  Replay!ReplaysInv' /\ Replay!YoungStays
<1>. DEFINE O == Replay!Old(t6.cutoff)
            left == O \ t6.ids
<1>1. /\ t5 = "clear" /\ UNCHANGED <<serial, t1, t2, t3>>
      /\ t5' = "idle" /\ t6' = Replay!NoRun
      /\ t4' = t4 \ t6.ids /\ t7' = [t7 EXCEPT !.after = Replay!Cardinality(O)]
  BY DEF Replay!ClearPointers
<1>2. /\ Replay!TypeOK /\ O \in SUBSET (Pair \cup Streams) /\ O \subseteq Replay!Stored
      /\ t6.ids \in SUBSET (Pair \cup Streams) /\ t6.pages \in Nat
  BY StoredTypes DEF Replay!ReplaysInv
<1>3. /\ Replay!Cardinality(O) = Cardinality(O)
      /\ Cardinality(O) \in 0..Replay!Cardinality(Pair \cup Streams)
      /\ t7 \in [before : 0..Replay!Cardinality(Pair \cup Streams),
                 after : 0..Replay!Cardinality(Pair \cup Streams)]
  <2>1. t7 \in [before : 0..Replay!Cardinality(Pair \cup Streams),
                after : 0..Replay!Cardinality(Pair \cup Streams)]
    BY <1>2 DEF Replay!TypeOK
  <2>. HIDE DEF O
  <2>. QED
    BY <1>2, <2>1, ReplaySets
<1>4. t7'.before = t7.before /\ t7'.after = Cardinality(O)
  BY <1>1, <1>3
<1>5. Replay!TypeOK'
  <2>1. t7' \in [before : 0..Replay!Cardinality(Pair \cup Streams),
                 after : 0..Replay!Cardinality(Pair \cup Streams)]
    <3>. HIDE DEF O
    <3>. QED
      BY <1>1, <1>3
  <2>2. t6' \in [cutoff : 0..LastHour, offset : Nat, pages : 0..ReplayPages,
                 page : SUBSET (Pair \cup Streams), ids : SUBSET (Pair \cup Streams)]
    BY <1>1, ReplayFacts DEF Replay!NoRun
  <2>3. t4' \subseteq Pair \cup Streams
    BY <1>1, <1>2 DEF Replay!TypeOK
  <2>. HIDE DEF O
  <2>. QED
    BY <1>1, <1>2, <2>1, <2>2, <2>3 DEF Replay!TypeOK, Replay!NoTime
<1>6. ASSUME serial
      PROVE  /\ \/ 2 * t7'.after <= t7'.before
                \/ t7'.before - t7'.after >= ReplayPages * ReplayPage
             /\ t4' \subseteq Replay!Stored'
             /\ Replay!YoungStays
  <2>1. /\ t6.ids \cap Replay!Stored = {} /\ t4 \subseteq Replay!Stored \cup t6.ids
        /\ t7.before = Replay!Cardinality(left \cup t6.ids)
        /\ \/ Replay!Cardinality(left) <= Replay!Cardinality(t6.ids)
           \/ Replay!Cardinality(t6.ids) = ReplayPages * ReplayPage
    BY <1>1, <1>6 DEF Replay!ReplaysInv, Replay!InRun
  <2>2. left = O
    BY <1>2, <2>1
  <2>3. /\ Cardinality(left) \in Nat /\ Cardinality(t6.ids) \in Nat
        /\ Replay!Cardinality(left) = Cardinality(left)
        /\ Replay!Cardinality(t6.ids) = Cardinality(t6.ids)
        /\ Replay!Cardinality(left \cup t6.ids) = Cardinality(left) + Cardinality(t6.ids)
    <3>. HIDE DEF O
    <3>. QED
      BY <1>2, RunSets
  <2>4. \/ 2 * t7'.after <= t7'.before
        \/ t7'.before - t7'.after >= ReplayPages * ReplayPage
    <3>1. t7'.after = Cardinality(left) /\ t7'.before = Cardinality(left) + Cardinality(t6.ids)
      BY <1>4, <2>1, <2>2, <2>3
    <3>2. ReplayPages * ReplayPage \in Nat
      BY ReplayFacts
    <3>. HIDE DEF left
    <3>. QED
      BY <2>1, <2>3, <3>1, <3>2
  <2>5. Replay!Stored' = Replay!Stored
    BY <1>1 DEF Replay!Stored
  <2>6. Replay!YoungStays
    BY <1>1, <2>1 DEF Replay!YoungStays
  <2>. QED
    BY <1>1, <2>1, <2>4, <2>5, <2>6
<1>7. ~serial => Replay!YoungStays
  BY DEF Replay!YoungStays
<1>8. serial' = serial
  BY <1>1
<1>. QED
  BY <1>1, <1>5, <1>6, <1>7, <1>8 DEF Replay!ReplaysInv, Replay!RunHalvesBacklog

LEMMA ReplaysKept ==
    ASSUME Replay!ReplaysInv, [Replay!Next]_Replay!vars
    PROVE  Replay!ReplaysInv' /\ (Replay!Next => Replay!YoungStays)
<1>1. CASE Replay!Next
  BY <1>1, ReplaysQuiet, ReplaysBegin, ReplaysList, ReplaysDelete, ReplaysClear DEF Replay!Next
<1>2. CASE ~Replay!Next
  <2>1. UNCHANGED Replay!vars
    BY <1>2
  <2>. QED
    BY <1>2, <2>1 DEF Replay!vars, Replay!ReplaysInv, Replay!TypeOK, Replay!RunHalvesBacklog,
       Replay!InRun, Replay!Stored, Replay!Old
<1>. QED
  BY <1>1, <1>2

ReplayPartInv == part = "replays" => Replay!ReplaysInv

\* Where the store answers and the process stays up no row points at a recording that is
\* gone, each run takes half of the old replays or as many as its pages hold, though the
\* offset moves on past what is being deleted, and no replay goes before its time
\* (storage-cleanup.service.ts:33-110).
THEOREM ReplaysStayPlayable == PartSpec => ReplaysPlayable
<1>1. PartInit => ReplayPartInv
  BY ReplaysStart, ReplaysInit DEF ReplayPartInv
<1>2. ReplayPartInv /\ [PartNext]_<<vars, store>> =>
         ReplayPartInv' /\ [(part = "replays" => Replay!YoungStays)]_store
  <2>1. ASSUME ReplayPartInv, [PartNext]_<<vars, store>>
        PROVE  ReplayPartInv' /\ [(part = "replays" => Replay!YoungStays)]_store
    <3>1. part' = part
      BY <2>1 DEF PartNext, store
    <3>2. CASE part = "replays"
      BY <2>1, <3>1, <3>2, ReplaysStep, ReplaysKept DEF ReplayPartInv
    <3>3. CASE part # "replays"
      BY <3>1, <3>3 DEF ReplayPartInv
    <3>. QED
      BY <3>2, <3>3
  <2>. QED
    BY <2>1
<1>3. ReplayPartInv => (part = "replays" =>
         Replay!TypeOK /\ Replay!ShownIsStored /\ Replay!RunHalvesBacklog)
  BY DEF ReplayPartInv, Replay!ReplaysInv, Replay!ShownIsStored, Replay!NoRun
<1>. QED
  BY <1>1, <1>2, <1>3, PTL DEF PartSpec, ReplaysPlayable

-----------------------------------------------------------------------------
(***************************************************************************)
(* Lists, badges and figures.                                              *)
(***************************************************************************)
LEMMA BoardsStart ==
    ASSUME PartInit, part = "boards"
    PROVE  Board!Init
BY DEF PartInit

LEMMA BoardsStep ==
    ASSUME [PartNext]_<<vars, store>>, part = "boards"
    PROVE  [Board!Next]_Board!vars
BY DEF PartNext, vars, store, Board!vars

LEMMA BoardCardinality ==
    ASSUME NEW S
    PROVE  Board!Cardinality(S) = Cardinality(S)
BY DEF Board!Cardinality, Cardinality, Board!IsFiniteSet, IsFiniteSet

LEMMA BoardFacts ==
    /\ ListLimit \in Nat \ {0} /\ MaxRows \in Nat /\ RowMoves \in Nat /\ LastHalfDay \in Nat
    /\ \A s \in RowShapes : s \in [kind : Board!Kinds, buyer : Board!Users, sellers : SUBSET Board!Users]
    /\ \A a \in ListsAsked : a \in [view : Board!Lists \cup {"counts"}, user : Board!Users, want : Board!Wanted]
    /\ "PAID" \in RowStatuses
BY BoardConstants DEF Board!BoardsAssumption

\* How many rows of a finite set of numbers are newer than another.
After(S, i) == Cardinality({j \in S : j > i})

LEMMA AfterIs ==
    ASSUME NEW S, NEW i
    PROVE  Board!Newer(S, i) = After(S, i)
BY BoardCardinality DEF Board!Newer, After

LEMMA AfterBounds ==
    ASSUME NEW S \in SUBSET Nat, IsFiniteSet(S), NEW i \in S
    PROVE  /\ After(S, i) \in Nat /\ After(S, i) < Cardinality(S)
           /\ \A j \in S : j > i => After(S, j) < After(S, i)
<1>. DEFINE N(j) == {k \in S : k > j}
<1>1. ASSUME NEW j \in S
      PROVE  IsFiniteSet(N(j)) /\ Cardinality(N(j)) \in Nat
  <2>1. N(j) \in SUBSET S
    OBVIOUS
  <2>. HIDE DEF N
  <2>. QED
    BY <2>1, FS_Subset, FS_CardinalityType
<1>2. ASSUME NEW T, IsFiniteSet(T), NEW U \in SUBSET T, NEW x \in T, x \notin U
      PROVE  Cardinality(U) < Cardinality(T)
  <2>1. Cardinality(U) <= Cardinality(T) /\ (Cardinality(T) = Cardinality(U) => T = U) /\ IsFiniteSet(U)
    BY <1>2, FS_Subset
  <2>2. Cardinality(U) \in Nat /\ Cardinality(T) \in Nat
    BY <1>2, <2>1, FS_CardinalityType
  <2>. QED
    BY <1>2, <2>1, <2>2
<1>3. Cardinality(N(i)) < Cardinality(S)
  <2>1. N(i) \in SUBSET S /\ i \notin N(i)
    OBVIOUS
  <2>. HIDE DEF N
  <2>. QED
    BY <1>2, <2>1
<1>4. ASSUME NEW j \in S, j > i
      PROVE  Cardinality(N(j)) < Cardinality(N(i))
  <2>0. i \in Nat /\ j \in Nat /\ \A k \in S : k \in Nat
    OBVIOUS
  <2>1. N(j) \in SUBSET N(i) /\ j \in N(i) /\ j \notin N(j)
    <3>1. \A k \in S : k > j => k > i
      BY <1>4, <2>0
    <3>2. N(j) \in SUBSET N(i)
      BY <3>1
    <3>3. j \in N(i)
      BY <1>4
    <3>4. j \notin N(j)
      BY <2>0
    <3>. QED
      BY <3>2, <3>3, <3>4
  <2>2. IsFiniteSet(N(i))
    BY <1>1
  <2>. HIDE DEF N
  <2>. QED
    BY <1>2, <2>1, <2>2
<1>. QED
  BY <1>1, <1>3, <1>4 DEF After

LEMMA AfterGrows ==
    ASSUME NEW S \in SUBSET Nat, IsFiniteSet(S), NEW T \in SUBSET S, NEW i
    PROVE  After(T, i) <= After(S, i) /\ After(T, i) \in Nat /\ After(S, i) \in Nat
<1>. DEFINE A == {j \in T : j > i}
            B == {j \in S : j > i}
<1>1. A \in SUBSET B /\ B \in SUBSET S
  OBVIOUS
<1>. HIDE DEF A, B
<1>2. IsFiniteSet(B) /\ IsFiniteSet(A) /\ Cardinality(A) <= Cardinality(B)
  BY <1>1, FS_Subset
<1>. QED
  BY <1>2, FS_CardinalityType DEF After, A, B

\* All but the m newest rows are as many as there are rows, without those m.
LEMMA AllButNewest ==
    ASSUME NEW S \in SUBSET Nat, IsFiniteSet(S), NEW m \in Nat, NEW V \in SUBSET S,
           V # {}, \A i \in V : After(S, i) >= m
    PROVE  Cardinality(V) + m <= Cardinality(S)
<1>. DEFINE B == {After(S, i) : i \in V}
<1>1. B \in SUBSET Nat /\ B # {}
  BY AfterBounds
<1>2. PICK a \in V : \A i \in V : After(S, a) <= After(S, i)
  <2>1. PICK n \in B : \A k \in B : n <= k
    <3>. HIDE DEF B
    <3>. QED
      BY <1>1, Least
  <2>. QED
    BY <2>1
<1>. DEFINE U == {j \in S : j > a}
<1>3. U \cap V = {}
  <2>1. ASSUME NEW j \in V, j > a
        PROVE  FALSE
    <3>1. After(S, j) < After(S, a) /\ After(S, j) \in Nat /\ After(S, a) \in Nat
      BY <2>1, AfterBounds
    <3>. QED
      BY <1>2, <3>1
  <2>. QED
    BY <2>1
<1>4. U \in SUBSET S /\ U \cup V \in SUBSET S
  OBVIOUS
<1>5. Cardinality(U) >= m
  BY <1>2 DEF After
<1>. HIDE DEF U
<1>6. /\ IsFiniteSet(U) /\ IsFiniteSet(V) /\ Cardinality(U) \in Nat /\ Cardinality(V) \in Nat
      /\ Cardinality(S) \in Nat /\ Cardinality(U \cup V) <= Cardinality(S)
  BY <1>4, FS_Subset, FS_CardinalityType
<1>7. Cardinality(U \cup V) = Cardinality(U) + Cardinality(V) - Cardinality(U \cap V)
  BY <1>6, FS_Union
<1>8. Cardinality(U \cap V) = 0
  BY <1>3, FS_EmptySet
<1>. QED
  BY <1>5, <1>6, <1>7, <1>8

\* A list without a filter of statuses is of the rows whose shape and day it asks for.
WouldList(view, u, want, shape, at) ==
    /\ CASE view = "mine" -> u \in Shoppers /\ shape.kind = "order" /\ shape.buyer = u
         [] view = "sales" -> u \in Shops /\ shape.kind = "order" /\ u \in shape.sellers
         [] view = "returns" -> u \in Shops /\ shape.kind = "replacement" /\ u \in shape.sellers
         [] view = "console" -> u \in Staff /\ shape.kind = "replacement"
    /\ view = "console" \/ Board!InRange(want.date, at)

LEMMA SelectedIs ==
    ASSUME NEW view \in Board!Lists, NEW u, NEW want \in Board!Wanted, want.statuses = {}
    PROVE  /\ Board!Selected(view, u, want) =
                 {i \in DOMAIN t2 : WouldList(view, u, want, t2[i].shape, t2[i].at)}
           /\ Board!Selected(view, u, want)' =
                 {i \in DOMAIN t2' : WouldList(view, u, want, t2'[i].shape, t2'[i].at)}
<1>1. /\ want = [statuses |-> {}, date |-> want.date]
      /\ [want EXCEPT !.date = Board!AnyDay] = [statuses |-> {}, date |-> Board!AnyDay]
      /\ \A t : Board!InRange(Board!AnyDay, t)
  BY DEF Board!Wanted, Board!AnyDay, Board!InRange
<1>2. Board!Selected(view, u, want) =
         {i \in DOMAIN t2 : WouldList(view, u, want, t2[i].shape, t2[i].at)}
  BY <1>1 DEF WouldList, Board!Lists, Board!Selected, Board!FindMyOrders, Board!FindSellerOrders,
     Board!ListForSeller, Board!ListAdmin, Board!Filtered, Board!OrdersOf, Board!SalesOf,
     Board!ReplacementsOf, Board!AllReplacements, Board!Rows
<1>3. Board!Selected(view, u, want)' =
         {i \in DOMAIN t2' : WouldList(view, u, want, t2'[i].shape, t2'[i].at)}
  BY <1>1 DEF WouldList, Board!Lists, Board!Selected, Board!FindMyOrders, Board!FindSellerOrders,
     Board!ListForSeller, Board!ListAdmin, Board!Filtered, Board!OrdersOf, Board!SalesOf,
     Board!ReplacementsOf, Board!AllReplacements, Board!Rows
<1>. QED
  BY <1>2, <1>3

\* The sales of a user, of any status or one of some.
LEMMA SalesAre ==
    ASSUME NEW u \in Shops, NEW statuses, NEW date
    PROVE  LET want == [statuses |-> statuses, date |-> date] IN
           /\ Board!FindSellerOrders(u, want) =
                 {i \in DOMAIN t2 : /\ t2[i].shape.kind = "order" /\ u \in t2[i].shape.sellers
                                    /\ statuses # {} => t2[i].status \in statuses
                                    /\ Board!InRange(date, t2[i].at)}
           /\ Board!FindSellerOrders(u, want)' =
                 {i \in DOMAIN t2' : /\ t2'[i].shape.kind = "order" /\ u \in t2'[i].shape.sellers
                                     /\ statuses # {} => t2'[i].status \in statuses
                                     /\ Board!InRange(date, t2'[i].at)}
BY DEF Board!FindSellerOrders, Board!Filtered, Board!SalesOf, Board!Rows

\* A row arrives at the end, or an order moves to another status, or all stay as they are.
RowsChange(n) ==
    /\ DOMAIN t2 = 1..n /\ n \in Nat
    /\ \/ t2' = t2
       \/ /\ DOMAIN t2' = 1..n + 1 /\ \A i \in 1..n : t2'[i] = t2[i]
          /\ t3 # Board!NoReader => t3' = [t3 EXCEPT !.changes = @ + 1]
       \/ /\ DOMAIN t2' = 1..n
          /\ \E m \in 1..n : \A i \in 1..n :
                /\ t2'[i].shape = t2[i].shape /\ t2'[i].at = t2[i].at
                /\ i # m => t2'[i] = t2[i]
          /\ t3 # Board!NoReader => t3' = [t3 EXCEPT !.changes = @ + 1]

LEMMA BoardRows ==
    ASSUME Board!TypeOK, [Board!Next]_Board!vars
    PROVE  /\ RowsChange(Len(t2)) /\ serial' = serial
           /\ t2' \in Seq([shape : RowShapes, at : 0 .. LastHalfDay, status : RowStatuses])
           /\ Len(t2') <= MaxRows /\ t1' \in 0..LastHalfDay /\ t4' \in 0..RowMoves
<1>. DEFINE R == [shape : RowShapes, at : 0 .. LastHalfDay, status : RowStatuses]
<1>1. /\ t2 \in Seq(R) /\ Len(t2) <= MaxRows /\ t1 \in 0..LastHalfDay /\ t4 \in 0..RowMoves
      /\ DOMAIN t2 = 1..Len(t2) /\ Len(t2) \in Nat
  BY DEF Board!TypeOK
<1>2. ASSUME NEW s \in RowShapes, Board!Arrive(s)
      PROVE  /\ RowsChange(Len(t2)) /\ serial' = serial /\ t2' \in Seq(R)
             /\ Len(t2') <= MaxRows /\ t1' \in 0..LastHalfDay /\ t4' \in 0..RowMoves
  <2>. DEFINE r == [shape |-> s, at |-> t1, status |-> "PAID"]
  <2>1. /\ r \in R /\ t2' = Append(t2, r) /\ Len(t2) < MaxRows
        /\ t3 # Board!NoReader => t3' = [t3 EXCEPT !.changes = @ + 1]
        /\ UNCHANGED <<serial, t1, t4>>
    BY <1>1, <1>2, BoardFacts DEF Board!Arrive
  <2>. HIDE DEF R, r
  <2>2. t2' \in Seq(R) /\ Len(t2') = Len(t2) + 1 /\ \A i \in 1..Len(t2) : t2'[i] = t2[i]
    BY <1>1, <2>1
  <2>3. DOMAIN t2' = 1..Len(t2) + 1
    BY <2>2
  <2>4. RowsChange(Len(t2))
    BY <1>1, <2>1, <2>2, <2>3 DEF RowsChange
  <2>. QED
    BY <1>1, <2>1, <2>2, <2>4, BoardFacts
<1>3. ASSUME NEW m \in Board!Rows, NEW to \in RowStatuses, Board!Move(m, to)
      PROVE  /\ RowsChange(Len(t2)) /\ serial' = serial /\ t2' \in Seq(R)
             /\ Len(t2') <= MaxRows /\ t1' \in 0..LastHalfDay /\ t4' \in 0..RowMoves
  <2>1. /\ t2' = [t2 EXCEPT ![m].status = to] /\ m \in 1..Len(t2)
        /\ t3 # Board!NoReader => t3' = [t3 EXCEPT !.changes = @ + 1]
        /\ UNCHANGED <<serial, t1>> /\ t4' = t4 + 1 /\ t4 < RowMoves
    BY <1>1, <1>3 DEF Board!Move, Board!Rows
  <2>2. \A i \in 1..Len(t2) : t2[i] \in R
    <3>. HIDE DEF R
    <3>. QED
      BY <1>1
  <2>3. /\ DOMAIN t2' = 1..Len(t2) /\ t2'[m] = [t2[m] EXCEPT !.status = to] /\ t2'[m] \in R
        /\ \A i \in 1..Len(t2) : i # m => t2'[i] = t2[i]
    BY <1>1, <2>1, <2>2
  <2>4. t2'[m].shape = t2[m].shape /\ t2'[m].at = t2[m].at
    BY <2>1, <2>2, <2>3
  <2>5. t2' \in Seq(R) /\ Len(t2') = Len(t2)
    <3>. HIDE DEF R
    <3>. QED
      BY <1>1, <2>1, <2>2, <2>3
  <2>. HIDE DEF R
  <2>6. RowsChange(Len(t2))
    <3>1. \E k \in 1..Len(t2) : \A i \in 1..Len(t2) :
             /\ t2'[i].shape = t2[i].shape /\ t2'[i].at = t2[i].at
             /\ i # k => t2'[i] = t2[i]
      BY <2>1, <2>3, <2>4
    <3>. QED
      BY <1>1, <2>1, <2>3, <3>1 DEF RowsChange
  <2>. QED
    BY <1>1, <2>1, <2>5, <2>6, BoardFacts
<1>4. CASE /\ t2' = t2 /\ serial' = serial /\ t4' = t4
           /\ t1' \in 0..LastHalfDay
  BY <1>1, <1>4 DEF RowsChange
<1>5. CASE ~(\E s \in RowShapes : Board!Arrive(s))
           /\ ~(\E i \in Board!Rows, to \in RowStatuses : Board!Move(i, to))
  <2>1. /\ t2' = t2 /\ serial' = serial /\ t4' = t4 /\ t1' \in 0..LastHalfDay
    BY <1>1, <1>5, BoardFacts DEF Board!Next, Board!vars, Board!Tick, Board!QueryRows, Board!QueryCount,
       Board!QueryBoth, Board!NextPage, Board!Leave, Board!Open, Board!GetSellerOrderCounts,
       Board!QueryTab
  <2>. QED
    BY <1>4, <2>1
<1>. QED
  BY <1>2, <1>3, <1>5

LEMMA BoardSets ==
    ASSUME Board!TypeOK
    PROVE  /\ \A S : S \subseteq DOMAIN t2 =>
                 /\ S \in SUBSET Nat /\ IsFiniteSet(S) /\ Cardinality(S) \in Nat
                 /\ Board!Cardinality(S) = Cardinality(S)
           /\ \A view \in Board!Lists : \A u, want : Board!Selected(view, u, want) \subseteq DOMAIN t2
           /\ \A S, page : Board!Page(S, page) \subseteq S
           /\ \A u, want : Board!FindSellerOrders(u, want) \subseteq DOMAIN t2
<1>1. DOMAIN t2 = 1..Len(t2) /\ Len(t2) \in Nat
  BY DEF Board!TypeOK
<1>2. ASSUME NEW S, S \subseteq DOMAIN t2
      PROVE  /\ S \in SUBSET Nat /\ IsFiniteSet(S) /\ Cardinality(S) \in Nat
             /\ Board!Cardinality(S) = Cardinality(S)
  <2>1. IsFiniteSet(1..Len(t2))
    BY <1>1, IntervalTo
  <2>2. IsFiniteSet(S)
    BY <1>1, <1>2, <2>1, FS_Subset
  <2>. QED
    BY <1>1, <1>2, <2>2, FS_CardinalityType, BoardCardinality
<1>3. \A view \in Board!Lists : \A u, want : Board!Selected(view, u, want) \subseteq DOMAIN t2
  BY DEF Board!Lists, Board!Selected, Board!FindMyOrders, Board!FindSellerOrders,
     Board!ListForSeller, Board!ListAdmin, Board!Filtered, Board!OrdersOf, Board!SalesOf,
     Board!ReplacementsOf, Board!AllReplacements, Board!Rows
<1>4. \A S, page : Board!Page(S, page) \subseteq S
  BY DEF Board!Page
<1>5. \A u, want : Board!FindSellerOrders(u, want) \subseteq DOMAIN t2
  BY DEF Board!FindSellerOrders, Board!Filtered, Board!SalesOf, Board!Rows
<1>. QED
  BY <1>2, <1>3, <1>4, <1>5

\* A filter is resolved to a day of India.
LEMMA ResolvedTypes ==
    ASSUME Board!TypeOK, NEW want \in Board!Wanted
    PROVE  /\ Board!Resolved(want) \in Board!Wanted
           /\ Board!Resolved(want).date \in {Board!AnyDay} \cup Nat
           /\ want.date # Board!Today => Board!Resolved(want) = want
           /\ Board!Resolved(want).statuses = want.statuses
<1>1. t1 \in Nat
  BY BoardFacts DEF Board!TypeOK
<1>2. (t1 + 2) \div 2 \in Nat
  BY <1>1
<1>3. /\ Board!Resolved(want) =
            [want EXCEPT !.date = IF want.date = Board!Today THEN (t1 + 2) \div 2 ELSE want.date]
      /\ want.date \in {Board!AnyDay, Board!Today} \cup Nat
  BY DEF Board!Resolved, Board!IndianDay, Board!Wanted
<1>. QED
  BY <1>2, <1>3 DEF Board!Wanted

LEMMA BoardReader ==
    ASSUME Board!TypeOK, [Board!Next]_Board!vars
    PROVE  t3' \in Board!Scrolling \cup Board!Counting \cup {Board!NoReader}
<1>1. t3 \in Board!Scrolling \cup Board!Counting \cup {Board!NoReader}
  BY DEF Board!TypeOK
<1>2. /\ t3.view \in Board!Lists <=> t3 \in Board!Scrolling
      /\ t3.view = "counts" <=> t3 \in Board!Counting
  BY <1>1 DEF Board!Scrolling, Board!Counting, Board!NoReader, Board!Lists
<1>3. CASE t3 # Board!NoReader /\ t3' = [t3 EXCEPT !.changes = @ + 1]
  BY <1>1, <1>3 DEF Board!Scrolling, Board!Counting
<1>4. ASSUME NEW S, NEW todo \in SUBSET {"rows", "count"}, NEW n \in Nat, t3.view \in Board!Lists,
             S \subseteq Board!Chosen,
             t3' = [t3 EXCEPT !.seen = @ \cup S, !.total = n, !.todo = todo]
      PROVE  t3' \in Board!Scrolling
  <2>1. S \in SUBSET Nat
    BY <1>4, BoardSets DEF Board!Chosen
  <2>. QED
    BY <1>2, <1>4, <2>1 DEF Board!Scrolling
<1>5. ASSUME Board!QueryRows \/ Board!QueryCount \/ Board!QueryBoth
      PROVE  t3' \in Board!Scrolling
  <2>1. t3 \in Board!Scrolling /\ t3.view \in Board!Lists
    BY <1>2, <1>5 DEF Board!QueryRows, Board!QueryCount, Board!QueryBoth, Board!Reading
  <2>2. /\ Board!Chosen \subseteq DOMAIN t2 /\ Board!Page(Board!Chosen, t3.page) \subseteq Board!Chosen
        /\ Board!Cardinality(Board!Chosen) \in Nat
    BY <2>1, BoardSets DEF Board!Chosen
  <2>3. \E S \in {{}, Board!Page(Board!Chosen, t3.page)}, n \in {t3.total, Board!Cardinality(Board!Chosen)},
           todo \in SUBSET {"rows", "count"} :
              t3' = [t3 EXCEPT !.seen = @ \cup S, !.total = n, !.todo = todo]
    <3>1. CASE Board!QueryRows
      BY <2>1, <3>1 DEF Board!QueryRows, Board!Scrolling
    <3>2. CASE Board!QueryCount
      <4>1. /\ t3' = [t3 EXCEPT !.total = Board!Cardinality(Board!Chosen), !.todo = @ \ {"count"}]
            /\ t3.seen = t3.seen \cup {} /\ t3.todo \ {"count"} \in SUBSET {"rows", "count"}
        BY <2>1, <3>2 DEF Board!QueryCount, Board!Scrolling
      <4>2. t3' = [t3 EXCEPT !.seen = @ \cup {}, !.total = Board!Cardinality(Board!Chosen),
                             !.todo = t3.todo \ {"count"}]
        BY <2>1, <4>1 DEF Board!Scrolling
      <4>. QED
        BY <4>1, <4>2
    <3>3. CASE Board!QueryBoth
      BY <2>1, <3>3 DEF Board!QueryBoth, Board!Scrolling
    <3>. QED
      BY <1>5, <3>1, <3>2, <3>3
  <2>4. t3.total \in Nat
    BY <2>1 DEF Board!Scrolling
  <2>. QED
    BY <1>4, <2>1, <2>2, <2>3, <2>4
<1>6. ASSUME Board!NextPage
      PROVE  t3' \in Board!Scrolling
  <2>1. /\ t3 \in Board!Scrolling
        /\ t3' = [t3 EXCEPT !.page = @ + 1, !.todo = {"rows", "count"}, !.want = Board!Resolved(t3.asked)]
    BY <1>2, <1>6 DEF Board!NextPage
  <2>2. Board!Resolved(t3.asked) \in Board!Wanted
    BY <2>1, ResolvedTypes DEF Board!Scrolling
  <2>3. t3.page + 1 \in Nat \ {0} /\ {"rows", "count"} \in SUBSET {"rows", "count"}
    BY <2>1 DEF Board!Scrolling
  <2>. HIDE DEF Board!Resolved
  <2>. QED
    BY <2>1, <2>2, <2>3 DEF Board!Scrolling
<1>7. ASSUME NEW a \in ListsAsked, Board!Open(a)
      PROVE  t3' \in Board!Scrolling
  <2>1. a.view \in Board!Lists /\ a.user \in Board!Users /\ a.want \in Board!Wanted
    BY <1>7, BoardFacts DEF Board!Open
  <2>2. Board!Resolved(a.want) \in Board!Wanted
    BY <2>1, ResolvedTypes
  <2>3. Board!Selected(a.view, a.user, Board!Resolved(a.want)) \in SUBSET Nat
    BY <2>1, BoardSets
  <2>. QED
    BY <1>7, <2>1, <2>2, <2>3 DEF Board!Open, Board!Scrolling
<1>8. ASSUME NEW a \in ListsAsked, Board!GetSellerOrderCounts(a)
      PROVE  t3' \in Board!Counting
  <2>1. a.user \in Shops /\ a.want \in Board!Wanted
    BY <1>8, BoardFacts DEF Board!GetSellerOrderCounts
  <2>2. Board!Resolved(a.want).date \in {Board!AnyDay} \cup Nat
    BY <2>1, ResolvedTypes
  <2>3. \A t : Board!CountTab(t, a.user, Board!Resolved(a.want).date) \in Nat
    BY BoardSets DEF Board!CountTab
  <2>. QED
    BY <1>8, <2>1, <2>2, <2>3 DEF Board!GetSellerOrderCounts, Board!Counting
<1>9. ASSUME NEW t \in DOMAIN Board!Tabs, Board!QueryTab(t)
      PROVE  t3' \in Board!Counting
  <2>1. Board!CountTab(t, t3.user, t3.date) \in Nat
    BY BoardSets DEF Board!CountTab
  <2>. QED
    BY <1>2, <1>9, <2>1 DEF Board!QueryTab, Board!Counting
<1>10. CASE t3' = t3 \/ t3' = Board!NoReader
  BY <1>1, <1>10
<1>11. ASSUME \/ \E s \in RowShapes : Board!Arrive(s)
              \/ \E i \in Board!Rows, to \in RowStatuses : Board!Move(i, to)
       PROVE  t3' = t3 \/ (t3 # Board!NoReader /\ t3' = [t3 EXCEPT !.changes = @ + 1])
  BY <1>11 DEF Board!Arrive, Board!Move
<1>12. ASSUME Board!Tick \/ Board!Leave \/ UNCHANGED Board!vars
       PROVE  t3' = t3 \/ t3' = Board!NoReader
  BY <1>12 DEF Board!Tick, Board!Leave, Board!vars
<1>. QED
  BY <1>3, <1>5, <1>6, <1>7, <1>8, <1>9, <1>10, <1>11, <1>12 DEF Board!Next

\* A list without a filter of statuses loses no row, and gains one when a row arrives.
LEMMA SelectionGrows ==
    ASSUME Board!TypeOK, [Board!Next]_Board!vars,
           NEW view \in Board!Lists, NEW u, NEW want \in Board!Wanted, want.statuses = {}
    PROVE  LET S == Board!Selected(view, u, want)  T == Board!Selected(view, u, want)' IN
           /\ T \in SUBSET Nat /\ IsFiniteSet(T) /\ Cardinality(T) \in Nat
           /\ S \in SUBSET T
           /\ \/ T = S
              \/ /\ Cardinality(T) <= Cardinality(S) + 1
                 /\ t3 # Board!NoReader => t3' = [t3 EXCEPT !.changes = @ + 1]
<1>. DEFINE S == Board!Selected(view, u, want)
            T == Board!Selected(view, u, want)'
            n == Len(t2)
<1>1. /\ RowsChange(n)
      /\ S = {i \in DOMAIN t2 : WouldList(view, u, want, t2[i].shape, t2[i].at)}
      /\ T = {i \in DOMAIN t2' : WouldList(view, u, want, t2'[i].shape, t2'[i].at)}
  BY BoardRows, SelectedIs
<1>2. IsFiniteSet(S) /\ S \in SUBSET Nat /\ Cardinality(S) \in Nat
  BY BoardSets
<1>. HIDE DEF S, T, n
<1>3. CASE t2' = t2 \/ (DOMAIN t2' = 1..n /\ \A i \in 1..n : t2'[i].shape = t2[i].shape /\ t2'[i].at = t2[i].at)
  <2>1. T = S
    BY <1>1, <1>3 DEF RowsChange
  <2>. QED
    BY <1>2, <2>1 DEF S, T
<1>4. CASE /\ DOMAIN t2' = 1..n + 1 /\ \A i \in 1..n : t2'[i] = t2[i]
           /\ t3 # Board!NoReader => t3' = [t3 EXCEPT !.changes = @ + 1]
  <2>1. n \in Nat /\ DOMAIN t2 = 1..n
    BY <1>1 DEF RowsChange
  <2>2. S \subseteq T /\ T \subseteq S \cup {n + 1}
    BY <1>1, <1>4, <2>1
  <2>3. T = S \/ T = S \cup {n + 1}
    BY <2>2
  <2>4. /\ IsFiniteSet(S \cup {n + 1}) /\ Cardinality(S \cup {n + 1}) <= Cardinality(S) + 1
        /\ Cardinality(S \cup {n + 1}) \in Nat /\ S \cup {n + 1} \in SUBSET Nat
    <3>1. /\ IsFiniteSet(S \cup {n + 1})
          /\ Cardinality(S \cup {n + 1}) = IF n + 1 \in S THEN Cardinality(S) ELSE Cardinality(S) + 1
      BY <1>2, FS_AddElement
    <3>2. Cardinality(S \cup {n + 1}) <= Cardinality(S) + 1 /\ Cardinality(S \cup {n + 1}) \in Nat
      BY <1>2, <3>1
    <3>3. S \cup {n + 1} \in SUBSET Nat
      BY <1>2, <2>1
    <3>. QED
      BY <3>1, <3>2, <3>3
  <2>5. IsFiniteSet(T) /\ Cardinality(T) <= Cardinality(S) + 1 /\ Cardinality(T) \in Nat /\ T \in SUBSET Nat
    BY <1>2, <2>3, <2>4
  <2>. QED
    BY <1>4, <2>2, <2>5 DEF S, T
<1>. QED
  BY <1>1, <1>3, <1>4 DEF RowsChange

\* The part of ScrollKept that speaks of the rows F a list has.
Shown(F, r) ==
    /\ r.upTo \subseteq F
    /\ \A i \in r.upTo \ r.seen :
          After(F, i) >= (IF "rows" \in r.todo THEN r.page - 1 ELSE r.page) * ListLimit
    /\ "count" \notin r.todo => Cardinality(F) <= r.total + r.changes
    /\ serial => r.todo \in {{}, {"rows", "count"}}
    /\ serial /\ r.todo = {} /\ r.total <= r.page * ListLimit => r.upTo \ r.seen = {}

Plain(r) == r.view \in Board!Lists /\ r.asked.statuses = {} /\ r.asked.date # Board!Today

LEMMA ScrollIs ==
    ASSUME TRUE
    PROVE  /\ Board!ScrollKept <=> (Plain(t3) => t3.want = t3.asked
                /\ Shown(Board!Selected(t3.view, t3.user, t3.want), t3))
           /\ serial' = serial =>
                (Board!ScrollKept' <=> (Plain(t3') => t3'.want = t3'.asked
                   /\ Shown(Board!Selected(t3.view, t3.user, t3.want)', t3')))
<1>1. Board!ScrollKept <=> (Plain(t3) => t3.want = t3.asked
                /\ Shown(Board!Selected(t3.view, t3.user, t3.want), t3))
  BY BoardCardinality, AfterIs DEF Board!ScrollKept, Plain, Shown, Board!Chosen
<1>2. serial' = serial =>
         (Board!ScrollKept' <=> (Plain(t3') => t3'.want = t3'.asked
                /\ Shown(Board!Selected(t3.view, t3.user, t3.want)', t3')))
  BY BoardCardinality, AfterIs DEF Board!ScrollKept, Plain, Shown, Board!Chosen
<1>. QED
  BY <1>1, <1>2

LEMMA ShownGrows ==
    ASSUME NEW r \in Board!Scrolling, NEW T \in SUBSET Nat, IsFiniteSet(T), NEW F \in SUBSET T,
           Cardinality(T) <= Cardinality(F) + 1, Shown(F, r),
           NEW n \in Nat, n = r.changes + 1 \/ (n = r.changes /\ T = F)
    PROVE  Shown(T, [r EXCEPT !.changes = n])
<1>. DEFINE q == [r EXCEPT !.changes = n]
            m == (IF "rows" \in r.todo THEN r.page - 1 ELSE r.page) * ListLimit
<1>1. /\ r.changes \in Nat /\ r.total \in Nat
      /\ q.upTo = r.upTo /\ q.seen = r.seen /\ q.todo = r.todo /\ q.page = r.page /\ q.total = r.total
      /\ q.changes = n
  BY DEF Board!Scrolling
<1>2. Cardinality(F) \in Nat /\ Cardinality(T) \in Nat
  BY FS_Subset, FS_CardinalityType
<1>3. m \in Int
  BY BoardFacts DEF Board!Scrolling
<1>4. \A i \in r.upTo \ r.seen : After(T, i) >= m
  <2>1. ASSUME NEW i \in r.upTo \ r.seen
        PROVE  After(T, i) >= m
    <3>1. After(F, i) >= m
      BY DEF Shown
    <3>2. After(F, i) <= After(T, i) /\ After(F, i) \in Nat /\ After(T, i) \in Nat
      BY AfterGrows
    <3>. HIDE DEF m
    <3>. QED
      BY <1>3, <3>1, <3>2
  <2>. QED
    BY <2>1
<1>5. "count" \notin r.todo => Cardinality(T) <= r.total + n
  BY <1>1, <1>2 DEF Shown
<1>6. r.upTo \subseteq T
  BY DEF Shown
<1>. HIDE DEF q
<1>. QED
  BY <1>1, <1>4, <1>5, <1>6 DEF Shown, q

\* The rows of a page are shown, and their count is read.
LEMMA ShownPage ==
    ASSUME NEW r \in Board!Scrolling, NEW F \in SUBSET Nat, IsFiniteSet(F), Shown(F, r), "rows" \in r.todo,
           NEW q \in Board!Scrolling, q.upTo = r.upTo, q.page = r.page, q.changes = r.changes,
           q.seen = r.seen \cup Board!Page(F, r.page),
           \/ ~serial /\ q.todo = r.todo \ {"rows"} /\ q.total = r.total
           \/ q.todo = {} /\ q.total = Cardinality(F)
    PROVE  Shown(F, q)
<1>1. /\ r.page \in Nat \ {0} /\ Cardinality(F) \in Nat /\ ListLimit \in Nat \ {0} /\ r.changes \in Nat
  BY BoardFacts, FS_CardinalityType DEF Board!Scrolling
<1>2. /\ (r.page - 1) * ListLimit \in Nat /\ r.page * ListLimit \in Nat
      /\ r.page * ListLimit = (r.page - 1) * ListLimit + ListLimit
  BY <1>1
<1>3. \A i \in r.upTo \ r.seen : i \in F /\ After(F, i) >= (r.page - 1) * ListLimit
                                  /\ After(F, i) \in Nat /\ After(F, i) < Cardinality(F)
  BY AfterBounds DEF Shown
<1>4. \A i \in q.upTo \ q.seen :
         After(F, i) >= r.page * ListLimit /\ After(F, i) \in Nat /\ After(F, i) < Cardinality(F)
  <2>1. ASSUME NEW i \in q.upTo \ q.seen
        PROVE  After(F, i) >= r.page * ListLimit
    <3>1. i \in r.upTo \ r.seen /\ i \notin Board!Page(F, r.page)
      OBVIOUS
    <3>2. ~(After(F, i) \in (r.page - 1) * ListLimit .. r.page * ListLimit - 1)
      BY <1>3, <3>1, AfterIs DEF Board!Page
    <3>. QED
      BY <1>2, <1>3, <3>1, <3>2
  <2>. QED
    BY <1>3, <2>1
<1>5. q.todo = {} /\ q.total = Cardinality(F) /\ q.total <= q.page * ListLimit => q.upTo \ q.seen = {}
  <2>1. ASSUME q.total = Cardinality(F), q.total <= q.page * ListLimit, NEW i \in q.upTo \ q.seen
        PROVE  FALSE
    BY <1>1, <1>2, <1>4, <2>1
  <2>. QED
    BY <2>1
<1>6. "rows" \notin q.todo /\ q.upTo \subseteq F
  BY DEF Shown
<1>7. "count" \notin q.todo => Cardinality(F) <= q.total + q.changes
  BY <1>1 DEF Shown
<1>. QED
  BY <1>4, <1>5, <1>6, <1>7 DEF Shown

LEMMA ScrollStays ==
    ASSUME Board!TypeOK, Board!ScrollKept, [Board!Next]_Board!vars
    PROVE  Board!ScrollKept'
<1>. SUFFICES ASSUME Plain(t3')
              PROVE  t3'.want = t3'.asked /\ Shown(Board!Selected(t3.view, t3.user, t3.want)', t3')
  BY BoardRows, ScrollIs
<1>. DEFINE F == Board!Selected(t3.view, t3.user, t3.want)
            T == Board!Selected(t3.view, t3.user, t3.want)'
<1>1. /\ t3 \in Board!Scrolling \cup Board!Counting \cup {Board!NoReader}
      /\ t3' \in Board!Scrolling
  BY BoardReader DEF Board!TypeOK, Plain, Board!Scrolling, Board!Counting, Board!NoReader, Board!Lists
<1>2. ASSUME NEW a \in ListsAsked, Board!Open(a)
      PROVE  t3'.want = t3'.asked /\ Shown(T, t3')
  <2>1. /\ a.view \in Board!Lists /\ a.want \in Board!Wanted /\ t2' = t2
        /\ t3' = [view |-> a.view, user |-> a.user, asked |-> a.want, want |-> Board!Resolved(a.want),
                  page |-> 1, todo |-> {"rows", "count"}, seen |-> {}, total |-> 0,
                  upTo |-> Board!Selected(a.view, a.user, Board!Resolved(a.want)), changes |-> 0]
    BY <1>2, BoardFacts DEF Board!Open
  <2>2. Board!Resolved(a.want) = a.want
    BY <2>1, ResolvedTypes DEF Plain
  <2>. DEFINE G == Board!Selected(a.view, a.user, a.want)
  <2>3. G \in SUBSET Nat /\ IsFiniteSet(G)
    BY <2>1, BoardSets
  <2>4. T = G
    BY <2>1, <2>2 DEF Board!Selected, Board!FindMyOrders, Board!FindSellerOrders,
     Board!ListForSeller, Board!ListAdmin, Board!Filtered, Board!OrdersOf, Board!SalesOf,
     Board!ReplacementsOf, Board!AllReplacements, Board!Rows
  <2>5. /\ t3'.want = a.want /\ t3'.asked = a.want /\ t3'.upTo = G /\ t3'.seen = {} /\ t3'.page = 1
        /\ t3'.todo = {"rows", "count"}
    BY <2>1, <2>2
  <2>6. \A i \in G : After(G, i) >= 0
    <3>. HIDE DEF G
    <3>. QED
      BY <2>3, AfterBounds
  <2>7. (1 - 1) * ListLimit = 0
    BY BoardFacts
  <2>. HIDE DEF T, G
  <2>. QED
    BY <2>4, <2>5, <2>6, <2>7 DEF Shown
<1>3. ASSUME ~(\E a \in ListsAsked : Board!Open(a))
      PROVE  /\ t3 \in Board!Scrolling /\ Plain(t3) /\ t3.want = t3.asked
             /\ t3'.view = t3.view /\ t3'.user = t3.user /\ t3'.want = t3.want /\ t3'.asked = t3.asked
  <2>1. /\ t3 \in Board!Scrolling /\ t3'.view = t3.view /\ t3'.user = t3.user /\ t3'.asked = t3.asked
        /\ t3'.want \in {t3.want, Board!Resolved(t3.asked)}
    <3>1. CASE t3' = t3
      BY <1>1, <3>1 DEF Board!Scrolling
    <3>2. CASE t3 # Board!NoReader /\ t3' = [t3 EXCEPT !.changes = @ + 1]
      BY <1>1, <3>2 DEF Board!Scrolling, Board!Counting, Board!Lists
    <3>3. CASE Board!QueryRows
      BY <1>1, <3>3 DEF Board!QueryRows, Board!Reading, Board!Scrolling, Board!Counting, Board!Lists, Board!NoReader
    <3>4. CASE Board!QueryCount
      BY <1>1, <3>4 DEF Board!QueryCount, Board!Reading, Board!Scrolling, Board!Counting, Board!Lists, Board!NoReader
    <3>5. CASE Board!QueryBoth
      BY <1>1, <3>5 DEF Board!QueryBoth, Board!Reading, Board!Scrolling, Board!Counting, Board!Lists, Board!NoReader
    <3>6. CASE Board!NextPage
      BY <1>1, <3>6 DEF Board!NextPage, Board!Scrolling, Board!Counting, Board!Lists, Board!NoReader
    <3>7. ~Board!Leave
      BY <1>1 DEF Board!Leave, Board!Scrolling, Board!NoReader, Board!Lists
    <3>8. \A a \in ListsAsked : ~Board!GetSellerOrderCounts(a)
      BY <1>1 DEF Board!GetSellerOrderCounts, Board!Scrolling, Board!Lists
    <3>9. \A t \in DOMAIN Board!Tabs : ~Board!QueryTab(t)
      BY <1>1 DEF Board!QueryTab, Board!Scrolling, Board!Counting, Board!Lists, Board!NoReader
    <3>10. \/ t3' = t3 \/ (t3 # Board!NoReader /\ t3' = [t3 EXCEPT !.changes = @ + 1])
           \/ Board!QueryRows \/ Board!QueryCount \/ Board!QueryBoth \/ Board!NextPage
      BY <1>3, <3>7, <3>8, <3>9 DEF Board!Next, Board!vars, Board!Tick, Board!Arrive, Board!Move
    <3>. QED
      BY <3>1, <3>2, <3>3, <3>4, <3>5, <3>6, <3>10
  <2>2. Plain(t3) /\ t3.want = t3.asked
    BY <2>1, ScrollIs DEF Plain
  <2>3. Board!Resolved(t3.asked) = t3.asked
    BY <2>1, <2>2, ResolvedTypes DEF Plain, Board!Scrolling
  <2>. QED
    BY <2>1, <2>2, <2>3
<1>4. ASSUME ~(\E a \in ListsAsked : Board!Open(a))
      PROVE  t3'.want = t3'.asked /\ Shown(T, t3')
  <2>1. /\ t3 \in Board!Scrolling /\ Plain(t3) /\ t3.want = t3.asked
        /\ t3'.view = t3.view /\ t3'.user = t3.user /\ t3'.want = t3.want /\ t3'.asked = t3.asked
    BY <1>3, <1>4
  <2>2. Shown(F, t3) /\ t3.view \in Board!Lists /\ t3.want \in Board!Wanted /\ t3.want.statuses = {}
    BY <2>1, ScrollIs DEF Plain, Board!Scrolling
  <2>3. PICK view, u, want : view = t3.view /\ u = t3.user /\ want = t3.want
    OBVIOUS
  <2>4. F = Board!Selected(view, u, want) /\ T = Board!Selected(view, u, want)'
    BY <2>1, <2>3 DEF Board!Selected, Board!FindMyOrders, Board!FindSellerOrders,
     Board!ListForSeller, Board!ListAdmin, Board!Filtered, Board!OrdersOf, Board!SalesOf,
     Board!ReplacementsOf, Board!AllReplacements, Board!Rows
  <2>5. /\ T \in SUBSET Nat /\ IsFiniteSet(T) /\ Cardinality(T) \in Nat /\ F \in SUBSET T
        /\ T = F \/ (Cardinality(T) <= Cardinality(F) + 1 /\ t3' = [t3 EXCEPT !.changes = @ + 1])
    BY <2>1, <2>2, <2>3, <2>4, SelectionGrows DEF Board!Scrolling, Board!NoReader, Board!Lists
  <2>6. F \in SUBSET Nat /\ IsFiniteSet(F) /\ Cardinality(F) = Board!Cardinality(F) /\ F = Board!Chosen
        /\ Cardinality(F) \in Nat
    BY <2>2, BoardSets DEF Board!Chosen
  <2>7. t3.changes \in Nat /\ t3.page \in Nat \ {0} /\ t3.total \in Nat
    BY <2>1 DEF Board!Scrolling
  <2>. HIDE DEF F, T
  <2>8. CASE t3' = [t3 EXCEPT !.changes = @ + 1]
    <3>1. Cardinality(T) <= Cardinality(F) + 1
      BY <2>5, <2>6
    <3>2. Shown(T, [t3 EXCEPT !.changes = t3.changes + 1])
      BY <2>1, <2>2, <2>5, <2>7, <3>1, ShownGrows
    <3>. QED
      BY <2>1, <2>8, <3>2
  <2>9. CASE t3' # [t3 EXCEPT !.changes = @ + 1]
    <3>1. T = F
      BY <2>5, <2>9
    <3>2. CASE t3' = t3
      BY <2>1, <2>2, <3>1, <3>2
    <3>3. CASE Board!QueryRows \/ Board!QueryBoth
      <4>1. /\ "rows" \in t3.todo
            /\ t3'.upTo = t3.upTo /\ t3'.page = t3.page /\ t3'.changes = t3.changes
            /\ t3'.seen = t3.seen \cup Board!Page(F, t3.page)
            /\ \/ ~serial /\ t3'.todo = t3.todo \ {"rows"} /\ t3'.total = t3.total
               \/ t3'.todo = {} /\ t3'.total = Cardinality(F)
        BY <2>1, <2>6, <3>3 DEF Board!QueryRows, Board!QueryBoth, Board!Reading, Board!Scrolling
      <4>2. Shown(F, t3')
        BY <1>1, <2>1, <2>2, <2>6, <4>1, ShownPage
      <4>. QED
        BY <2>1, <3>1, <4>2
    <3>4. CASE Board!QueryCount
      <4>1. /\ ~serial /\ t3'.upTo = t3.upTo /\ t3'.seen = t3.seen /\ t3'.page = t3.page
            /\ t3'.changes = t3.changes /\ t3'.total = Cardinality(F) /\ t3'.todo = t3.todo \ {"count"}
        BY <2>1, <2>6, <3>4 DEF Board!QueryCount, Board!Scrolling
      <4>2. Cardinality(F) <= t3'.total + t3'.changes
        BY <2>6, <2>7, <4>1
      <4>3. "rows" \in t3'.todo <=> "rows" \in t3.todo
        BY <4>1
      <4>. QED
        BY <2>1, <2>2, <3>1, <4>1, <4>2, <4>3 DEF Shown
    <3>5. CASE Board!NextPage
      <4>1. /\ t3.todo = {} /\ t3'.upTo = t3.upTo /\ t3'.seen = t3.seen /\ t3'.page = t3.page + 1
            /\ t3'.todo = {"rows", "count"}
        BY <2>1, <3>5 DEF Board!NextPage, Board!Scrolling
      <4>2. t3'.page - 1 = t3.page
        BY <2>7, <4>1
      <4>. QED
        BY <2>1, <2>2, <3>1, <4>1, <4>2 DEF Shown
    <3>6. ~Board!Leave
      BY <1>1 DEF Board!Leave, Board!Scrolling, Board!NoReader, Board!Lists
    <3>7. \A a \in ListsAsked : ~Board!GetSellerOrderCounts(a)
      BY <1>1 DEF Board!GetSellerOrderCounts, Board!Scrolling, Board!Lists
    <3>8. \A t \in DOMAIN Board!Tabs : ~Board!QueryTab(t)
      BY <2>2 DEF Board!QueryTab, Board!Lists
    <3>9. t3 # Board!NoReader
      BY <2>2 DEF Board!NoReader, Board!Lists
    <3>10. \/ t3' = t3 \/ Board!QueryRows \/ Board!QueryCount \/ Board!QueryBoth \/ Board!NextPage
      BY <1>4, <2>9, <3>6, <3>7, <3>8, <3>9 DEF Board!Next, Board!vars, Board!Tick, Board!Arrive, Board!Move
    <3>. QED
      BY <3>2, <3>3, <3>4, <3>5, <3>10
  <2>. QED
    BY <2>8, <2>9
<1>. QED
  BY <1>2, <1>4

\* The sales a seller's badges are of, and those of them the tabs that were read have counted.
TabNames == {"all", "new", "packed", "inTransit", "delivered"}
SalesIn(rows, u, date) ==
    {i \in DOMAIN rows : /\ rows[i].shape.kind = "order" /\ u \in rows[i].shape.sellers
                         /\ Board!InRange(date, rows[i].at)}
OnTab(rows, S, t) == {i \in S : rows[i].status \in Board!Tabs[t]}
WasRead(r, t) == t \in TabNames \ {"all"} /\ r.tab[t] # Board!Unread
CountedIn(rows, S, r) == {i \in S : \E t \in TabNames : WasRead(r, t) /\ rows[i].status \in Board!Tabs[t]}
Reads(n) == IF n = Board!Unread THEN 0 ELSE n
BadgeSum(r) == Reads(r.tab.new) + Reads(r.tab.packed) + Reads(r.tab.inTransit) + Reads(r.tab.delivered)
BadgesOf(S, D, r) ==
    IF serial THEN BadgeSum(r) <= r.tab.all /\ \A t \in TabNames : r.tab[t] # Board!Unread
    ELSE IF r.tab.all = Board!Unread THEN BadgeSum(r) <= Cardinality(D) + r.changes
    ELSE BadgeSum(r) + Cardinality(S \ D) <= r.tab.all + r.changes
BadgesIn(rows, r) ==
    BadgesOf(SalesIn(rows, r.user, r.date), CountedIn(rows, SalesIn(rows, r.user, r.date), r), r)

LEMMA TabFacts ==
    /\ DOMAIN Board!Tabs = TabNames /\ Board!Tabs["all"] = {}
    /\ \A t \in TabNames \ {"all"} : Board!Tabs[t] # {}
    /\ \A t, o \in TabNames : \A s : t # o => ~(s \in Board!Tabs[t] /\ s \in Board!Tabs[o])
BY DEF Board!Tabs, TabNames

LEMMA CountsAre ==
    ASSUME t3.view = "counts" => t3.user \in Shops, t3'.view = "counts" => t3'.user \in Shops
    PROVE  /\ Board!CountsKept <=> (t3.view = "counts" => BadgesIn(t2, t3))
           /\ serial' = serial =>
                (Board!CountsKept' <=> (t3'.view = "counts" => BadgesIn(t2', t3')))
<1>1. ASSUME t3.view = "counts"
      PROVE  Board!CountsKept <=> BadgesIn(t2, t3)
  <2>1. Board!FindSellerOrders(t3.user, [statuses |-> {}, date |-> t3.date]) = SalesIn(t2, t3.user, t3.date)
    BY <1>1, SalesAre DEF SalesIn
  <2>2. Board!CountsKept <=> BadgesIn(t2, t3)
    <3>. DEFINE S == SalesIn(t2, t3.user, t3.date)
                D == {i \in S : \E t \in {o \in DOMAIN Board!Tabs \ {"all"} : t3.tab[o] # Board!Unread} :
                                    t2[i].status \in Board!Tabs[t]}
    <3>1. D = CountedIn(t2, S, t3)
      BY TabFacts DEF CountedIn, WasRead
    <3>2. Board!CountsKept <=>
            IF serial THEN BadgeSum(t3) <= t3.tab.all /\ \A t \in DOMAIN Board!Tabs : t3.tab[t] # Board!Unread
            ELSE IF t3.tab.all = Board!Unread THEN BadgeSum(t3) <= Cardinality(D) + t3.changes
            ELSE BadgeSum(t3) + Cardinality(S \ D) <= t3.tab.all + t3.changes
      BY <1>1, <2>1, BoardCardinality DEF Board!CountsKept, BadgeSum, Reads, Board!Badge
    <3>. HIDE DEF S, D
    <3>. QED
      BY <3>1, <3>2, TabFacts DEF BadgesIn, BadgesOf, S
  <2>. QED
    BY <2>2
<1>2. ASSUME t3'.view = "counts", serial' = serial
      PROVE  Board!CountsKept' <=> BadgesIn(t2', t3')
  <2>1. PICK u, date : u = t3'.user /\ date = t3'.date /\ u \in Shops
    BY <1>2
  <2>2. Board!FindSellerOrders(u, [statuses |-> {}, date |-> date])' = SalesIn(t2', u, date)
    BY <2>1, SalesAre DEF SalesIn
  <2>3. Board!FindSellerOrders(t3.user, [statuses |-> {}, date |-> t3.date])' =
           SalesIn(t2', t3'.user, t3'.date)
    BY <2>1, <2>2 DEF Board!FindSellerOrders, Board!Filtered, Board!SalesOf, Board!Rows, Board!InRange
  <2>4. Board!CountsKept' <=> BadgesIn(t2', t3')
    <3>. DEFINE S == SalesIn(t2', t3'.user, t3'.date)
                D == {i \in S : \E t \in {o \in DOMAIN Board!Tabs \ {"all"} : t3'.tab[o] # Board!Unread} :
                                    t2'[i].status \in Board!Tabs[t]}
    <3>1. D = CountedIn(t2', S, t3')
      BY TabFacts DEF CountedIn, WasRead
    <3>2. Board!CountsKept' <=>
            IF serial THEN BadgeSum(t3') <= t3'.tab.all /\ \A t \in DOMAIN Board!Tabs : t3'.tab[t] # Board!Unread
            ELSE IF t3'.tab.all = Board!Unread THEN BadgeSum(t3') <= Cardinality(D) + t3'.changes
            ELSE BadgeSum(t3') + Cardinality(S \ D) <= t3'.tab.all + t3'.changes
      BY <1>2, <2>3, BoardCardinality DEF Board!CountsKept, BadgeSum, Reads, Board!Badge
    <3>. HIDE DEF S, D
    <3>. QED
      BY <3>1, <3>2, TabFacts DEF BadgesIn, BadgesOf, S
  <2>. QED
    BY <2>4
<1>. QED
  BY <1>1, <1>2 DEF Board!CountsKept

LEMMA OneMore ==
    ASSUME NEW B, IsFiniteSet(B), NEW m, NEW A \in SUBSET (B \cup {m})
    PROVE  /\ IsFiniteSet(A) /\ Cardinality(A) \in Nat /\ Cardinality(B) \in Nat
           /\ Cardinality(A) <= Cardinality(B) + 1
<1>1. IsFiniteSet(B \cup {m}) /\ Cardinality(B) \in Nat
      /\ Cardinality(B \cup {m}) = IF m \in B THEN Cardinality(B) ELSE Cardinality(B) + 1
  BY FS_AddElement, FS_CardinalityType
<1>2. IsFiniteSet(A) /\ Cardinality(A) <= Cardinality(B \cup {m}) /\ Cardinality(A) \in Nat
  BY <1>1, FS_Subset, FS_CardinalityType
<1>. QED
  BY <1>1, <1>2

Disjoint(T, A, B) == A \subseteq T /\ B \subseteq T /\ A \cap B = {}

LEMMA Apart ==
    ASSUME NEW T, IsFiniteSet(T), NEW A, NEW B, Disjoint(T, A, B)
    PROVE  /\ IsFiniteSet(A) /\ IsFiniteSet(B) /\ IsFiniteSet(A \cup B)
           /\ Cardinality(A) \in Nat /\ Cardinality(B) \in Nat /\ Cardinality(T) \in Nat
           /\ Cardinality(A \cup B) = Cardinality(A) + Cardinality(B)
           /\ Cardinality(A) + Cardinality(B) <= Cardinality(T)
<1>0. A \in SUBSET T /\ B \in SUBSET T /\ A \cap B = {} /\ A \cup B \in SUBSET T
  BY DEF Disjoint
<1>1. /\ IsFiniteSet(A) /\ IsFiniteSet(B) /\ Cardinality(A \cap B) = 0
  BY <1>0, FS_Subset, FS_EmptySet
<1>2. /\ Cardinality(A) \in Nat /\ Cardinality(B) \in Nat /\ Cardinality(T) \in Nat
      /\ Cardinality(A \cup B) <= Cardinality(T) /\ IsFiniteSet(A \cup B)
  BY <1>0, <1>1, FS_Subset, FS_CardinalityType
<1>3. Cardinality(A \cup B) = Cardinality(A) + Cardinality(B) - Cardinality(A \cap B)
  BY <1>1, FS_Union
<1>. QED
  BY <1>1, <1>2, <1>3

\* A row that arrives or moves takes one row from those that were counted, or adds one to
\* those that were not.
OneMoves(S, T, C, D) ==
    \/ S = T /\ C = D
    \/ /\ t3 # Board!NoReader => t3' = [t3 EXCEPT !.changes = @ + 1]
       /\ \E m : C \subseteq D \cup {m} /\ T \ D \subseteq (S \ C) \cup {m}

LEMMA SalesMove ==
    ASSUME RowsChange(Len(t2)), NEW u, NEW date, NEW r
    PROVE  OneMoves(SalesIn(t2, u, date), SalesIn(t2', u, date),
                    CountedIn(t2, SalesIn(t2, u, date), r), CountedIn(t2', SalesIn(t2', u, date), r))
<1>. DEFINE n == Len(t2)
            S == SalesIn(t2, u, date)
            T == SalesIn(t2', u, date)
            C == CountedIn(t2, S, r)
            D == CountedIn(t2', T, r)
<1>. SUFFICES OneMoves(S, T, C, D)
  OBVIOUS
<1>0. DOMAIN t2 = 1..n /\ n \in Nat
  BY DEF RowsChange
<1>. HIDE DEF n
<1>1. CASE t2' = t2
  BY <1>1 DEF OneMoves
<1>2. CASE DOMAIN t2' = 1..n + 1 /\ \A i \in 1..n : t2'[i] = t2[i]
  <2>1. S \subseteq T /\ T \subseteq S \cup {n + 1}
    BY <1>0, <1>2 DEF SalesIn
  <2>2. \A i \in S : i \in C <=> i \in D
    BY <1>0, <1>2, <2>1 DEF CountedIn, SalesIn
  <2>3. C \subseteq S
    BY DEF CountedIn
  <2>4. C \subseteq D \cup {n + 1} /\ T \ D \subseteq (S \ C) \cup {n + 1}
    BY <2>1, <2>2, <2>3
  <2>5. t2' # t2
    BY <1>0, <1>2
  <2>. QED
    BY <1>0, <1>2, <2>4, <2>5 DEF RowsChange, n, OneMoves
<1>3. ASSUME DOMAIN t2' = 1..n, t2' # t2,
             NEW m \in 1..n,
             \A i \in 1..n : /\ t2'[i].shape = t2[i].shape /\ t2'[i].at = t2[i].at
                             /\ i # m => t2'[i] = t2[i]
      PROVE  C \subseteq D \cup {m} /\ T \ D \subseteq (S \ C) \cup {m}
  <2>1. S = T
    BY <1>0, <1>3 DEF SalesIn
  <2>2. \A i \in S : i # m => (i \in C <=> i \in D)
    BY <1>0, <1>3, <2>1 DEF CountedIn, SalesIn
  <2>3. C \subseteq S
    BY DEF CountedIn
  <2>. QED
    BY <2>1, <2>2, <2>3
<1>4. \/ t2' = t2
      \/ DOMAIN t2' = 1..n + 1 /\ \A i \in 1..n : t2'[i] = t2[i]
      \/ /\ DOMAIN t2' = 1..n /\ (t3 # Board!NoReader => t3' = [t3 EXCEPT !.changes = @ + 1])
         /\ \E m \in 1..n : \A i \in 1..n :
                /\ t2'[i].shape = t2[i].shape /\ t2'[i].at = t2[i].at
                /\ i # m => t2'[i] = t2[i]
  BY DEF RowsChange, n
<1>5. CASE /\ t2' # t2 /\ DOMAIN t2' = 1..n /\ (t3 # Board!NoReader => t3' = [t3 EXCEPT !.changes = @ + 1])
           /\ \E m \in 1..n : \A i \in 1..n :
                /\ t2'[i].shape = t2[i].shape /\ t2'[i].at = t2[i].at
                /\ i # m => t2'[i] = t2[i]
  <2>1. PICK m \in 1..n : \A i \in 1..n :
                /\ t2'[i].shape = t2[i].shape /\ t2'[i].at = t2[i].at
                /\ i # m => t2'[i] = t2[i]
    BY <1>5
  <2>2. C \subseteq D \cup {m} /\ T \ D \subseteq (S \ C) \cup {m}
    BY <1>3, <1>5, <2>1
  <2>. QED
    BY <1>5, <2>2 DEF OneMoves
<1>. QED
  BY <1>1, <1>2, <1>4, <1>5

\* The badge of a tab is read.
BadgeGiven(rows, r, t, q) ==
    /\ t \in TabNames /\ r.tab[t] = Board!Unread
    /\ q.user = r.user /\ q.date = r.date /\ q.changes = r.changes
    /\ q.tab = [r.tab EXCEPT ![t] = Cardinality(IF t = "all" THEN SalesIn(rows, r.user, r.date)
                                       ELSE OnTab(rows, SalesIn(rows, r.user, r.date), t))]

LEMMA BadgeRead ==
    ASSUME ~serial, NEW rows, NEW r, NEW q, NEW t, r \in Board!Counting, q \in Board!Counting,
           IsFiniteSet(SalesIn(rows, r.user, r.date)), BadgesIn(rows, r), BadgeGiven(rows, r, t, q)
    PROVE  BadgesIn(rows, q)
<1>. DEFINE S == SalesIn(rows, r.user, r.date)
            C == CountedIn(rows, S, r)
            D == CountedIn(rows, S, q)
<1>0. /\ r.changes \in Nat /\ DOMAIN r.tab = TabNames /\ r.tab.all \in Nat \cup {Board!Unread}
      /\ Reads(r.tab.new) \in Nat /\ Reads(r.tab.packed) \in Nat /\ Reads(r.tab.inTransit) \in Nat
      /\ Reads(r.tab.delivered) \in Nat /\ Board!Unread = -1
  BY TabFacts DEF Board!Counting, TabNames, Reads, Board!Unread
<1>6. t \in TabNames /\ r.tab[t] = Board!Unread /\ q.user = r.user /\ q.date = r.date /\ q.changes = r.changes
  BY DEF BadgeGiven
<1>7. q.tab[t] \in Nat /\ \A o \in TabNames : o # t => q.tab[o] = r.tab[o]
  <2>1. IsFiniteSet(OnTab(rows, S, t))
    BY FS_Subset DEF OnTab
  <2>. HIDE DEF S
  <2>. QED
    BY <1>0, <2>1, FS_CardinalityType DEF S, BadgeGiven
<1>1. BadgesOf(S, C, r)
  BY DEF BadgesIn
<1>2. SUFFICES BadgesOf(S, D, q)
  BY <1>6 DEF BadgesIn
<1>3. C \in SUBSET S /\ D \in SUBSET S /\ OnTab(rows, S, t) \in SUBSET S /\ IsFiniteSet(S)
  BY DEF CountedIn, OnTab
<1>4. CASE t = "all"
  <2>1. q.tab.all = Cardinality(S) /\ BadgeSum(q) = BadgeSum(r)
    BY <1>0, <1>7, <1>4 DEF BadgeSum, TabNames, BadgeGiven
  <2>2. D = C
    BY <1>6, <1>7, <1>4 DEF CountedIn, WasRead
  <2>. HIDE DEF S, C, D
  <2>3. Cardinality(S) = Cardinality(C) + Cardinality(S \ C)
        /\ Cardinality(C) \in Nat /\ Cardinality(S \ C) \in Nat
    <3>. DEFINE R == S \ C
    <3>1. Disjoint(S, C, R) /\ IsFiniteSet(S) /\ C \cup R = S
      BY <1>3 DEF Disjoint
    <3>. HIDE DEF R
    <3>2. Cardinality(C \cup R) = Cardinality(C) + Cardinality(R)
      BY <3>1, Apart
    <3>3. Cardinality(C) \in Nat /\ Cardinality(R) \in Nat
      BY <3>1, Apart
    <3>. QED
      BY <3>1, <3>2, <3>3 DEF R
  <2>5. BadgeSum(r) <= Cardinality(C) + r.changes /\ BadgeSum(r) \in Nat
    BY <1>6, <1>0, <1>1, <1>4 DEF BadgesOf, BadgeSum
  <2>6. BadgeSum(q) + Cardinality(S \ D) <= q.tab.all + q.changes
    BY <1>6, <1>0, <2>1, <2>2, <2>3, <2>5
  <2>7. q.tab.all # Board!Unread
    BY <1>6, <1>0, <1>7, <1>4
  <2>. QED
    BY <2>6, <2>7 DEF BadgesOf
<1>5. CASE t # "all"
  <2>. DEFINE O == OnTab(rows, S, t)
  <2>1. q.tab[t] = Cardinality(O) /\ q.tab.all = r.tab.all
    BY <1>0, <1>6, <1>7, <1>5 DEF TabNames, BadgeGiven
  <2>2. BadgeSum(q) = BadgeSum(r) + Cardinality(O)
    <3>. HIDE DEF O
    <3>1. t \in {"new", "packed", "inTransit", "delivered"} /\ Reads(r.tab[t]) = 0
      BY <1>6, <1>5 DEF TabNames, Reads
    <3>2. Reads(q.tab[t]) = Cardinality(O) /\ Cardinality(O) \in Nat
      BY <1>0, <1>7, <2>1 DEF Reads
    <3>3. \A o \in TabNames : o # t => Reads(q.tab[o]) = Reads(r.tab[o])
      BY <1>6, <1>7
    <3>. QED
      BY <1>0, <3>1, <3>2, <3>3 DEF BadgeSum, TabNames
  <2>3. D = C \cup O
    <3>1. \A o \in TabNames : WasRead(q, o) <=> (WasRead(r, o) \/ o = t)
      BY <1>6, <1>0, <1>7, <1>5 DEF WasRead
    <3>2. \A i \in S : i \in D <=> \E o \in TabNames : (WasRead(r, o) \/ o = t) /\ rows[i].status \in Board!Tabs[o]
      BY <3>1 DEF CountedIn
    <3>3. \A i \in S : i \in C <=> \E o \in TabNames : WasRead(r, o) /\ rows[i].status \in Board!Tabs[o]
      BY DEF CountedIn
    <3>4. \A i \in S : i \in O <=> rows[i].status \in Board!Tabs[t]
      BY DEF OnTab
    <3>5. D \in SUBSET S /\ C \in SUBSET S /\ O \in SUBSET S
      BY <1>3
    <3>. HIDE DEF S, C, D, O
    <3>. QED
      BY <1>6, <3>2, <3>3, <3>4, <3>5
  <2>4. O \in SUBSET (S \ C)
    <3>1. ~WasRead(r, t)
      BY <1>6 DEF WasRead
    <3>. QED
      BY <1>6, <3>1, TabFacts DEF CountedIn, OnTab
  <2>. HIDE DEF S, C, D, O
  <2>. DEFINE R == S \ D
  <2>5. /\ Disjoint(S, C, O) /\ Disjoint(S, R, O) /\ IsFiniteSet(S)
        /\ R \cup O = S \ C
    BY <1>3, <2>3, <2>4 DEF Disjoint, O
  <2>. HIDE DEF R
  <2>6. Cardinality(D) = Cardinality(C) + Cardinality(O)
    <3>1. Cardinality(C \cup O) = Cardinality(C) + Cardinality(O)
      BY <2>5, Apart
    <3>. QED
      BY <2>3, <3>1
  <2>7. Cardinality(S \ C) = Cardinality(R) + Cardinality(O)
    <3>1. Cardinality(R \cup O) = Cardinality(R) + Cardinality(O)
      BY <2>5, Apart
    <3>. QED
      BY <2>5, <3>1
  <2>8. Cardinality(C) \in Nat /\ Cardinality(O) \in Nat /\ Cardinality(R) \in Nat
    BY <2>5, Apart
  <2>9. BadgeSum(r) \in Nat
    BY <1>0 DEF BadgeSum
  <2>. QED
    BY <1>6, <1>0, <1>1, <2>1, <2>2, <2>6, <2>7, <2>8, <2>9 DEF BadgesOf, R
<1>. QED
  BY <1>4, <1>5

BadgeCount(rows, S, t) == Cardinality(IF t = "all" THEN S ELSE OnTab(rows, S, t))

\* The badges are asked for: all at once, or none yet.
LEMMA BadgesOpen ==
    ASSUME NEW rows, NEW r, r \in Board!Counting, IsFiniteSet(SalesIn(rows, r.user, r.date)),
           r.changes = 0,
           r.tab = [t \in TabNames |-> IF serial THEN BadgeCount(rows, SalesIn(rows, r.user, r.date), t)
                                       ELSE Board!Unread]
    PROVE  BadgesIn(rows, r)
<1>. DEFINE S == SalesIn(rows, r.user, r.date)
            Tabbed(t) == OnTab(rows, S, t)
<1>1. CASE ~serial
  <2>1. \A t \in TabNames : r.tab[t] = Board!Unread
    BY <1>1
  <2>2. BadgeSum(r) = 0 /\ r.tab.all = Board!Unread
    BY <2>1 DEF BadgeSum, Reads, TabNames
  <2>3. CountedIn(rows, S, r) = {}
    BY <2>1 DEF CountedIn, WasRead
  <2>4. Cardinality({}) = 0
    BY FS_EmptySet
  <2>. QED
    BY <1>1, <2>2, <2>3, <2>4 DEF BadgesIn, BadgesOf
<1>2. CASE serial
  <2>1. /\ r.tab.all = Cardinality(S)
        /\ \A t \in TabNames \ {"all"} : r.tab[t] = Cardinality(Tabbed(t))
    BY <1>2 DEF BadgeCount, TabNames
  <2>. DEFINE A == Tabbed("new")  B == Tabbed("packed")  C == Tabbed("inTransit")  D == Tabbed("delivered")
              AB == A \cup B  ABC == AB \cup C
  <2>2. Disjoint(S, A, B) /\ Disjoint(S, AB, C) /\ Disjoint(S, ABC, D) /\ IsFiniteSet(S)
    BY TabFacts DEF OnTab, TabNames, Disjoint
  <2>3. /\ r.tab.new = Cardinality(A) /\ r.tab.packed = Cardinality(B)
        /\ r.tab.inTransit = Cardinality(C) /\ r.tab.delivered = Cardinality(D)
    BY <2>1 DEF TabNames
  <2>4. \A t \in TabNames : r.tab[t] \in Nat
    <3>1. \A t : Tabbed(t) \in SUBSET S
      BY DEF OnTab
    <3>. HIDE DEF S, Tabbed
    <3>. QED
      BY <2>1, <2>2, <3>1, FS_Subset, FS_CardinalityType
  <2>. HIDE DEF S, A, B, C, D
  <2>5. Cardinality(AB) = Cardinality(A) + Cardinality(B)
    BY <2>2, Apart
  <2>. HIDE DEF AB
  <2>6. Cardinality(ABC) = Cardinality(AB) + Cardinality(C)
    BY <2>2, Apart
  <2>. HIDE DEF ABC
  <2>7. Cardinality(ABC) + Cardinality(D) <= Cardinality(S)
    BY <2>2, Apart
  <2>8. \A t \in TabNames : r.tab[t] # Board!Unread
    BY <2>4 DEF Board!Unread
  <2>9. BadgeSum(r) <= r.tab.all
    <3>1. /\ r.tab.new \in Nat /\ r.tab.packed \in Nat /\ r.tab.inTransit \in Nat /\ r.tab.delivered \in Nat
          /\ r.tab.all \in Nat
      BY <2>4 DEF TabNames
    <3>2. BadgeSum(r) = r.tab.new + r.tab.packed + r.tab.inTransit + r.tab.delivered
      BY <2>8 DEF BadgeSum, Reads, TabNames
    <3>. QED
      BY <2>1, <2>3, <2>5, <2>6, <2>7, <3>1, <3>2
  <2>. QED
    BY <1>2, <2>8, <2>9 DEF BadgesIn, BadgesOf
<1>. QED
  BY <1>1, <1>2

LEMMA CountsFor ==
    ASSUME t3.view = "counts", t3.user \in Shops, Board!CountsKept
    PROVE  BadgesIn(t2, t3)
<1>1. Board!FindSellerOrders(t3.user, [statuses |-> {}, date |-> t3.date]) = SalesIn(t2, t3.user, t3.date)
  BY SalesAre DEF SalesIn
<1>. DEFINE S == SalesIn(t2, t3.user, t3.date)
            D == {i \in S : \E t \in {o \in DOMAIN Board!Tabs \ {"all"} : t3.tab[o] # Board!Unread} :
                                t2[i].status \in Board!Tabs[t]}
<1>2. D = CountedIn(t2, S, t3)
  BY TabFacts DEF CountedIn, WasRead
<1>3. IF serial THEN BadgeSum(t3) <= t3.tab.all /\ \A t \in DOMAIN Board!Tabs : t3.tab[t] # Board!Unread
      ELSE IF t3.tab.all = Board!Unread THEN BadgeSum(t3) <= Cardinality(D) + t3.changes
      ELSE BadgeSum(t3) + Cardinality(S \ D) <= t3.tab.all + t3.changes
  BY <1>1, BoardCardinality DEF Board!CountsKept, BadgeSum, Reads, Board!Badge
<1>. HIDE DEF S, D
<1>. QED
  BY <1>2, <1>3, TabFacts DEF BadgesIn, BadgesOf, S

LEMMA CountsStay ==
    ASSUME Board!TypeOK, Board!CountsKept, [Board!Next]_Board!vars
    PROVE  Board!CountsKept'
<1>1. /\ t3 \in Board!Scrolling \cup Board!Counting \cup {Board!NoReader}
      /\ t3' \in Board!Scrolling \cup Board!Counting \cup {Board!NoReader}
      /\ t3.view = "counts" => t3 \in Board!Counting /\ t3.user \in Shops
      /\ t3'.view = "counts" => t3' \in Board!Counting /\ t3'.user \in Shops
  <2>1. /\ t3 \in Board!Scrolling \cup Board!Counting \cup {Board!NoReader}
        /\ t3' \in Board!Scrolling \cup Board!Counting \cup {Board!NoReader}
    BY BoardReader DEF Board!TypeOK
  <2>. QED
    BY <2>1 DEF Board!Scrolling, Board!Counting, Board!NoReader, Board!Lists
<1>2. /\ RowsChange(Len(t2)) /\ serial' = serial
      /\ t3.view = "counts" => BadgesIn(t2, t3)
  BY <1>1, BoardRows, CountsAre
<1>3. SUFFICES ASSUME t3'.view = "counts"
               PROVE  BadgesIn(t2', t3')
  BY <1>1, <1>2, CountsAre
<1>4. \A u \in Shops : \A date :
         /\ IsFiniteSet(SalesIn(t2, u, date)) /\ SalesIn(t2, u, date) \subseteq DOMAIN t2
         /\ \A t \in TabNames : Board!CountTab(t, u, date) = BadgeCount(t2, SalesIn(t2, u, date), t)
  <2>1. ASSUME NEW u \in Shops, NEW date
        PROVE  IsFiniteSet(SalesIn(t2, u, date)) /\ SalesIn(t2, u, date) \subseteq DOMAIN t2
    BY BoardSets DEF SalesIn
  <2>2. ASSUME NEW u \in Shops, NEW date, NEW t \in TabNames
        PROVE  Board!CountTab(t, u, date) = BadgeCount(t2, SalesIn(t2, u, date), t)
    <3>1. CASE t = "all"
      <4>1. Board!FindSellerOrders(u, [statuses |-> Board!Tabs[t], date |-> date]) = SalesIn(t2, u, date)
        BY <3>1, TabFacts, SalesAre DEF SalesIn
      <4>. QED
        BY <3>1, <4>1, BoardCardinality DEF Board!CountTab, BadgeCount
    <3>2. CASE t # "all"
      <4>1. Board!FindSellerOrders(u, [statuses |-> Board!Tabs[t], date |-> date]) =
               OnTab(t2, SalesIn(t2, u, date), t)
        BY <3>2, TabFacts, SalesAre DEF SalesIn, OnTab
      <4>. QED
        BY <3>2, <4>1, BoardCardinality DEF Board!CountTab, BadgeCount
    <3>. QED
      BY <3>1, <3>2
  <2>. QED
    BY <2>1, <2>2
<1>5. ASSUME NEW a \in ListsAsked, Board!GetSellerOrderCounts(a)
      PROVE  BadgesIn(t2', t3')
  <2>. DEFINE date == Board!Resolved(a.want).date
  <2>1. /\ a.user \in Shops /\ t2' = t2 /\ t3'.user = a.user /\ t3'.date = date /\ t3'.changes = 0
        /\ t3'.tab = [t \in TabNames |-> IF serial THEN Board!CountTab(t, a.user, date) ELSE Board!Unread]
    BY <1>5, TabFacts DEF Board!GetSellerOrderCounts
  <2>. HIDE DEF date
  <2>2. t3'.tab = [t \in TabNames |->
           IF serial THEN BadgeCount(t2, SalesIn(t2, a.user, date), t) ELSE Board!Unread]
    BY <1>4, <2>1
  <2>3. PICK r : r = t3'
    OBVIOUS
  <2>. QED
    BY <1>1, <1>3, <1>4, <2>1, <2>2, <2>3, BadgesOpen
<1>6. ASSUME ~(\E a \in ListsAsked : Board!GetSellerOrderCounts(a))
      PROVE  BadgesIn(t2', t3')
  <2>1. /\ t3.view = "counts"
        /\ \/ t3' = t3 \/ t3' = [t3 EXCEPT !.changes = @ + 1]
           \/ \E t \in TabNames : Board!QueryTab(t)
    <3>1. ~(\E a \in ListsAsked : Board!Open(a))
      BY <1>3, <1>1 DEF Board!Open, Board!Lists, Board!Counting
    <3>2. ~Board!Leave
      BY <1>3 DEF Board!Leave, Board!NoReader
    <3>3. ASSUME Board!QueryRows \/ Board!QueryCount \/ Board!QueryBoth \/ Board!NextPage
          PROVE  FALSE
      <4>1. t3.view \in Board!Lists
        BY <3>3 DEF Board!QueryRows, Board!QueryCount, Board!QueryBoth, Board!NextPage, Board!Reading
      <4>2. t3 \in Board!Scrolling
        BY <1>1, <4>1 DEF Board!Scrolling, Board!Counting, Board!NoReader, Board!Lists
      <4>3. t3'.view = t3.view
        BY <3>3, <4>2 DEF Board!QueryRows, Board!QueryCount, Board!QueryBoth, Board!NextPage, Board!Scrolling
      <4>. QED
        BY <1>3, <4>1, <4>3 DEF Board!Lists
    <3>4. \/ t3' = t3 \/ (t3 # Board!NoReader /\ t3' = [t3 EXCEPT !.changes = @ + 1])
          \/ \E t \in TabNames : Board!QueryTab(t)
      BY <1>6, <3>1, <3>2, <3>3, TabFacts DEF Board!Next, Board!vars, Board!Tick, Board!Arrive, Board!Move
    <3>5. CASE t3' = t3
      BY <1>3, <3>5
    <3>6. CASE t3 # Board!NoReader /\ t3' = [t3 EXCEPT !.changes = @ + 1]
      BY <1>1, <1>3, <3>6 DEF Board!Scrolling, Board!Counting
    <3>7. CASE \E t \in TabNames : Board!QueryTab(t)
      BY <3>7 DEF Board!QueryTab
    <3>. QED
      BY <3>4, <3>5, <3>6, <3>7
  <2>2. t3 \in Board!Counting /\ BadgesIn(t2, t3) /\ t3.user \in Shops /\ t3.changes \in Nat
    BY <1>1, <1>2, <2>1 DEF Board!Counting
  <2>3. CASE t3' = t3 \/ t3' = [t3 EXCEPT !.changes = @ + 1]
    <3>. DEFINE S == SalesIn(t2, t3.user, t3.date)
                T == SalesIn(t2', t3.user, t3.date)
                C == CountedIn(t2, S, t3)
                D == CountedIn(t2', T, t3)
    <3>1. \/ S = T /\ C = D
          \/ /\ t3' = [t3 EXCEPT !.changes = @ + 1]
             /\ \E m : C \subseteq D \cup {m} /\ T \ D \subseteq (S \ C) \cup {m}
      <4>1. t3 # Board!NoReader
        BY <2>2 DEF Board!NoReader, Board!Counting
      <4>2. OneMoves(S, T, C, D)
        BY <1>2, SalesMove
      <4>. HIDE DEF S, T, C, D
      <4>. QED
        BY <4>1, <4>2 DEF OneMoves
    <3>2. /\ t3'.user = t3.user /\ t3'.date = t3.date /\ t3'.tab = t3.tab
          /\ t3'.changes \in {t3.changes, t3.changes + 1}
          /\ t3' = [t3 EXCEPT !.changes = @ + 1] => t3'.changes = t3.changes + 1
      BY <2>2, <2>3 DEF Board!Counting
    <3>3. CountedIn(t2', T, t3') = D /\ BadgeSum(t3') = BadgeSum(t3)
      BY <3>2 DEF CountedIn, WasRead, BadgeSum
    <3>4. /\ IsFiniteSet(T) /\ IsFiniteSet(S) /\ D \in SUBSET T /\ C \in SUBSET S
      <4>1. IsFiniteSet(T)
        <5>1. /\ IsFiniteSet(1..Len(t2) + 1) /\ IsFiniteSet(1..Len(t2)) /\ Len(t2) \in Nat
          BY <1>2, IntervalTo DEF RowsChange
        <5>2. T \in SUBSET (1..Len(t2) + 1)
          BY <1>2 DEF RowsChange, SalesIn
        <5>. HIDE DEF T
        <5>. QED
          BY <5>1, <5>2, FS_Subset
      <4>. QED
        BY <1>4, <2>2, <4>1 DEF CountedIn
    <3>5. BadgesOf(S, C, t3)
      BY <2>2 DEF BadgesIn
    <3>6. SUFFICES BadgesOf(T, D, t3')
      BY <3>2, <3>3 DEF BadgesIn
    <3>7. BadgeSum(t3) \in Nat /\ t3.tab.all \in Int
      BY <2>2, TabFacts DEF BadgeSum, Reads, Board!Counting, TabNames, Board!Unread
    <3>. HIDE DEF S, T, C, D
    <3>8. CASE S = T /\ C = D
      <4>1. Cardinality(D) \in Nat /\ Cardinality(T \ D) \in Nat
        BY <3>4, FS_Subset, FS_CardinalityType
      <4>. QED
        BY <2>2, <3>2, <3>3, <3>5, <3>7, <3>8, <4>1 DEF BadgesOf
    <3>9. CASE /\ t3' = [t3 EXCEPT !.changes = @ + 1]
               /\ \E m : C \subseteq D \cup {m} /\ T \ D \subseteq (S \ C) \cup {m}
      <4>1. PICK m : C \subseteq D \cup {m} /\ T \ D \subseteq (S \ C) \cup {m}
        BY <3>9
      <4>2. IsFiniteSet(D) /\ IsFiniteSet(S \ C)
        BY <3>4, FS_Subset
      <4>3. /\ Cardinality(C) <= Cardinality(D) + 1 /\ Cardinality(C) \in Nat /\ Cardinality(D) \in Nat
        BY <4>1, <4>2, OneMore
      <4>4. /\ Cardinality(T \ D) <= Cardinality(S \ C) + 1 /\ Cardinality(T \ D) \in Nat
            /\ Cardinality(S \ C) \in Nat
        BY <4>1, <4>2, OneMore
      <4>. QED
        BY <2>2, <3>2, <3>3, <3>5, <3>7, <3>9, <4>3, <4>4 DEF BadgesOf
    <3>. QED
      BY <3>1, <3>8, <3>9
  <2>4. ASSUME NEW t \in TabNames, Board!QueryTab(t)
        PROVE  BadgesIn(t2', t3')
    <3>1. CASE serial
      <4>1. t3.tab[t] # Board!Unread
        BY <2>2, <3>1 DEF BadgesIn, BadgesOf
      <4>. QED
        BY <2>4, <4>1 DEF Board!QueryTab
    <3>2. CASE ~serial
      <4>1. /\ t2' = t2 /\ t3.tab[t] = Board!Unread
            /\ t3' = [t3 EXCEPT !.tab[t] = BadgeCount(t2, SalesIn(t2, t3.user, t3.date), t)]
        BY <1>4, <2>2, <2>4 DEF Board!QueryTab
      <4>2. BadgeGiven(t2, t3, t, t3')
        BY <2>2, <4>1 DEF BadgeGiven, BadgeCount, Board!Counting
      <4>3. PICK r, q : r = t3 /\ q = t3'
        OBVIOUS
      <4>. QED
        BY <1>1, <1>3, <1>4, <2>2, <3>2, <4>1, <4>2, <4>3, BadgeRead
    <3>. QED
      BY <3>1, <3>2
  <2>. QED
    BY <2>1, <2>3, <2>4
<1>. QED
  BY <1>5, <1>6

LEMMA BoardsInit == Board!Init => Board!BoardsInv
<1>1. ASSUME Board!Init
      PROVE  Board!BoardsInv
  <2>1. t1 = 0 /\ t2 = <<>> /\ t3 = Board!NoReader /\ t4 = 0 /\ serial \in BOOLEAN
    BY <1>1 DEF Board!Init
  <2>2. t2 \in Seq([shape : RowShapes, at : 0 .. LastHalfDay, status : RowStatuses]) /\ Len(t2) = 0
    BY <2>1
  <2>3. t3.view # "counts" /\ t3.view \notin Board!Lists
    BY <2>1 DEF Board!NoReader, Board!Lists
  <2>. QED
    BY <2>1, <2>2, <2>3, BoardFacts DEF Board!BoardsInv, Board!TypeOK, Board!ScrollKept, Board!CountsKept
<1>. QED
  BY <1>1

LEMMA BoardsKept ==
    ASSUME Board!BoardsInv, [Board!Next]_Board!vars
    PROVE  Board!BoardsInv'
<1>1. Board!TypeOK'
  <2>1. serial' \in BOOLEAN
    BY BoardRows DEF Board!BoardsInv, Board!TypeOK
  <2>. QED
    BY <2>1, BoardRows, BoardReader DEF Board!BoardsInv, Board!TypeOK
<1>. QED
  BY <1>1, ScrollStays, CountsStay DEF Board!BoardsInv

\* At the end of a list no more is left than has arrived.
LEMMA EndShown == Board!BoardsInv => Board!NoneSkipped
<1>. SUFFICES ASSUME Board!BoardsInv, Board!AtEnd, t3.asked.statuses = {}, t3.asked.date # Board!Today
              PROVE  Board!Cardinality(t3.upTo \ t3.seen) <= IF serial THEN 0 ELSE t3.changes
  BY DEF Board!NoneSkipped
<1>. DEFINE F == Board!Selected(t3.view, t3.user, t3.want)
            V == t3.upTo \ t3.seen
            m == t3.page * ListLimit
<1>1. /\ Board!TypeOK /\ Plain(t3) /\ t3 \in Board!Scrolling /\ t3.todo = {}
      /\ ~Board!HasNext(t3.page, t3.total)
  <2>1. t3.view \in Board!Lists /\ t3.todo = {} /\ ~Board!HasNext(t3.page, t3.total) /\ Board!TypeOK
    BY DEF Board!AtEnd, Board!BoardsInv
  <2>2. t3 \in Board!Scrolling
    BY <2>1 DEF Board!TypeOK, Board!Scrolling, Board!Counting, Board!NoReader, Board!Lists
  <2>. QED
    BY <2>1, <2>2 DEF Plain
<1>2. Shown(F, t3)
  BY <1>1, ScrollIs DEF Board!BoardsInv
<1>3. /\ t3.page \in Nat /\ t3.total \in Nat /\ t3.changes \in Nat /\ ListLimit \in Nat \ {0}
      /\ m \in Nat
  BY <1>1, BoardFacts DEF Board!Scrolling
<1>4. t3.total <= m
  <2>1. ~(t3.page < (t3.total + ListLimit - 1) \div ListLimit)
    BY <1>1 DEF Board!HasNext
  <2>2. \A x, p \in Nat, k \in Nat \ {0} : ~(p < (x + k - 1) \div k) => x <= p * k
    <3>1. ASSUME NEW x \in Nat, NEW p \in Nat, NEW k \in Nat \ {0}, ~(p < (x + k - 1) \div k)
          PROVE  x <= p * k
      <4>1. PICK d \in Int : d = (x + k - 1) \div k /\ x + k - 1 < k * d + k
        <5>1. PICK n \in Nat : n = x + k - 1
          OBVIOUS
        <5>2. k \in Nat /\ k > 0
          OBVIOUS
        <5>3. k * (n \div k) + (n % k) = n /\ n % k < k /\ n \div k \in Nat /\ n % k \in Nat
          BY <5>2, DivMod
        <5>4. n < k * (n \div k) + k
          <6>1. PICK e \in Nat, f \in Nat, g \in Int : e = n \div k /\ f = n % k /\ g = k * e
            BY <5>2, <5>3
          <6>2. g + f = n /\ f < k
            BY <5>3, <6>1
          <6>. QED
            BY <5>2, <6>1, <6>2
        <5>. QED
          BY <5>1, <5>3, <5>4
      <4>2. d <= p
        BY <3>1, <4>1
      <4>3. k * d <= k * p
        <5>1. p - d \in Nat
          BY <4>2
        <5>2. k * (p - d) >= 0
          BY <5>1
        <5>. QED
          BY <5>2
      <4>. QED
        BY <4>1, <4>3
    <3>. QED
      BY <3>1
  <2>. QED
    BY <1>3, <2>1, <2>2
<1>5. /\ V \subseteq F /\ \A i \in V : After(F, i) >= m
      /\ Cardinality(F) <= t3.total + t3.changes
      /\ serial => V = {}
  BY <1>1, <1>2, <1>4 DEF Shown
<1>6. /\ F \subseteq DOMAIN t2 /\ F \in SUBSET Nat /\ IsFiniteSet(F) /\ Cardinality(F) \in Nat
      /\ Board!Cardinality(V) = Cardinality(V)
  <2>1. F \subseteq DOMAIN t2
    BY <1>1, BoardSets DEF Plain
  <2>. HIDE DEF F
  <2>. QED
    BY <1>1, <2>1, BoardSets, BoardCardinality
<1>7. Cardinality({}) = 0
  BY FS_EmptySet
<1>8. CASE V = {}
  <2>. HIDE DEF V, F, m
  <2>1. Board!Cardinality(V) = 0
    BY <1>6, <1>7, <1>8
  <2>. QED
    BY <1>3, <2>1 DEF V
<1>9. CASE V # {}
  <2>. HIDE DEF F, V, m
  <2>1. Cardinality(V) + m <= Cardinality(F)
    BY <1>3, <1>5, <1>6, <1>9, AllButNewest
  <2>2. Cardinality(V) \in Nat
    BY <1>5, <1>6, FS_Subset, FS_CardinalityType
  <2>3. Cardinality(V) <= t3.changes
    BY <1>3, <1>4, <1>5, <1>6, <2>1, <2>2
  <2>. QED
    BY <1>5, <1>6, <1>9, <2>3 DEF V
<1>. QED
  BY <1>8, <1>9

LEMMA BadgesAddUp == Board!BoardsInv => Board!TabsAddUp
<1>. SUFFICES ASSUME Board!BoardsInv, t3.view = "counts", \A t \in TabNames : t3.tab[t] # Board!Unread
              PROVE  t3.tab.new + t3.tab.packed + t3.tab.inTransit + t3.tab.delivered
                         <= t3.tab.all + IF serial THEN 0 ELSE t3.changes
  BY TabFacts DEF Board!TabsAddUp
<1>1. t3 \in Board!Counting /\ Board!TypeOK
  BY DEF Board!BoardsInv, Board!TypeOK, Board!Scrolling, Board!Counting, Board!NoReader, Board!Lists
<1>. DEFINE S == SalesIn(t2, t3.user, t3.date)
            C == CountedIn(t2, S, t3)
<1>2. BadgesOf(S, C, t3)
  <2>1. t3.user \in Shops
    BY <1>1 DEF Board!Counting
  <2>2. PICK u, date : u = t3.user /\ date = t3.date /\ u \in Shops
    BY <2>1
  <2>. QED
    BY CountsFor, <2>1 DEF Board!BoardsInv, BadgesIn
<1>3. /\ \A t \in TabNames : t3.tab[t] \in Nat
      /\ t3.changes \in Nat
  BY <1>1, TabFacts DEF Board!Counting
<1>4. Cardinality(S \ C) \in Nat
  <2>1. S \ C \subseteq DOMAIN t2
    BY DEF SalesIn
  <2>. HIDE DEF S, C
  <2>. QED
    BY <1>1, <2>1, BoardSets
<1>. HIDE DEF S, C
<1>. QED
  BY <1>2, <1>3, <1>4 DEF BadgesOf, BadgeSum, Reads, TabNames

LEMMA RowsOpen == Board!ListedOpens
BY DEF Board!ListedOpens, Board!FindMyOrders, Board!GetRecentBuyerOrders, Board!Page, Board!Filtered,
   Board!GetBuyerOrderDetail, Board!GetOrderHelp, Board!FindOne, Board!FindSellerOrders,
   Board!GetSellerOrderDetail, Board!ListForSeller, Board!GetSellerDetail, Board!GetForOrder,
   Board!GetBuyerDetail, Board!ReplacementsOf, Board!AllReplacements

LEMMA FiguresAgree == Board!TypeOK => Board!RevenueAgrees
<1>1. ASSUME Board!TypeOK, NEW u \in Shops
      PROVE  /\ Board!Last7Days(u)[7] = Board!Revenue(u, Board!ServerDay(t1))
             /\ Board!Last7Days(u)[6] = Board!Revenue(u, Board!ServerDay(t1) - 1)
  <2>1. t1 \in Nat
    BY <1>1, BoardFacts DEF Board!TypeOK
  <2>2. Board!ServerDay(t1) \in Int
    BY <2>1 DEF Board!ServerDay
  <2>3. Board!ServerDay(t1) - 7 + 7 = Board!ServerDay(t1) /\ Board!ServerDay(t1) - 7 + 6 = Board!ServerDay(t1) - 1
    BY <2>2
  <2>. QED
    BY <2>3 DEF Board!Last7Days
<1>. QED
  BY <1>1 DEF Board!RevenueAgrees, Board!GetMyDashboardStats, Board!GetRevenueToday

BoardPartInv == part = "boards" => Board!BoardsInv

\* Whoever scrolls a list to its end has seen every row it had when it was opened but for as
\* many as have arrived while the queries of a page ran apart; the badges of the tabs never
\* exceed the badge of all orders by more than changed between the counts; every listed
\* row opens; the chart ends with today's figure (orders.service.ts:1083-1159 and 1279-1420,
\* sellers.service.ts:522-614).
THEOREM BoardsAreComplete == PartSpec => []BoardsComplete
<1>1. PartInit => BoardPartInv
  BY BoardsStart, BoardsInit DEF BoardPartInv
<1>2. BoardPartInv /\ [PartNext]_<<vars, store>> => BoardPartInv'
  <2>1. ASSUME BoardPartInv, [PartNext]_<<vars, store>>
        PROVE  BoardPartInv'
    <3>1. part' = part
      BY <2>1 DEF PartNext, store
    <3>2. CASE part = "boards"
      BY <2>1, <3>1, <3>2, BoardsStep, BoardsKept DEF BoardPartInv
    <3>3. CASE part # "boards"
      BY <3>1, <3>3 DEF BoardPartInv
    <3>. QED
      BY <3>2, <3>3
  <2>. QED
    BY <2>1
<1>3. BoardPartInv => BoardsComplete
  BY EndShown, BadgesAddUp, RowsOpen, FiguresAgree
  DEF BoardPartInv, BoardsComplete, Board!BoardsInv
<1>. QED
  BY <1>1, <1>2, <1>3, PTL DEF PartSpec
=============================================================================
