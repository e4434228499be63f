-------------------------- MODULE TrafficSpikeProofs --------------------------
(***************************************************************************)
(* Proofs about TrafficSpike and RollingRate, for any keys, interval, weight *)
(* and threshold: what an update does to a baseline, where each packet is    *)
(* counted, and which intervals are reported.                                *)
(***************************************************************************)
EXTENDS TrafficSpike, SequenceTheorems, TLAPS

Rate == [fed : Nat, mean : Int, var : Nat]

-----------------------------------------------------------------------------
(* Arithmetic *)

\* A quotient lies where the products around it say.
LEMMA Quotient ==
  ASSUME NEW a \in Int, NEW b \in Nat \ {0}
  PROVE  /\ a \div b \in Int
         /\ b * (a \div b) <= a
         /\ a < b * (a \div b) + b
  OBVIOUS

\* A factor can be taken to the other side of an inequality.
LEMMA Monotone ==
  ASSUME NEW x \in Int, NEW y \in Int, x <= y, NEW c \in Nat
  PROVE  c * x <= c * y
  OBVIOUS

LEMMA Cancel ==
  ASSUME NEW x \in Int, NEW y \in Int, NEW c \in Nat \ {0}, c * x < c * y
  PROVE  x < y
  OBVIOUS

LEMMA SquareGrows ==
  ASSUME NEW x \in Nat, NEW y \in Nat, x <= y
  PROVE  Square(x) \in Nat /\ Square(x) <= Square(y)
<1>1. x * x <= x * y
  BY Monotone
<1>2. y * x <= y * y
  BY Monotone
<1> QED
  BY <1>1, <1>2 DEF Square

\* The weighted mean of two numbers, rounded down, is none beyond them.
LEMMA MeanBetween ==
  ASSUME NEW p \in Int, NEW v \in Int, NEW lo \in Int, NEW hi \in Int,
         p \in lo .. hi, v \in lo .. hi
  PROVE  p + (AlphaNum * (v - p)) \div AlphaDen \in lo .. hi
<1> USE RateAssumption
<1> DEFINE d == v - p
           q == (AlphaNum * d) \div AlphaDen
<1>1. d \in Int /\ AlphaNum * d \in Int
  OBVIOUS
<1>2. q \in Int /\ AlphaDen * q <= AlphaNum * d /\ AlphaNum * d < AlphaDen * q + AlphaDen
  BY <1>1, Quotient
<1>3. CASE d >= 0
  <2>1. 0 <= AlphaNum * d /\ AlphaNum * d <= AlphaDen * d
    BY <1>3
  <2>2. q > -1
    <3>1. AlphaDen * (-1) < AlphaDen * q
      BY <1>2, <2>1
    <3> QED
      BY <3>1, <1>2, Cancel
  <2>3. q < d + 1
    <3>1. AlphaDen * q < AlphaDen * (d + 1)
      BY <1>1, <1>2, <2>1
    <3> QED
      BY <3>1, <1>1, <1>2, Cancel
  <2> HIDE DEF q
  <2> QED
    BY <1>2, <2>2, <2>3
<1>4. CASE d < 0
  <2>1. AlphaNum * d <= 0 /\ AlphaDen * d <= AlphaNum * d
    BY <1>4
  <2>2. q < 1
    <3>1. AlphaDen * q < AlphaDen * 1
      BY <1>2, <2>1
    <3> QED
      BY <3>1, <1>2, Cancel
  <2>3. d < q + 1
    <3>1. AlphaDen * d < AlphaDen * (q + 1)
      BY <1>1, <1>2, <2>1
    <3> QED
      BY <3>1, <1>1, <1>2, Cancel
  <2> HIDE DEF q
  <2> QED
    BY <1>2, <2>2, <2>3
<1> QED
  BY <1>1, <1>3, <1>4

\* A variance no larger than m, and a squared distance no larger than m, give a
\* variance no larger than m.
LEMMA VarianceBelow ==
  ASSUME NEW w \in Nat, NEW e \in Nat, NEW m \in Nat, w <= m, e <= m
  PROVE  LET x == ((AlphaDen - AlphaNum) * (AlphaDen * w + AlphaNum * e)) \div Square(AlphaDen)
         IN x \in Nat /\ x <= m
<1> USE RateAssumption
<1> DEFINE c == AlphaDen - AlphaNum
           s == AlphaDen * w + AlphaNum * e
           b == AlphaDen * AlphaDen
           x == (c * s) \div b
<1>1. c \in Nat /\ c <= AlphaDen
  OBVIOUS
<1>2. s \in Nat /\ s <= (AlphaDen + AlphaNum) * m
  <2>1. AlphaDen * w \in Nat /\ AlphaDen * w <= AlphaDen * m
    BY Monotone
  <2>2. AlphaNum * e \in Nat /\ AlphaNum * e <= AlphaNum * m
    BY Monotone
  <2> QED
    BY <2>1, <2>2
<1>3. b \in Nat \ {0}
  OBVIOUS
<1>4. c * s \in Nat /\ c * s <= b * m
  <2>1. c * s \in Nat /\ c * s <= c * ((AlphaDen + AlphaNum) * m)
    BY <1>1, <1>2, Monotone
  <2>2. c * ((AlphaDen + AlphaNum) * m) = (b - AlphaNum * AlphaNum) * m
    OBVIOUS
  <2>3. (b - AlphaNum * AlphaNum) * m <= b * m
    OBVIOUS
  <2> HIDE DEF c, s, b
  <2> QED
    BY <2>1, <2>2, <2>3, <1>3
<1> HIDE DEF c, s, b
<1>5. x \in Int /\ b * x <= c * s /\ c * s < b * x + b
  <2>1. c * s \in Int
    BY <1>1, <1>2
  <2> QED
    BY <2>1, <1>3, Quotient
<1> HIDE DEF x
<1>6. -1 < x
  <2>1. b * (-1) < b * x
    BY <1>3, <1>4, <1>5
  <2> QED
    BY <2>1, <1>3, <1>5, Cancel
<1>7. x < m + 1
  <2>1. b * x < b * (m + 1)
    BY <1>3, <1>4, <1>5
  <2> QED
    BY <2>1, <1>3, <1>5, Cancel
<1> QED
  BY <1>5, <1>6, <1>7 DEF x, c, s, b, Square

-----------------------------------------------------------------------------
(* The baseline of a key and the values fed to it *)

\* The baseline is within the values fed, and its deviation within their distance.
Within(rate, values) ==
  \E low, high \in Range(values) :
    /\ rate.mean \in low * Scale .. high * Scale
    /\ rate.var <= Square((high - low) * Scale)

\* The baseline has been fed these values and no others.
Follows(rate, values) ==
  /\ rate.fed = Len(values)
  /\ values = <<>> => rate.var = 0
  /\ values # <<>> => Within(rate, values)

\* What a value appended to a sequence adds to its elements.
LEMMA RangeOfAppend ==
  ASSUME NEW values \in Seq(Nat), NEW v \in Nat
  PROVE  /\ Append(values, v) \in Seq(Nat)
         /\ Append(values, v) # <<>>
         /\ Len(Append(values, v)) = Len(values) + 1
         /\ Range(Append(values, v)) = Range(values) \cup {v}
<1>1. /\ Append(values, v) \in Seq(Nat)
      /\ Len(Append(values, v)) = Len(values) + 1
      /\ \A i \in 1 .. Len(values) : Append(values, v)[i] = values[i]
      /\ Append(values, v)[Len(values) + 1] = v
  BY AppendProperties
<1>2. /\ DOMAIN Append(values, v) = 1 .. Len(values) + 1
      /\ DOMAIN values = 1 .. Len(values) /\ Len(values) \in Nat
  BY <1>1, LenProperties
<1>3. Range(Append(values, v)) = Range(values) \cup {v}
  BY <1>1, <1>2 DEF Range
<1>4. Append(values, v) # <<>>
  BY <1>1, <1>2
<1> QED
  BY <1>1, <1>3, <1>4

LEMMA RangeOfNaturals ==
  ASSUME NEW values \in Seq(Nat)
  PROVE  Range(values) \subseteq Nat
  BY DEF Range

\* An update takes a baseline to one that has been fed the value as well.
LEMMA UpdateFollows ==
  ASSUME NEW rate \in Rate, NEW values \in Seq(Nat), NEW v \in Nat,
         Follows(rate, values)
  PROVE  /\ Update(rate, v) \in Rate
         /\ Follows(Update(rate, v), Append(values, v))
<1> USE RateAssumption
<1> DEFINE prev == PrevMean(rate, v)
           diff == v * Scale - prev
           new == Update(rate, v)
           longer == Append(values, v)
<1>1. /\ new.fed = rate.fed + 1
      /\ new.mean = prev + (AlphaNum * diff) \div AlphaDen
      /\ new.var = ((AlphaDen - AlphaNum) * (AlphaDen * rate.var + AlphaNum * Square(diff)))
                     \div Square(AlphaDen)
      /\ new = [fed |-> new.fed, mean |-> new.mean, var |-> new.var]
  BY DEF Update
<1>2. /\ longer \in Seq(Nat) /\ longer # <<>> /\ Len(longer) = Len(values) + 1
      /\ Range(longer) = Range(values) \cup {v} /\ Range(values) \subseteq Nat
  BY RangeOfAppend, RangeOfNaturals
<1>3. /\ rate.fed \in Nat /\ rate.mean \in Int /\ rate.var \in Nat
      /\ rate.fed = Len(values) /\ (values = <<>> => rate.var = 0)
      /\ (values # <<>> => Within(rate, values))
  BY DEF Rate, Follows
\* Of the values fed so far and this one, the lowest and the highest.
<1>4. \E low, high \in Range(longer) :
        /\ prev \in low * Scale .. high * Scale
        /\ v * Scale \in low * Scale .. high * Scale
        /\ rate.var <= Square((high - low) * Scale)
        /\ low <= high
  <2>1. CASE values = <<>>
    <3>1. prev = v * Scale /\ rate.var = 0
      BY <1>3, <2>1 DEF PrevMean
    <3>2. Square((v - v) * Scale) = 0
      BY DEF Square
    <3>3. v * Scale \in v * Scale .. v * Scale
      OBVIOUS
    <3>4. v \in Range(longer)
      BY <1>2
    <3> QED
      BY <3>1, <3>2, <3>3, <3>4
  <2>2. CASE values # <<>>
    <3>1. prev = rate.mean
      BY <1>3, <2>2 DEF PrevMean
    <3>2. PICK low \in Range(values), high \in Range(values) :
            /\ rate.mean \in low * Scale .. high * Scale
            /\ rate.var <= Square((high - low) * Scale)
      BY <1>3, <2>2 DEF Within
    <3>3. low \in Nat /\ high \in Nat
      BY <1>2
    <3>4. low <= high
      <4>1. Scale * low < Scale * (high + 1)
        <5>1. low * Scale <= high * Scale
          BY <3>2, <3>3, <1>3
        <5>2. Scale * (high + 1) = high * Scale + Scale /\ Scale * low = low * Scale
          BY <3>3
        <5>3. low * Scale \in Int /\ high * Scale \in Int
          BY <3>3
        <5> QED
          BY <5>1, <5>2, <5>3
      <4> QED
        BY <4>1, <3>3, Cancel
    <3> DEFINE least == IF v < low THEN v ELSE low
               most == IF v > high THEN v ELSE high
    <3>5. /\ least \in Range(longer) /\ most \in Range(longer)
          /\ least \in Nat /\ most \in Nat /\ least <= low /\ high <= most
          /\ least <= v /\ v <= most /\ least <= most
      BY <1>2, <3>3, <3>4
    <3> HIDE DEF least, most
    <3>6. /\ least * Scale <= low * Scale /\ high * Scale <= most * Scale
          /\ least * Scale <= v * Scale /\ v * Scale <= most * Scale
      BY <3>3, <3>5
    <3>7. Square((high - low) * Scale) <= Square((most - least) * Scale)
      <4>1. /\ (high - low) * Scale \in Nat /\ (most - least) * Scale \in Nat
            /\ (high - low) * Scale <= (most - least) * Scale
        BY <3>3, <3>4, <3>5
      <4> QED
        BY <4>1, SquareGrows
    <3>8. Square((high - low) * Scale) \in Int /\ Square((most - least) * Scale) \in Int
      BY <3>3, <3>5 DEF Square
    <3>9. prev \in least * Scale .. most * Scale
      <4>1. /\ low * Scale \in Int /\ high * Scale \in Int
            /\ least * Scale \in Int /\ most * Scale \in Int
        BY <3>3, <3>5
      <4> HIDE DEF prev
      <4> QED
        BY <3>1, <3>2, <3>6, <4>1, <1>3
    <3>10. rate.var <= Square((most - least) * Scale)
      BY <3>2, <3>7, <3>8, <1>3
    <3>11. v * Scale \in least * Scale .. most * Scale
      BY <3>3, <3>5, <3>6
    <3> QED
      BY <3>5, <3>9, <3>10, <3>11
  <2> QED
    BY <2>1, <2>2
<1>5. PICK low \in Range(longer), high \in Range(longer) :
        /\ prev \in low * Scale .. high * Scale
        /\ v * Scale \in low * Scale .. high * Scale
        /\ rate.var <= Square((high - low) * Scale)
        /\ low <= high
  BY <1>4
<1>6. low \in Nat /\ high \in Nat
  BY <1>2
<1>7. prev \in Int /\ diff \in Int
  BY <1>3 DEF PrevMean
<1>8. new.mean \in low * Scale .. high * Scale
  <2>1. v * Scale \in Int /\ low * Scale \in Int /\ high * Scale \in Int
    BY <1>6
  <2>2. prev + (AlphaNum * (v * Scale - prev)) \div AlphaDen \in low * Scale .. high * Scale
    <3> HIDE DEF prev
    <3> QED
      BY <2>1, <1>5, <1>7, MeanBetween
  <2> QED
    BY <1>1, <2>2
<1>9. new.var \in Nat /\ new.var <= Square((high - low) * Scale)
  <2> DEFINE m == Square((high - low) * Scale)
             e == Square(diff)
  <2>1. m \in Nat /\ e \in Nat /\ e <= m
    <3>1. (high - low) * Scale \in Nat
      BY <1>5, <1>6
    <3>2. PICK far \in Nat : (far = diff \/ far = -diff) /\ far <= (high - low) * Scale
      <4>1. /\ diff <= (high - low) * Scale /\ -diff <= (high - low) * Scale
        <5> HIDE DEF prev
        <5> QED BY <1>5, <1>6, <1>7
      <4> HIDE DEF diff
      <4>2. CASE diff >= 0
        BY <4>1, <4>2, <1>7
      <4>3. CASE diff < 0
        BY <4>1, <4>3, <1>7
      <4> QED
        BY <4>2, <4>3, <1>7
    <3>3. Square(diff) = Square(far)
      <4> HIDE DEF diff
      <4> QED BY <3>2, <1>7 DEF Square
    <3> QED
      BY <3>1, <3>2, <3>3, SquareGrows
  <2>2. rate.var <= m
    BY <1>5
  <2> HIDE DEF m, e
  <2>3. LET x == ((AlphaDen - AlphaNum) * (AlphaDen * rate.var + AlphaNum * e)) \div Square(AlphaDen)
        IN x \in Nat /\ x <= m
    BY <2>1, <2>2, <1>3, VarianceBelow
  <2> QED
    BY <1>1, <2>3 DEF m, e
<1>10. new \in Rate
  <2>1. new.fed \in Nat /\ new.mean \in Int
    BY <1>1, <1>3, <1>6, <1>8
  <2> HIDE DEF new
  <2> QED
    BY <1>1, <1>9, <2>1 DEF Rate
<1>11. Follows(new, longer)
  BY <1>1, <1>2, <1>3, <1>5, <1>8, <1>9 DEF Follows, Within
<1> QED
  BY <1>10, <1>11

\* Of a flat history the baseline is its value, without a deviation: an interval
\* that exceeds it by the threshold is anomalous.
LEMMA JumpIsAnomalous ==
  ASSUME NEW rate \in Rate, NEW values \in Seq(Nat), Follows(rate, values),
         NEW b \in Nat, Range(values) = {b}, NEW v \in Nat,
         min_stddev \in Nat, (v - b) * Den * Den >= Threshold * min_stddev
  PROVE  Anomalous(rate, v)
<1> USE RateAssumption, SpikeAssumption
<1>1. values # <<>> /\ rate.fed > 0
  <2>1. values # <<>>
    BY DEF Range
  <2> QED
    BY <2>1, EmptySeq, LenProperties DEF Follows
<1>2. rate.mean = b * Scale /\ rate.var = 0
  <2>1. rate.mean \in b * Scale .. b * Scale /\ rate.var <= Square((b - b) * Scale)
    BY <1>1 DEF Follows, Within
  <2>2. Square((b - b) * Scale) = 0 /\ b * Scale \in Int
    BY DEF Square
  <2> QED
    BY <2>1, <2>2 DEF Rate
<1> DEFINE above == v * Scale - PrevMean(rate, v)
           jump == (v - b) * Den * Den
           step == Threshold * (min_stddev * Scale)
<1>3. above = (v - b) * Scale
  BY <1>1, <1>2 DEF PrevMean
<1>4. above >= 0 /\ above * Den * Den = Scale * jump
  <2>1. v - b >= 0
    <3>1. jump >= 0
      <4>1. Threshold * min_stddev >= 0
        OBVIOUS
      <4> QED
        BY <4>1
    <3>2. CASE v - b < 0
      <4>1. PICK d \in Nat \ {0} : d = Den * Den
        OBVIOUS
      <4>2. (v - b) * d = jump
        BY <4>1
      <4>3. d * (v - b) < d * 0
        BY <3>2
      <4> QED
        BY <3>1, <4>2, <4>3
    <3> QED
      BY <3>2
  <2> QED
    BY <1>3, <2>1
<1>5. /\ step \in Nat /\ above * Den * Den \in Nat
      /\ Square(step) <= Square(above * Den * Den)
  <2>1. Threshold * min_stddev \in Nat /\ jump \in Int /\ Threshold * min_stddev <= jump
    OBVIOUS
  <2> HIDE DEF jump
  <2>2. Scale * (Threshold * min_stddev) <= Scale * jump
    BY <2>1, Monotone
  <2>3. step \in Nat /\ step = Scale * (Threshold * min_stddev)
    OBVIOUS
  <2>4. PICK a : a = above * Den * Den
    OBVIOUS
  <2>5. a \in Nat /\ step <= a
    BY <1>4, <2>1, <2>2, <2>3, <2>4
  <2> QED
    BY <2>3, <2>4, <2>5, SquareGrows
<1>6. Square(step) = Square(Threshold) * Larger(rate.var * Square(Den), Square(min_stddev * Scale))
  <2>1. Square(min_stddev * Scale) \in Nat /\ Square(Den) \in Nat
    BY DEF Square
  <2>2. Larger(rate.var * Square(Den), Square(min_stddev * Scale)) = Square(min_stddev * Scale)
    BY <1>2, <2>1 DEF Larger
  <2>3. Square(step) = Square(Threshold) * Square(min_stddev * Scale)
    <3>1. PICK f \in Int : f = min_stddev * Scale
      OBVIOUS
    <3>2. (Threshold * f) * (Threshold * f) = (Threshold * Threshold) * (f * f)
      OBVIOUS
    <3> QED
      BY <3>1, <3>2 DEF Square
  <2> QED
    BY <2>2, <2>3
<1> QED
  BY <1>4, <1>5, <1>6 DEF Anomalous

\* With a floor, an anomalous interval has more packets than some interval before
\* it; a first interval is never anomalous.
LEMMA AnomalousIsRise ==
  ASSUME NEW rate \in Rate, NEW values \in Seq(Nat), Follows(rate, values),
         NEW v \in Nat, min_stddev \in Nat, HasFloor, Anomalous(rate, v)
  PROVE  values # <<>> /\ \E b \in Range(values) : b < v
<1> USE RateAssumption, SpikeAssumption
<1> DEFINE above == v * Scale - PrevMean(rate, v)
           floor == Square(min_stddev * Scale)
           dev == rate.var * Square(Den)
<1>1. /\ above >= 0 /\ above \in Int
      /\ Square(above * Den * Den) >= Square(Threshold) * Larger(dev, floor)
  BY DEF Anomalous, PrevMean, Rate
<1>2. above # 0
  <2>1. floor \in Nat \ {0}
    <3>1. PICK f \in Nat \ {0} : f = min_stddev * Scale
      BY DEF HasFloor
    <3>2. f * f \in Nat \ {0}
      BY <3>1
    <3> QED
      BY <3>1, <3>2 DEF Square
  <2>2. dev \in Nat
    BY DEF Rate, Square
  <2> HIDE DEF floor, dev
  <2>3. Larger(dev, floor) \in Nat \ {0}
    BY <2>1, <2>2 DEF Larger
  <2>4. Square(Threshold) \in Nat \ {0}
    BY DEF Square
  <2>5. Square(Threshold) * Larger(dev, floor) \in Nat \ {0}
    BY <2>3, <2>4
  <2>6. above = 0 => Square(above * Den * Den) = 0
    BY DEF Square
  <2> HIDE DEF above
  <2> QED
    BY <1>1, <2>5, <2>6
<1>3. values # <<>>
  <2> SUFFICES ASSUME values = <<>> PROVE FALSE
    OBVIOUS
  <2>1. rate.fed = 0
    BY EmptySeq DEF Follows
  <2>2. v * Scale \in Int
    OBVIOUS
  <2> QED
    BY <1>2, <2>1, <2>2 DEF PrevMean
<1>4. PICK low \in Range(values), high \in Range(values) :
        rate.mean \in low * Scale .. high * Scale
  BY <1>3 DEF Follows, Within
<1>5. low \in Nat /\ high \in Nat
  BY RangeOfNaturals
<1>6. low < v
  <2>1. PrevMean(rate, v) = rate.mean /\ rate.mean \in Int
    <3>1. rate.fed > 0
      BY <1>3, EmptySeq, LenProperties DEF Follows
    <3> QED
      BY <3>1 DEF PrevMean, Rate
  <2>2. low * Scale \in Int /\ high * Scale \in Int /\ v * Scale \in Int
    BY <1>5
  <2>3. low * Scale < v * Scale
    BY <1>1, <1>2, <1>4, <2>1, <2>2
  <2>4. Scale * low < Scale * v
    BY <2>3, <1>5
  <2> QED
    BY <2>4, <1>5, Cancel
<1> QED
  BY <1>3, <1>6

\* Whatever a baseline has been fed, an update makes it a baseline.
LEMMA UpdateTyped ==
  ASSUME NEW rate \in Rate, NEW v \in Nat
  PROVE  Update(rate, v) \in Rate
<1> USE RateAssumption
<1> DEFINE prev == PrevMean(rate, v)
           diff == v * Scale - prev
<1>1. prev \in Int /\ diff \in Int /\ rate.var \in Nat /\ rate.fed \in Nat
  BY DEF PrevMean, Rate
<1> HIDE DEF prev, diff
<1>2. Square(diff) \in Nat
  BY <1>1 DEF Square
<1>3. PICK m \in Nat : rate.var <= m /\ Square(diff) <= m
  <2>1. CASE rate.var <= Square(diff)
    BY <1>1, <1>2, <2>1
  <2>2. CASE ~(rate.var <= Square(diff))
    BY <1>1, <1>2, <2>2
  <2> QED
    BY <2>1, <2>2
<1>4. ((AlphaDen - AlphaNum) * (AlphaDen * rate.var + AlphaNum * Square(diff)))
        \div Square(AlphaDen) \in Nat
  BY <1>1, <1>2, <1>3, VarianceBelow
<1>5. (AlphaNum * diff) \div AlphaDen \in Int
  <2>1. AlphaNum * diff \in Int
    BY <1>1
  <2> QED
    BY <2>1, Quotient
<1> QED
  BY <1>1, <1>4, <1>5 DEF Update, Rate, prev, diff

-----------------------------------------------------------------------------
(* The inductive invariant *)

SpikeTypes ==
  /\ min_stddev \in Nat /\ now \in Nat /\ window_start \in Nat /\ window_start <= now
  /\ counts \in [Keys -> Nat] /\ seen \in [Keys -> Nat]
  /\ rates \in [Keys -> Rate]
  /\ closed \in [Keys -> Seq(Nat)] /\ ends \in [Keys -> Seq(Nat)]
  /\ pending \in [Keys -> Seq(Nat)]
  /\ alerts \subseteq Keys \X Nat

\* Where each packet of a key is counted.
Placed(k) ==
  /\ Len(ends[k]) = Len(closed[k])
  /\ \A n \in 1 .. Len(closed[k]) : closed[k][n] = EndOf(k, n) - EndOf(k, n - 1)
  /\ counts[k] = seen[k] - EndOf(k, Len(closed[k]))
  /\ counts[k] = Len(pending[k])
  /\ HasFloor => OpenInTime(k)

\* Without a floor a baseline may be fed an interval that stays open.
BaselinesFollow == HasFloor => \A k \in Keys : Follows(rates[k], closed[k])

SpikeInv ==
  /\ SpikeTypes
  /\ \A k \in Keys : Placed(k)
  /\ BaselinesFollow
  /\ JumpsReported

\* A detector that has seen nothing.
LEMMA SpikeInit == Init => SpikeInv
<1> SUFFICES ASSUME Init PROVE SpikeInv
  OBVIOUS
<1> USE SpikeAssumption
<1>1. <<>> \in Seq(Nat) /\ Len(<<>>) = 0
  BY EmptySeq
<1>2. SpikeTypes
  BY <1>1 DEF Init, SpikeTypes, Fresh, Rate
<1>3. \A k \in Keys : Placed(k)
  BY <1>1 DEF Init, Placed, EndOf, OpenInTime
<1>4. BaselinesFollow
  BY <1>1 DEF Init, BaselinesFollow, Follows, Fresh
<1>5. JumpsReported
  BY <1>1 DEF Init, JumpsReported
<1> QED
  BY <1>2, <1>3, <1>4, <1>5 DEF SpikeInv

-----------------------------------------------------------------------------
(* A packet within the interval, or one whose interval cannot be closed *)

\* A packet of an open interval is counted in it.
LEMMA CountedInOpen ==
  ASSUME SpikeInv, NEW k \in Keys,
         counts' = CountsWith(k), seen' = [seen EXCEPT ![k] = @ + 1],
         pending' = [pending EXCEPT ![k] = Append(@, now)],
         UNCHANGED <<min_stddev, now, window_start, closed, ends>>,
         HasFloor => ~IntervalOver
  PROVE  /\ counts' \in [Keys -> Nat] /\ seen' \in [Keys -> Nat]
         /\ pending' \in [Keys -> Seq(Nat)]
         /\ \A j \in Keys : Placed(j)'
<1> USE SpikeAssumption
<1>1. /\ counts' \in [Keys -> Nat] /\ seen' \in [Keys -> Nat]
      /\ counts'[k] = counts[k] + 1 /\ seen'[k] = seen[k] + 1
      /\ \A j \in Keys \ {k} : counts'[j] = counts[j] /\ seen'[j] = seen[j]
                                /\ pending'[j] = pending[j]
      /\ pending'[k] = Append(pending[k], now)
  BY DEF SpikeInv, SpikeTypes, CountsWith
<1>2. /\ pending[k] \in Seq(Nat) /\ now \in Nat
      /\ pending'[k] \in Seq(Nat) /\ Len(pending'[k]) = Len(pending[k]) + 1
      /\ \A i \in 1 .. Len(pending[k]) : pending'[k][i] = pending[k][i]
      /\ pending'[k][Len(pending[k]) + 1] = now
  BY <1>1, AppendProperties DEF SpikeInv, SpikeTypes
<1>3. pending' \in [Keys -> Seq(Nat)]
  BY <1>1, <1>2 DEF SpikeInv, SpikeTypes
<1>4. \A j \in Keys : \A n : EndOf(j, n)' = EndOf(j, n)
  BY DEF EndOf
<1>5. ASSUME NEW j \in Keys \ {k} PROVE Placed(j)'
  <2>1. Placed(j)
    BY DEF SpikeInv
  <2>2. HasFloor' = HasFloor /\ OpenInTime(j)' = OpenInTime(j)
    BY <1>1 DEF HasFloor, OpenInTime
  <2> QED
    BY <1>1, <1>4, <2>1, <2>2 DEF Placed
<1>6. Placed(k)'
  <2>1. Placed(k)
    BY DEF SpikeInv
  <2>2. HasFloor' => OpenInTime(k)'
    <3>1. HasFloor => OpenInTime(k) /\ window_start <= now /\ now < window_start + Interval
      BY <2>1 DEF Placed, IntervalOver, SpikeInv, SpikeTypes
    <3>2. HasFloor' = HasFloor
      BY DEF HasFloor
    <3>3. Len(pending[k]) \in Nat
      BY <1>2, LenProperties
    <3> QED
      BY <1>2, <3>1, <3>2, <3>3 DEF OpenInTime
  <2>3. EndOf(k, Len(closed[k])) \in Int
    BY <2>1 DEF EndOf, Placed, SpikeInv, SpikeTypes
  <2>4. seen[k] \in Nat /\ counts[k] \in Nat
    BY DEF SpikeInv, SpikeTypes
  <2> QED
    BY <1>1, <1>2, <1>4, <2>1, <2>2, <2>3, <2>4 DEF Placed
<1> QED
  BY <1>1, <1>3, <1>5, <1>6

\* Nothing is closed and nothing reported: the jumps are those of before.
LEMMA NothingClosed ==
  ASSUME JumpsReported, UNCHANGED <<min_stddev, closed, alerts>>
  PROVE  JumpsReported'
<1>1. /\ \A k, n : Before(k, n)' = Before(k, n)
      /\ HasFloor' = HasFloor
  BY DEF Before, HasFloor
<1>2. \A k, n : JumpsFromFlat(k, n)' = JumpsFromFlat(k, n)
  BY <1>1 DEF JumpsFromFlat
<1>3. \A k, n : Rises(k, n)' = Rises(k, n)
  BY <1>1 DEF Rises
<1> QED
  BY <1>1, <1>2, <1>3 DEF JumpsReported

LEMMA CountStep ==
  ASSUME SpikeInv, NEW k \in Keys, Count(k)
  PROVE  SpikeInv'
<1>1. /\ counts' = CountsWith(k) /\ seen' = [seen EXCEPT ![k] = @ + 1]
      /\ pending' = [pending EXCEPT ![k] = Append(@, now)] /\ ~IntervalOver
      /\ UNCHANGED <<min_stddev, now, window_start, rates, closed, ends, alerts>>
  BY DEF Count, Arrive, CountsWith
<1>2. /\ counts' \in [Keys -> Nat] /\ seen' \in [Keys -> Nat]
      /\ pending' \in [Keys -> Seq(Nat)]
      /\ \A j \in Keys : Placed(j)'
  BY <1>1, CountedInOpen
<1>3. SpikeTypes'
  BY <1>1, <1>2 DEF SpikeInv, SpikeTypes
<1>4. BaselinesFollow'
  BY <1>1 DEF SpikeInv, BaselinesFollow, HasFloor
<1>5. JumpsReported'
  BY <1>1, NothingClosed DEF SpikeInv
<1> QED
  BY <1>2, <1>3, <1>4, <1>5 DEF SpikeInv

\* What one pass over some keys makes of the baselines.
LEMMA UpdateAllTyped ==
  ASSUME SpikeInv, NEW k \in Keys, NEW done \in SUBSET Keys, UpdateAll(done, k)
  PROVE  rates' \in [Keys -> Rate]
<1>1. \A j \in Keys : CountsWith(k)[j] \in Nat /\ rates[j] \in Rate
  BY DEF SpikeInv, SpikeTypes, CountsWith
<1>2. \A j \in Keys : Update(rates[j], CountsWith(k)[j]) \in Rate
  BY <1>1, UpdateTyped
<1> QED
  BY <1>1, <1>2 DEF UpdateAll

LEMMA FlushRaisesStep ==
  ASSUME SpikeInv, NEW k \in Keys, FlushRaises(k)
  PROVE  SpikeInv'
<1>1. /\ counts' = CountsWith(k) /\ seen' = [seen EXCEPT ![k] = @ + 1]
      /\ pending' = [pending EXCEPT ![k] = Append(@, now)]
      /\ UNCHANGED <<min_stddev, now, window_start, closed, ends, alerts>>
  BY DEF FlushRaises, Arrive
<1>2. PICK done \in SUBSET Keys : UpdateAll(done, k)
  BY DEF FlushRaises, Present
<1>3. ~HasFloor /\ ~HasFloor'
  BY <1>1 DEF FlushRaises, Unscorable, HasFloor, SpikeInv, SpikeTypes
<1>4. /\ counts' \in [Keys -> Nat] /\ seen' \in [Keys -> Nat]
      /\ pending' \in [Keys -> Seq(Nat)]
      /\ \A j \in Keys : Placed(j)'
  BY <1>1, <1>3, CountedInOpen
<1>5. SpikeTypes'
  BY <1>1, <1>2, <1>4, UpdateAllTyped DEF SpikeInv, SpikeTypes
<1>6. BaselinesFollow' /\ JumpsReported'
  BY <1>3 DEF BaselinesFollow, JumpsReported
<1> QED
  BY <1>4, <1>5, <1>6 DEF SpikeInv

-----------------------------------------------------------------------------
(* The packet that closes the interval *)

\* What closing an interval does to the histories of each key.
LEMMA ClosedBy ==
  ASSUME SpikeInv, NEW k \in Keys, Flush(k)
  PROVE  /\ Present(k) \subseteq Keys /\ k \in Present(k)
         /\ \A j \in Keys :
              /\ CountsWith(k)[j] \in Nat
              /\ j \notin Present(k) => closed'[j] = closed[j] /\ ends'[j] = ends[j]
              /\ j \in Present(k) => closed'[j] = Append(closed[j], CountsWith(k)[j])
                                   /\ ends'[j] = Append(ends[j], seen'[j])
              /\ closed[j] \in Seq(Nat) /\ closed'[j] \in Seq(Nat)
              /\ ends[j] \in Seq(Nat) /\ ends'[j] \in Seq(Nat)
         /\ seen' \in [Keys -> Nat] /\ seen'[k] = seen[k] + 1
         /\ \A j \in Keys \ {k} : seen'[j] = seen[j] /\ CountsWith(k)[j] = counts[j]
         /\ CountsWith(k)[k] = counts[k] + 1
<1>1. /\ seen' = [seen EXCEPT ![k] = @ + 1]
      /\ closed' = [j \in Keys |-> IF j \in Present(k) THEN Append(closed[j], CountsWith(k)[j])
                                                       ELSE closed[j]]
      /\ ends' = [j \in Keys |-> IF j \in Present(k) THEN Append(ends[j], seen'[j]) ELSE ends[j]]
  BY DEF Flush, Arrive
<1>2. /\ counts \in [Keys -> Nat] /\ seen \in [Keys -> Nat]
      /\ closed \in [Keys -> Seq(Nat)] /\ ends \in [Keys -> Seq(Nat)]
  BY DEF SpikeInv, SpikeTypes
<1>3. /\ \A j \in Keys : CountsWith(k)[j] \in Nat
      /\ \A j \in Keys \ {k} : CountsWith(k)[j] = counts[j]
      /\ CountsWith(k)[k] = counts[k] + 1
  BY <1>2 DEF CountsWith
<1>4. seen' \in [Keys -> Nat] /\ seen'[k] = seen[k] + 1 /\ \A j \in Keys \ {k} : seen'[j] = seen[j]
  BY <1>1, <1>2
<1>5. Present(k) \subseteq Keys /\ k \in Present(k)
  BY <1>2, <1>3 DEF Present
<1>6. ASSUME NEW j \in Keys
      PROVE  /\ Append(closed[j], CountsWith(k)[j]) \in Seq(Nat)
             /\ Append(ends[j], seen'[j]) \in Seq(Nat)
  BY <1>2, <1>3, <1>4, AppendProperties
<1> QED
  BY <1>1, <1>2, <1>3, <1>4, <1>5, <1>6

\* What is appended leaves the intervals before it as they are.
LEMMA EarlierIntervals ==
  ASSUME SpikeInv, NEW k \in Keys, Flush(k), NEW j \in Keys
  PROVE  /\ Len(closed[j]) \in Nat
         /\ \A n \in 1 .. Len(closed[j]) : closed'[j][n] = closed[j][n]
         /\ \A n \in 0 .. Len(closed[j]) : EndOf(j, n)' = EndOf(j, n)
         /\ Len(ends'[j]) = Len(closed'[j])
         /\ j \notin Present(k) => Len(closed'[j]) = Len(closed[j])
         /\ j \in Present(k) => /\ Len(closed'[j]) = Len(closed[j]) + 1
                               /\ closed'[j][Len(closed[j]) + 1] = CountsWith(k)[j]
                               /\ ends'[j][Len(closed[j]) + 1] = seen'[j]
<1>1. /\ closed[j] \in Seq(Nat) /\ ends[j] \in Seq(Nat)
      /\ Len(closed[j]) \in Nat /\ Len(ends[j]) = Len(closed[j])
  BY LenProperties DEF SpikeInv, SpikeTypes, Placed
<1>2. CASE j \notin Present(k)
  BY <1>1, <1>2, ClosedBy DEF EndOf
<1>3. CASE j \in Present(k)
  <2>1. /\ closed'[j] = Append(closed[j], CountsWith(k)[j]) /\ CountsWith(k)[j] \in Nat
        /\ ends'[j] = Append(ends[j], seen'[j]) /\ seen'[j] \in Nat
    BY <1>3, ClosedBy
  <2>2. /\ Len(closed'[j]) = Len(closed[j]) + 1
        /\ \A n \in 1 .. Len(closed[j]) : closed'[j][n] = closed[j][n]
        /\ closed'[j][Len(closed[j]) + 1] = CountsWith(k)[j]
    <3>1. PICK c \in Nat : c = CountsWith(k)[j]
      BY <2>1
    <3> QED
      BY <1>1, <2>1, <3>1, AppendProperties
  <2>3. /\ Len(ends'[j]) = Len(ends[j]) + 1
        /\ \A n \in 1 .. Len(ends[j]) : ends'[j][n] = ends[j][n]
        /\ ends'[j][Len(ends[j]) + 1] = seen'[j]
    <3>1. PICK c \in Nat : c = seen'[j]
      BY <2>1
    <3> QED
      BY <1>1, <2>1, <3>1, AppendProperties
  <2> QED
    BY <1>1, <1>3, <2>2, <2>3 DEF EndOf
<1> QED
  BY <1>2, <1>3

\* The counts of the closed interval are the packets since the one before it.
LEMMA FlushPlaces ==
  ASSUME SpikeInv, NEW k \in Keys, Flush(k), NEW j \in Keys
  PROVE  Placed(j)'
<1>1. PICK last \in Nat : last = Len(closed[j])
  BY EarlierIntervals
<1>2. /\ Placed(j) /\ counts[j] \in Nat /\ seen[j] \in Nat
      /\ EndOf(j, last) \in Nat
  <2>1. Placed(j) /\ counts[j] \in Nat /\ seen[j] \in Nat
    BY DEF SpikeInv, SpikeTypes
  <2>2. ends[j] \in Seq(Nat) /\ Len(ends[j]) = last
    BY <1>1, <2>1, ClosedBy DEF Placed
  <2>3. \A n \in 1 .. last : ends[j][n] \in Nat
    BY <2>2, ElementOfSeq
  <2> QED
    BY <2>1, <2>3 DEF EndOf
<1>3. counts'[j] = 0 /\ pending'[j] = <<>> /\ Len(pending'[j]) = 0
  BY EmptySeq DEF Flush
<1>4. OpenInTime(j)'
  BY <1>3 DEF OpenInTime
<1>5. CountsWith(k)[j] = seen'[j] - EndOf(j, last) /\ seen'[j] \in Nat
  <2>1. counts[j] = seen[j] - EndOf(j, last)
    BY <1>1, <1>2 DEF Placed
  <2>2. CASE j = k
    BY <1>2, <2>1, <2>2, ClosedBy
  <2>3. CASE j # k
    BY <1>2, <2>1, <2>3, ClosedBy
  <2> QED
    BY <2>2, <2>3
<1>6. ASSUME NEW n \in 1 .. last PROVE closed'[j][n] = EndOf(j, n)' - EndOf(j, n - 1)'
  <2>1. closed'[j][n] = closed[j][n] /\ EndOf(j, n)' = EndOf(j, n)
    BY <1>1, EarlierIntervals
  <2>2. \A m \in 0 .. last : EndOf(j, m)' = EndOf(j, m)
    BY <1>1, EarlierIntervals
  <2>3. EndOf(j, n - 1)' = EndOf(j, n - 1)
    BY <2>2
  <2> QED
    BY <1>1, <1>2, <2>1, <2>3 DEF Placed
<1>7. EndOf(j, last)' = EndOf(j, last) /\ Len(ends'[j]) = Len(closed'[j])
  BY <1>1, EarlierIntervals
<1>8. CASE j \in Present(k)
  <2>1. /\ Len(closed'[j]) = last + 1 /\ closed'[j][last + 1] = CountsWith(k)[j]
        /\ EndOf(j, last + 1)' = seen'[j]
    BY <1>1, <1>8, EarlierIntervals DEF EndOf
  <2>2. closed'[j][last + 1] = EndOf(j, last + 1)' - EndOf(j, (last + 1) - 1)'
    BY <1>5, <1>7, <2>1
  <2>3. \A n \in 1 .. last + 1 : closed'[j][n] = EndOf(j, n)' - EndOf(j, n - 1)'
    <3> TAKE n \in 1 .. last + 1
    <3>1. n \in 1 .. last \/ n = last + 1
      OBVIOUS
    <3> QED
      BY <1>6, <2>2, <3>1
  <2>4. counts'[j] = seen'[j] - EndOf(j, Len(closed[j]))'
    BY <1>3, <1>5, <2>1
  <2> QED
    BY <1>3, <1>4, <1>7, <2>1, <2>3, <2>4 DEF Placed
<1>9. CASE j \notin Present(k)
  <2>1. Len(closed'[j]) = last
    BY <1>1, <1>9, EarlierIntervals
  <2>2. CountsWith(k)[j] = 0
    BY <1>9, ClosedBy DEF Present
  <2>3. counts'[j] = seen'[j] - EndOf(j, Len(closed[j]))'
    BY <1>2, <1>3, <1>5, <1>7, <2>1, <2>2
  <2> QED
    BY <1>3, <1>4, <1>6, <1>7, <2>1, <2>3 DEF Placed
<1> QED
  BY <1>8, <1>9

\* With a floor each baseline is fed once for each closed interval.
LEMMA FlushFeeds ==
  ASSUME SpikeInv, NEW k \in Keys, Flush(k)
  PROVE  BaselinesFollow'
<1> SUFFICES ASSUME HasFloor', NEW j \in Keys PROVE Follows(rates'[j], closed'[j])
  BY DEF BaselinesFollow
<1>1. Follows(rates[j], closed[j]) /\ rates[j] \in Rate /\ closed[j] \in Seq(Nat)
  BY DEF Flush, Arrive, HasFloor, SpikeInv, SpikeTypes, BaselinesFollow
<1>2. rates'[j] = IF j \in Present(k) THEN Update(rates[j], CountsWith(k)[j]) ELSE rates[j]
  BY DEF Flush, UpdateAll
<1> QED
  BY <1>1, <1>2, ClosedBy, UpdateFollows

\* The intervals before the one that is closed are those the baseline was fed.
LEMMA BeforeLast ==
  ASSUME SpikeInv, NEW k \in Keys, Flush(k), NEW j \in Keys
  PROVE  /\ \A n \in 1 .. Len(closed[j]) : Before(j, n)' = Before(j, n)
         /\ \A n : n = Len(closed[j]) + 1 => Before(j, n)' = Range(closed[j])
<1>1. closed[j] \in Seq(Nat) /\ Len(closed[j]) \in Nat
  BY LenProperties DEF SpikeInv, SpikeTypes
<1>2. \A n \in 1 .. Len(closed[j]) : closed'[j][n] = closed[j][n]
  BY EarlierIntervals
<1>3. DOMAIN closed[j] = 1 .. Len(closed[j])
  BY <1>1, LenProperties
<1>4. ASSUME NEW n \in 1 .. Len(closed[j]) + 1
      PROVE  Before(j, n)' = {closed[j][i] : i \in 1 .. n - 1}
  <2>1. \A i \in 1 .. n - 1 : closed'[j][i] = closed[j][i]
    BY <1>1, <1>2
  <2> QED
    BY <2>1 DEF Before
<1>5. ASSUME NEW n, n = Len(closed[j]) + 1 PROVE Before(j, n)' = Range(closed[j])
  <2>1. n \in 1 .. Len(closed[j]) + 1 /\ n - 1 = Len(closed[j])
    BY <1>1, <1>5
  <2> QED
    BY <1>3, <1>4, <2>1 DEF Range
<1>6. \A n \in 1 .. Len(closed[j]) : n \in 1 .. Len(closed[j]) + 1
  BY <1>1
<1> QED
  BY <1>4, <1>5, <1>6 DEF Before

\* An interval is reported when it jumps, and only when it rises.
LEMMA FlushReports ==
  ASSUME SpikeInv, NEW k \in Keys, Flush(k)
  PROVE  JumpsReported'
<1> SUFFICES ASSUME HasFloor'
             PROVE  /\ \A j \in Keys : \A n \in 2 .. Len(closed'[j]) :
                         JumpsFromFlat(j, n)' => <<j, n>> \in alerts'
                    /\ \A a \in alerts' : Rises(a[1], a[2])'
  BY DEF JumpsReported
<1>1. /\ min_stddev' = min_stddev /\ min_stddev \in Nat /\ HasFloor
      /\ alerts' = alerts \cup {<<j, Len(closed[j]) + 1>> :
                                 j \in {i \in Present(k) : Spike(i, CountsWith(k)[i])}}
  BY DEF Flush, Arrive, HasFloor, SpikeInv, SpikeTypes
<1>2. \A j \in Keys : Follows(rates[j], closed[j]) /\ rates[j] \in Rate
                     /\ closed[j] \in Seq(Nat) /\ Len(closed[j]) \in Nat
  BY <1>1, LenProperties DEF SpikeInv, SpikeTypes, BaselinesFollow
<1>3. ASSUME NEW j \in Keys, NEW n \in 2 .. Len(closed'[j]), JumpsFromFlat(j, n)'
      PROVE  <<j, n>> \in alerts'
  <2>1. CASE n \in 2 .. Len(closed[j])
    <3>1. closed'[j][n] = closed[j][n] /\ Before(j, n)' = Before(j, n)
      BY <1>2, <2>1, EarlierIntervals, BeforeLast
    <3>2. JumpsFromFlat(j, n)
      BY <1>1, <1>3, <3>1 DEF JumpsFromFlat
    <3> QED
      BY <1>1, <2>1, <3>2 DEF SpikeInv, JumpsReported
  <2>2. CASE n \notin 2 .. Len(closed[j])
    <3>1. j \in Present(k) /\ n = Len(closed[j]) + 1 /\ closed'[j][n] = CountsWith(k)[j]
      BY <1>2, <2>2, EarlierIntervals
    <3>2. Before(j, n)' = Range(closed[j])
      BY <3>1, BeforeLast
    <3>6. PICK b : /\ Range(closed[j]) = {b}
                   /\ (CountsWith(k)[j] - b) * Den * Den >= Threshold * min_stddev
                   /\ CountsWith(k)[j] >= MinPackets
      BY <1>1, <1>3, <3>1, <3>2 DEF JumpsFromFlat
    <3>3. b \in Nat /\ CountsWith(k)[j] \in Nat
      BY <1>2, <3>6, RangeOfNaturals, ClosedBy
    <3>4. Anomalous(rates[j], CountsWith(k)[j])
      BY <1>1, <1>2, <3>6, <3>3, JumpIsAnomalous
    <3>5. Spike(j, CountsWith(k)[j])
      BY <3>6, <3>4 DEF Spike
    <3> QED
      BY <1>1, <3>1, <3>5
  <2> QED
    BY <2>1, <2>2
<1>4. ASSUME NEW a \in alerts PROVE Rises(a[1], a[2])'
  <2>1. a \in Keys \X Nat /\ Rises(a[1], a[2])
    BY <1>1 DEF SpikeInv, SpikeTypes, JumpsReported
  <2>2. PICK j \in Keys, n \in Nat : a = <<j, n>>
    BY <2>1
  <2>3. Rises(j, n) /\ n \in 1 .. Len(closed[j])
    BY <1>2, <2>1, <2>2 DEF Rises
  <2>4. closed'[j][n] = closed[j][n] /\ Before(j, n)' = Before(j, n)
    BY <2>3, EarlierIntervals, BeforeLast
  <2>5. Len(closed[j]) \in Nat /\ Len(closed'[j]) \in {Len(closed[j]), Len(closed[j]) + 1}
    BY <1>2, EarlierIntervals
  <2>6. Rises(j, n)'
    BY <2>3, <2>4, <2>5 DEF Rises
  <2> QED
    BY <2>2, <2>6
<1>5. ASSUME NEW j \in Present(k), Spike(j, CountsWith(k)[j]),
             NEW n, n = Len(closed[j]) + 1
      PROVE  Rises(j, n)'
  <2>1. j \in Keys /\ CountsWith(k)[j] \in Nat
    BY ClosedBy
  <2>2. /\ closed[j] # <<>>
        /\ \E b \in Range(closed[j]) : b < CountsWith(k)[j]
        /\ CountsWith(k)[j] >= MinPackets
    BY <1>1, <1>2, <1>5, <2>1, AnomalousIsRise DEF Spike
  <2>3. Len(closed[j]) > 0 /\ Len(closed[j]) \in Nat
    BY <1>2, <2>1, <2>2, EmptySeq, LenProperties
  <2>4. Len(closed'[j]) = n /\ closed'[j][n] = CountsWith(k)[j]
    BY <1>5, <2>1, EarlierIntervals
  <2>5. Before(j, n)' = Range(closed[j])
    BY <1>5, <2>1, BeforeLast
  <2>6. n \in 2 .. Len(closed'[j])
    BY <1>5, <2>3, <2>4
  <2> QED
    BY <2>2, <2>4, <2>5, <2>6 DEF Rises
<1>6. ASSUME NEW a \in alerts' \ alerts PROVE Rises(a[1], a[2])'
  <2>1. PICK j \in Present(k) : a = <<j, Len(closed[j]) + 1>> /\ Spike(j, CountsWith(k)[j])
    BY <1>1
  <2>2. PICK n : n = Len(closed[j]) + 1
    OBVIOUS
  <2>3. a[1] = j /\ a[2] = n
    BY <2>1, <2>2
  <2> QED
    BY <1>5, <2>1, <2>2, <2>3
<1> QED
  BY <1>3, <1>4, <1>6

LEMMA FlushStep ==
  ASSUME SpikeInv, NEW k \in Keys, Flush(k)
  PROVE  SpikeInv'
<1>1. SpikeTypes'
  <2>1. /\ UNCHANGED <<min_stddev, now>> /\ window_start' = now
        /\ counts' = [j \in Keys |-> 0] /\ pending' = [j \in Keys |-> <<>>]
        /\ UpdateAll(Present(k), k)
        /\ alerts' \subseteq alerts \cup {<<j, Len(closed[j]) + 1>> : j \in Present(k)}
    BY DEF Flush, Arrive
  <2>2. rates' \in [Keys -> Rate]
    BY <2>1, ClosedBy, UpdateAllTyped
  <2>3. closed' \in [Keys -> Seq(Nat)] /\ ends' \in [Keys -> Seq(Nat)] /\ seen' \in [Keys -> Nat]
    BY ClosedBy DEF Flush
  <2>4. \A j \in Present(k) : <<j, Len(closed[j]) + 1>> \in Keys \X Nat
    BY ClosedBy, LenProperties
  <2>5. alerts' \subseteq Keys \X Nat
    BY <2>1, <2>4 DEF SpikeInv, SpikeTypes
  <2>6. <<>> \in Seq(Nat)
    BY EmptySeq
  <2>7. counts' \in [Keys -> Nat] /\ pending' \in [Keys -> Seq(Nat)]
    BY <2>1, <2>6
  <2>8. min_stddev' \in Nat /\ now' \in Nat /\ window_start' \in Nat /\ window_start' <= now'
    BY <2>1 DEF SpikeInv, SpikeTypes
  <2> QED
    BY <2>2, <2>3, <2>5, <2>7, <2>8 DEF SpikeTypes
<1>2. \A j \in Keys : Placed(j)'
  BY FlushPlaces
<1> QED
  BY <1>1, <1>2, FlushFeeds, FlushReports DEF SpikeInv

\* Time only passes.
LEMMA TickStep ==
  ASSUME SpikeInv, Tick
  PROVE  SpikeInv'
<1>1. /\ now' = now + 1
      /\ UNCHANGED <<min_stddev, counts, window_start, rates, closed, pending, seen, ends, alerts>>
  BY DEF Tick
<1>2. SpikeTypes'
  BY <1>1 DEF SpikeInv, SpikeTypes
<1>3. (\A j \in Keys : Placed(j)') /\ BaselinesFollow' /\ JumpsReported'
  BY <1>1, NothingClosed DEF SpikeInv, Placed, EndOf, OpenInTime, BaselinesFollow, HasFloor
<1> QED
  BY <1>2, <1>3 DEF SpikeInv

LEMMA SpikeStep == SpikeInv /\ [Next]_vars => SpikeInv'
<1> SUFFICES ASSUME SpikeInv, [Next]_vars PROVE SpikeInv'
  OBVIOUS
<1>1. CASE Tick
  BY <1>1, TickStep
<1>2. ASSUME NEW k \in Keys, Count(k) PROVE SpikeInv'
  BY <1>2, CountStep
<1>3. ASSUME NEW k \in Keys, Flush(k) PROVE SpikeInv'
  BY <1>3, FlushStep
<1>4. ASSUME NEW k \in Keys, FlushRaises(k) PROVE SpikeInv'
  BY <1>4, FlushRaisesStep
<1>5. CASE UNCHANGED vars
  <2>1. SpikeTypes'
    BY <1>5 DEF vars, SpikeInv, SpikeTypes
  <2>2. (\A j \in Keys : Placed(j)') /\ BaselinesFollow' /\ JumpsReported'
    BY <1>5, NothingClosed
    DEF vars, SpikeInv, Placed, EndOf, OpenInTime, BaselinesFollow, HasFloor
  <2> QED
    BY <2>1, <2>2 DEF SpikeInv
<1> QED
  BY <1>1, <1>2, <1>3, <1>4, <1>5 DEF Next

LEMMA SpikeInvariant == Spec => []SpikeInv
  BY SpikeInit, SpikeStep, PTL DEF Spec

-----------------------------------------------------------------------------
(* The theorems *)

\* IntervalsPartitionPackets: every packet is counted in exactly one interval,
\* and with a floor in one of the right length, which is fed to its baseline once.
THEOREM PacketsPartitioned == Spec => []IntervalsPartitionPackets
<1>1. SpikeInv => IntervalsPartitionPackets
  BY DEF SpikeInv, Placed, BaselinesFollow, Follows, IntervalsPartitionPackets
<1> QED
  BY <1>1, SpikeInvariant, PTL

\* BaselineWithinHistory: for every weight in 0..1 the recurrence keeps the mean
\* between the rates a key has shown and the deviation within their distance.
THEOREM BaselineBounded == Spec => []BaselineWithinHistory
<1>1. SpikeInv => BaselineWithinHistory
  BY DEF SpikeInv, BaselinesFollow, Follows, Within, BaselineWithinHistory
<1> QED
  BY <1>1, SpikeInvariant, PTL

\* JumpsReported: a jump from a flat history is reported, and whatever is reported
\* rises above some interval before it, for every positive threshold and floor.
THEOREM JumpsFound == Spec => []JumpsReported
<1>1. SpikeInv => JumpsReported
  BY DEF SpikeInv
<1> QED
  BY <1>1, SpikeInvariant, PTL
=============================================================================
