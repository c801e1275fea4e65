------------------------- MODULE FreshnessProofs -------------------------
(***************************************************************************)
(* Proofs about module Freshness.                                          *)
(***************************************************************************)
EXTENDS Freshness, TLAPS

\* A stored response, as Init makes it and as no step changes it.
Stored(r) ==
  /\ r.control \in ResponseControls
  /\ r.expires \in Dates /\ r.date \in Dates \ {NoHeader} /\ r.age \in Ages
  /\ r.responseTime \in 0 .. Horizon

\* The inductive invariant: what is read is what has been stored, and time
\* has only passed.
StoredInv ==
  /\ Stored(response)
  /\ req \in RequestControls
  /\ now \in Nat /\ response.responseTime <= now

(* StoredInv holds in all behaviours. *)
THEOREM StoredInvariant == Spec => []StoredInv
<1>1. Init => StoredInv
  BY NumbersAssumption DEF Init, StoredInv, Stored
<1>2. StoredInv /\ [Next]_vars => StoredInv'
  BY NumbersAssumption DEF StoredInv, Stored, Next, Tick, NextRequest, vars
<1> QED BY <1>1, <1>2, PTL DEF Spec

LEMMA WrapIsLong ==
  ASSUME NEW x \in Int
  PROVE  Wrap(x) \in Int
  BY NumbersAssumption DEF Wrap

(* Wrapping around twice, on the way to a sum that fits, does no harm. *)
LEMMA WrapExact ==
  ASSUME NEW l \in Int, NEW m \in Int, NEW s \in Int,
         l - m + s \in -LongMax - 1 .. LongMax
  PROVE  Wrap(Wrap(l - m) + s) = l - m + s
  BY NumbersAssumption DEF Wrap

LEMMA SumGrows ==
  ASSUME NEW c \in Nat, NEW t \in Nat, NEW u \in Nat, t <= u, c + u <= LongMax
  PROVE  c + t <= LongMax
  BY NumbersAssumption

LEMMA WrapFits ==
  ASSUME NEW c \in Nat, NEW t \in Nat, NEW r \in Nat, r <= t, c + t <= LongMax
  PROVE  Wrap(Wrap(c + t) - r) = c + t - r
<1>1. Wrap(c + t) = c + t
  BY NumbersAssumption DEF Wrap
<1>2. Wrap(c + t - r) = c + t - r
  BY NumbersAssumption DEF Wrap
<1> DEFINE s == c + t
<1>3. Wrap(s) = s /\ Wrap(s - r) = s - r
  BY <1>1, <1>2
<1> HIDE DEF s
<1>4. Wrap(Wrap(s) - r) = s - r
  BY <1>3
<1> QED BY <1>4 DEF s

(* A date that is one is moved by what mktime may be off by. *)
LEMMA DateIsShifted ==
  ASSUME NEW date \in Dates \ {Junk, NoHeader}
  PROVE  /\ date \in Int
         /\ \A d \in to_tm_format(date) :
              d \in Int /\ date + MinShift <= d /\ d <= date + MaxShift
  BY HeadersAssumption, NumbersAssumption DEF to_tm_format

LEMMA TimesAreInts ==
  ASSUME NEW date \in Dates
  PROVE  to_tm_format(date) \subseteq Int
<1>1. CASE date \in {Junk, NoHeader}
  BY <1>1, NumbersAssumption DEF to_tm_format
<1>2. CASE date \notin {Junk, NoHeader}
  BY <1>2, DateIsShifted
<1> QED BY <1>1, <1>2

(* The age starts from a number that is not negative. *)
LEMMA ApparentAgeIsNat ==
  ASSUME StoredInv
  PROVE  apparent_age(response) \subseteq Nat
<1>1. to_tm_format(response.date) \subseteq Int
  BY TimesAreInts DEF StoredInv, Stored
<1>2. ASSUME NEW d \in to_tm_format(response.date)
      PROVE  Larger(0, Wrap(response.responseTime - d)) \in Nat
  <2>1. Wrap(response.responseTime - d) \in Int
    BY <1>1, NumbersAssumption, WrapIsLong DEF StoredInv, Stored
  <2> QED BY <2>1 DEF Larger
<1> QED BY <1>2 DEF apparent_age

LEMMA AgeIsLong ==
  ASSUME StoredInv, ~AgeThrows(response)
  PROVE  response.age \in Int
<1>1. response.age \in Ages /\ response.age # Junk
  BY DEF StoredInv, Stored, AgeThrows
<1>2. response.age \in -LongMax - 1 .. LongMax
  BY <1>1, HeadersAssumption, Zenon
<1> QED BY <1>2, NumbersAssumption

(* While the sum fits, the code's age is what it says it is, and grows with *)
(* the time.                                                                *)
LEMMA AgeIsExact ==
  ASSUME StoredInv, ~AgeThrows(response), AgeFits(response),
         NEW a \in apparent_age(response), NEW c,
         c = Larger(a, corrected_age_value(response))
  PROVE  /\ c \in Nat /\ c >= a /\ c >= response.age
         /\ Wrap(Wrap(c + now) - response.responseTime)
              = c + now - response.responseTime
<1>1. a \in Nat
  BY ApparentAgeIsNat
<1>2. response.age \in Int
  BY AgeIsLong
<1>3. c \in Nat /\ c >= a /\ c >= response.age
  BY <1>1, <1>2 DEF Larger, corrected_age_value
<1>4. c + now <= LongMax
  BY DEF AgeFits
<1>5. now \in Nat /\ response.responseTime \in Nat /\ response.responseTime <= now
  BY NumbersAssumption DEF StoredInv, Stored
<1>6. Wrap(Wrap(c + now) - response.responseTime) = c + now - response.responseTime
  BY <1>3, <1>4, <1>5, WrapFits
<1> QED BY <1>3, <1>6

(* The age of a well-formed response is the RFC's, less what the zone may   *)
(* have taken from it.                                                      *)
LEMMA AgeIsBounded ==
  ASSUME StoredInv, WellFormed(response), AgeFits(response),
         NEW b \in calculate_age(response)
  PROVE  /\ RFCAge(response) \in Int /\ b \in Nat
         /\ b >= RFCAge(response) - Larger(0, MaxShift)
<1> DEFINE rt == response.responseTime
           date == response.date
           age == response.age
<1>1. /\ date \in Dates \ {Junk, NoHeader} /\ date \in Int
      /\ rt \in 0 .. Horizon /\ rt \in Nat
      /\ now \in Nat /\ rt <= now
  BY DateIsShifted, NumbersAssumption DEF StoredInv, Stored, WellFormed
<1>age. age \in Int
  BY AgeIsLong DEF AgeThrows, WellFormed
<1>2. PICK a \in apparent_age(response) :
        b = Wrap(Wrap(Larger(a, corrected_age_value(response)) + now) - rt)
  BY DEF calculate_age
<1> DEFINE c == Larger(a, corrected_age_value(response))
<1>3. c \in Nat /\ c >= a /\ c >= age /\ b = c + now - rt
  BY <1>2, AgeIsExact DEF WellFormed, AgeThrows
<1>4. PICK d \in to_tm_format(date) : a = Larger(0, Wrap(rt - d))
  BY DEF apparent_age
<1>5. d \in Int /\ date + MinShift <= d /\ d <= date + MaxShift
  BY <1>1, <1>4, DateIsShifted
<1>6. rt - date - MinShift <= LongMax /\ rt - date - MaxShift >= -LongMax - 1
  BY <1>1, DatesAssumption
<1>7. Wrap(rt - d) = rt - d
  BY <1>1, <1>5, <1>6, NumbersAssumption DEF Wrap
<1>8. a \in Nat /\ a >= rt - date - MaxShift
  BY <1>1, <1>4, <1>5, <1>7, NumbersAssumption DEF Larger
<1> DEFINE apparent == Larger(0, rt - date)
           initial == Larger(apparent, age)
           shift == Larger(0, MaxShift)
<1>9. apparent \in Int /\ (apparent = 0 \/ apparent = rt - date)
  BY <1>1 DEF Larger
<1>10. shift \in Nat /\ shift >= MaxShift
  BY NumbersAssumption DEF Larger
<1>11. initial \in Int /\ (initial = apparent \/ initial = age)
  BY <1>age, <1>9 DEF Larger
<1>12. RFCAge(response) = initial + (now - rt)
  BY DEF RFCAge
<1> HIDE DEF apparent, initial, shift, c
<1>13. c >= initial - shift
  BY <1>1, <1>age, <1>3, <1>8, <1>9, <1>10, <1>11, NumbersAssumption
<1>14. /\ RFCAge(response) \in Int /\ b \in Nat
       /\ b >= RFCAge(response) - shift
  BY <1>1, <1>3, <1>10, <1>11, <1>12, <1>13
<1> QED BY <1>14 DEF shift

(* So is its lifetime, if the response gives one that can be computed: two  *)
(* dates are moved apart by no more than the zone allows.                   *)
LEMMA LifetimeIsBounded ==
  ASSUME StoredInv, WellFormed(response), Explicit(response),
         Junk \notin ResponseLifetimes(response)
  PROVE  /\ RFCLifetime(response) \in Int
         /\ \A l \in ResponseLifetimes(response) :
              l \in Int /\ l <= RFCLifetime(response) + (MaxShift - MinShift)
<1> DEFINE c == response.control
<1>1. CASE Has(c, "s-maxage")
  BY <1>1, HeadersAssumption, NumbersAssumption
     DEF ResponseLifetimes, RFCLifetime, Has, StoredInv, Stored
<1>2. CASE ~Has(c, "s-maxage") /\ Has(c, "max-age")
  BY <1>2, HeadersAssumption, NumbersAssumption
     DEF ResponseLifetimes, RFCLifetime, Has, StoredInv, Stored
<1>3. CASE ~Has(c, "s-maxage") /\ ~Has(c, "max-age")
  <2>1. response.expires # NoHeader
    BY <1>3 DEF Explicit
  <2>2. response.expires \in Dates \ {Junk, NoHeader}
        /\ response.date \in Dates \ {Junk, NoHeader}
    BY <2>1 DEF StoredInv, Stored, WellFormed
  <2>3. response.expires \in Int /\ response.date \in Int
    BY <2>2, DateIsShifted
  <2>4. /\ response.expires - response.date + (MaxShift - MinShift) <= LongMax
        /\ response.expires - response.date - (MaxShift - MinShift) >= -LongMax - 1
    BY <2>2, <2>3, DatesAssumption
  <2>5. RFCLifetime(response) = response.expires - response.date
    BY <1>3, <2>1 DEF RFCLifetime
  <2>6. ASSUME NEW l \in ResponseLifetimes(response)
        PROVE  l \in Int /\ l <= RFCLifetime(response) + (MaxShift - MinShift)
    <3>1. PICK e \in to_tm_format(response.expires), d \in to_tm_format(response.date) :
            l = Wrap(e - d)
      BY <1>3 DEF ResponseLifetimes
    <3>2. e \in Int /\ response.expires + MinShift <= e /\ e <= response.expires + MaxShift
      BY <2>2, <3>1, DateIsShifted
    <3>3. d \in Int /\ response.date + MinShift <= d /\ d <= response.date + MaxShift
      BY <2>2, <3>1, DateIsShifted
    <3>4. Wrap(e - d) = e - d
      BY <2>3, <2>4, <3>2, <3>3, NumbersAssumption DEF Wrap
    <3> QED BY <2>3, <2>5, <3>1, <3>2, <3>3, <3>4, NumbersAssumption
  <2> QED BY <2>3, <2>5, <2>6
<1> QED BY <1>1, <1>2, <1>3

(* What serving implies, of the operators that decide it. *)
LEMMA ServeIsFresh ==
  ASSUME "serve" \in Outcomes(response, req)
  PROVE  /\ ~LifetimeThrows(response, req)
         /\ \E l \in calculate_freshness_lifetime(response, req) :
              \E a \in calculate_age(response) : l > a
         /\ ~Has(response.control, "no-cache") /\ ~Has(req, "no-cache")
<1>1. ~LifetimeThrows(response, req)
  BY DEF Outcomes
<1>2. PICK l \in calculate_freshness_lifetime(response, req),
           a \in calculate_age(response) :
        /\ ~response_need_validate(response, l, a)
        /\ ~request_require_validate(req)
  BY DEF Outcomes
<1>3. l > a /\ ~Has(response.control, "no-cache")
  BY <1>2 DEF response_need_validate, is_fresh
<1> QED BY <1>1, <1>2, <1>3 DEF request_require_validate

LEMMA StoredIsAcceptable == StoredInv => ServedIsAcceptable
<1> SUFFICES ASSUME StoredInv, WellFormed(response),
                    "serve" \in Outcomes(response, req)
             PROVE  /\ ~Has(response.control, "no-cache") /\ ~Has(req, "no-cache")
                    /\ LifetimeFits(response, req) /\ AgeFits(response) =>
                         RFCLifetime(response) - RFCAge(response) + ZoneError >
                           Argument(req, "min-fresh") - Argument(req, "max-stale")
  BY DEF ServedIsAcceptable
<1> DEFINE m == Argument(req, "min-fresh")
           s == Argument(req, "max-stale")
           L == RFCLifetime(response)
           A == RFCAge(response)
<1>1. ASSUME LifetimeFits(response, req), AgeFits(response)
      PROVE  L - A + ZoneError > m - s
  <2>1. ~LifetimeThrows(response, req)
    BY ServeIsFresh
  <2>2. PICK l \in calculate_freshness_lifetime(response, req),
             a \in calculate_age(response) : l > a
    BY ServeIsFresh
  <2>3. A \in Int /\ a \in Nat /\ a >= A - Larger(0, MaxShift)
    BY <1>1, AgeIsBounded
  <2>4. Explicit(response)
    BY <2>2, <2>3 DEF calculate_freshness_lifetime
  <2>5. m \in Int /\ s \in Int
    BY <2>1, <2>4, HeadersAssumption DEF LifetimeThrows, Argument, Has, StoredInv
  <2>6. PICK k \in ResponseLifetimes(response) : l = Wrap(Wrap(k - m) + s)
    BY <2>4 DEF calculate_freshness_lifetime
  <2>7. L \in Int /\ k \in Int /\ k <= L + (MaxShift - MinShift)
    BY <2>1, <2>4, <2>6, LifetimeIsBounded DEF LifetimeThrows
  <2>8. k - m + s \in -LongMax - 1 .. LongMax
    BY <1>1, <2>4, <2>6 DEF LifetimeFits
  <2>9. l = k - m + s
    BY <2>5, <2>6, <2>7, <2>8, WrapExact
  <2>10. Larger(0, MaxShift) \in Int
    BY NumbersAssumption DEF Larger
  <2> HIDE DEF m, s, L, A
  <2> QED BY <2>2, <2>3, <2>5, <2>7, <2>9, <2>10, NumbersAssumption DEF ZoneError
<1> QED BY <1>1, ServeIsFresh

(* Whatever the headers, the host's zone and the delays: what is served     *)
(* without validation is acceptable to both sides, up to the error of that  *)
(* zone, if the sums fit a long (proxy.cpp:88-111, 270-295, 387-530).       *)
THEOREM ServingIsAcceptable == Spec => []ServedIsAcceptable
  BY StoredInvariant, StoredIsAcceptable, PTL

LEMMA LifetimesAreLongs ==
  ASSUME StoredInv, ~LifetimeThrows(response, req)
  PROVE  calculate_freshness_lifetime(response, req) \subseteq Int
<1>1. CASE ~Explicit(response)
  BY <1>1 DEF calculate_freshness_lifetime
<1>2. CASE Explicit(response)
  <2> DEFINE c == response.control
  <2>1. Argument(req, "min-fresh") \in Int /\ Argument(req, "max-stale") \in Int
    BY <1>2, HeadersAssumption DEF LifetimeThrows, Argument, Has, StoredInv
  <2>2. ResponseLifetimes(response) \subseteq Int
    <3>1. CASE Has(c, "s-maxage") \/ Has(c, "max-age")
      BY <1>2, <3>1, HeadersAssumption
         DEF ResponseLifetimes, LifetimeThrows, Has, StoredInv, Stored
    <3>2. CASE ~Has(c, "s-maxage") /\ ~Has(c, "max-age")
      <4>1. to_tm_format(response.expires) \subseteq Int
            /\ to_tm_format(response.date) \subseteq Int
        BY <1>2, <3>2, TimesAreInts DEF Explicit, StoredInv, Stored
      <4>2. \A e \in to_tm_format(response.expires), d \in to_tm_format(response.date) :
              Wrap(e - d) \in Int
        BY <4>1, WrapIsLong
      <4> QED BY <3>2, <4>2 DEF ResponseLifetimes
    <3> QED BY <3>1, <3>2
  <2>3. \A l \in ResponseLifetimes(response) :
          Wrap(Wrap(l - Argument(req, "min-fresh")) + Argument(req, "max-stale"))
            \in Int
    BY <2>1, <2>2, WrapIsLong
  <2> QED BY <1>2, <2>3 DEF calculate_freshness_lifetime
<1> QED BY <1>1, <1>2

LEMMA TimeOnlyAges ==
  StoredInv /\ Next /\ req' = req /\ AgeFits(response)'
    /\ "serve" \notin Outcomes(response, req)
    => "serve" \notin Outcomes(response, req)'
<1> SUFFICES ASSUME StoredInv, Next, req' = req, AgeFits(response)',
                    "serve" \in Outcomes(response, req)'
             PROVE  "serve" \in Outcomes(response, req)
  OBVIOUS
<1>1. response' = response /\ now' \in Nat /\ now <= now'
      /\ now \in Nat /\ response.responseTime \in Nat
      /\ response.responseTime <= now
  BY NumbersAssumption DEF Next, Tick, NextRequest, StoredInv, Stored
<1>2. ~LifetimeThrows(response, req) /\ ~AgeThrows(response)
  BY <1>1 DEF Outcomes, LifetimeThrows, AgeThrows, Explicit, ResponseLifetimes
<1>3. PICK l \in calculate_freshness_lifetime(response, req),
           b \in calculate_age(response)' :
        /\ ~response_need_validate(response, l, b)
        /\ ~request_require_validate(req)
  BY <1>1 DEF Outcomes, calculate_freshness_lifetime, ResponseLifetimes, Explicit,
              response_need_validate
<1>4. PICK x \in apparent_age(response) :
        b = Wrap(Wrap(Larger(x, corrected_age_value(response)) + now')
                   - response.responseTime)
  BY <1>1 DEF calculate_age, apparent_age, corrected_age_value
<1>5. PICK c : c = Larger(x, corrected_age_value(response))
  OBVIOUS
<1> DEFINE a == Wrap(Wrap(c + now) - response.responseTime)
<1>6. a \in calculate_age(response)
  BY <1>5 DEF calculate_age
<1>7. x \in Nat /\ response.age \in Int
  BY <1>2, <1>4, ApparentAgeIsNat, AgeIsLong
<1>8. c \in Nat
  BY <1>5, <1>7 DEF Larger, corrected_age_value
<1>9. c + now' <= LongMax
  BY <1>1, <1>2, <1>5 DEF AgeFits, AgeThrows, apparent_age, corrected_age_value
<1>early. c + now <= LongMax
  BY <1>1, <1>8, <1>9, NumbersAssumption, SumGrows
<1>10. Wrap(Wrap(c + now') - response.responseTime) = c + now' - response.responseTime
  BY <1>1, <1>8, <1>9, WrapFits
<1>11. a = c + now - response.responseTime
  BY <1>1, <1>8, <1>early, WrapFits
<1>12. a <= b /\ a \in Int /\ b \in Int
  BY <1>1, <1>4, <1>5, <1>8, <1>10, <1>11
<1>13. l > b => l > a
  <2>1. l \in Int
    BY <1>2, LifetimesAreLongs
  <2> HIDE DEF a
  <2> QED BY <2>1, <1>12
<1> QED
  BY <1>2, <1>3, <1>6, <1>13 DEF Outcomes, response_need_validate, is_fresh

(* Time alone never makes a response servable that was not, as long as the  *)
(* sum of its age fits a long (proxy.cpp:270-283, 506-530).                 *)
THEOREM StalenessIsFinal == Spec => StaleForever
<1>1. StoredInv /\ [Next]_vars =>
        [req' = req /\ AgeFits(response)' /\ "serve" \notin Outcomes(response, req)
           => "serve" \notin Outcomes(response, req)']_vars
  BY TimeOnlyAges
<1> QED BY <1>1, StoredInvariant, PTL DEF Spec, StaleForever
===========================================================================
