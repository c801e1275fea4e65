---------------------------- MODULE Freshness ----------------------------
(***************************************************************************)
(* Whether a response may be stored, and whether a stored response may be  *)
(* served without asking its origin (proxy.cpp:241-307 and 387-530).       *)
(*                                                                         *)
(* A Cache-Control header is a function from the directives it holds to    *)
(* their arguments.  The code searches the header's text for a directive's *)
(* name and hands what follows it to std::stol: an argument that is not a  *)
(* number, or is not there, is Junk, and stol (or substr) throws.  A date  *)
(* that strptime rejects, "Expires: 0" or a missing Date among them, is    *)
(* Junk too: to_tm_format then reads an uninitialized struct tm, and the   *)
(* time it returns may be anything, here any of Garbage.  A date strptime  *)
(* accepts is in GMT, and mktime takes it for the host's local time, with  *)
(* or without daylight saving as the uninitialized tm_isdst says: each     *)
(* conversion is off by MinShift to MaxShift, which are 0 on a UTC host.   *)
(* Sums of longs wrap around, the age's among them.                        *)
(*                                                                         *)
(* The module lets time pass over one stored response and one request.     *)
(***************************************************************************)
EXTENDS Integers, FiniteSets

CONSTANTS
  ResponseControls, \* Cache-Control headers of responses
  RequestControls,  \* Cache-Control headers of requests
  Dates,            \* values of Expires and Date
  Ages,             \* values of the Age header: 0 if there is none, or Junk
  MinShift,         \* what mktime may be off by: the host's distance from
  MaxShift,         \*   UTC, with and without daylight saving
  Garbage,          \* what mktime makes of an uninitialized struct tm
  LongMax,          \* bound: the largest long is 2^63 - 1 in the code
  Horizon,          \* bound: time passes no further
  NoHeader, Junk

ASSUME HeadersAssumption ==
  /\ Junk \notin Int /\ NoHeader \notin Int /\ Junk # NoHeader
  /\ \A c \in ResponseControls \cup RequestControls :
       \A d \in DOMAIN c : c[d] \in Int \cup {Junk}
  /\ Dates \subseteq Int \cup {Junk, NoHeader}
  /\ Ages \subseteq -LongMax - 1 .. LongMax \cup {Junk}

\* Years have four digits: the distance between two times, as far as the
\* conversions move them, is a long.
ASSUME DatesAssumption ==
  \A d \in Dates \ {Junk, NoHeader}, e \in Dates \cup 0 .. Horizon :
    e \in Int =>
      /\ e - d + (MaxShift - MinShift) <= LongMax /\ e - d - MinShift <= LongMax
      /\ e - d - (MaxShift - MinShift) >= -LongMax - 1
      /\ e - d - MaxShift >= -LongMax - 1

ASSUME NumbersAssumption ==
  /\ Garbage \subseteq Int
  /\ LongMax \in Nat /\ Horizon \in Nat
  /\ MinShift \in Int /\ MaxShift \in Int /\ MinShift <= MaxShift

VARIABLES
  response, \* the stored response
  req,      \* the Cache-Control header of the request
  now       \* time(0)

vars == <<response, req, now>>

Has(control, directive) == directive \in DOMAIN control

\* The sum or difference of two longs, if signed overflow wraps around (the
\* language does not define it).
Wrap(x) ==
  CASE x > LongMax -> x - 2 * (LongMax + 1)
    [] x < -LongMax - 1 -> x + 2 * (LongMax + 1)
    [] OTHER -> x

to_tm_format(date) ==
  IF date \in {Junk, NoHeader} THEN Garbage
  ELSE {date + shift : shift \in MinShift .. MaxShift}

Larger(a, b) == IF a > b THEN a ELSE b

---------------------------------------------------------------------------
(* Storing *)

response_may_store(r) ==
  /\ r.statusCode = 200
  /\ ~Has(r.control, "no-store") /\ ~Has(r.control, "private")
  /\ r.control # <<>> \/ r.expires # NoHeader \/ r.validators

request_no_store(q) == Has(q, "no-store")

---------------------------------------------------------------------------
(* Serving *)

Explicit(r) ==
  Has(r.control, "s-maxage") \/ Has(r.control, "max-age") \/ r.expires # NoHeader

\* The lifetimes calculate_freshness_lifetime may begin with: more than one
\* only if a date is not one.
ResponseLifetimes(r) ==
  CASE Has(r.control, "s-maxage") -> {r.control["s-maxage"]}
    [] ~Has(r.control, "s-maxage") /\ Has(r.control, "max-age") ->
         {r.control["max-age"]}
    [] OTHER ->
         {Wrap(e - d) : e \in to_tm_format(r.expires), d \in to_tm_format(r.date)}

Argument(q, directive) == IF Has(q, directive) THEN q[directive] ELSE 0

\* The argument of s-maxage, of max-age, or of what the request asks for; the
\* request's is not looked at if the response has no explicit lifetime.
LifetimeThrows(r, q) ==
  /\ Explicit(r)
  /\ \/ Junk \in ResponseLifetimes(r)
     \/ Junk \in {Argument(q, "min-fresh"), Argument(q, "max-stale")}

\* std::stol on the argument of Age.
AgeThrows(r) == r.age = Junk

BugFreshnessLifetime(r, q) ==
  IF ~Explicit(r) THEN {0}
  ELSE {Wrap(Wrap(l + Argument(q, "min-fresh")) + Argument(q, "max-stale"))
          : l \in ResponseLifetimes(r)}

calculate_freshness_lifetime(r, q) ==
  IF ~Explicit(r) THEN {0}
  ELSE {Wrap(Wrap(l - Argument(q, "min-fresh")) + Argument(q, "max-stale"))
          : l \in ResponseLifetimes(r)}

apparent_age(r) ==
  {Larger(0, Wrap(r.responseTime - d)) : d \in to_tm_format(r.date)}

corrected_age_value(r) == r.age

BugCalculateAge(r) ==
  {Wrap(Wrap(Larger(a, corrected_age_value(r)) + r.responseTime) - now)
     : a \in apparent_age(r)}

calculate_age(r) ==
  {Wrap(Wrap(Larger(a, corrected_age_value(r)) + now) - r.responseTime)
     : a \in apparent_age(r)}

is_fresh(lifetime, current_age) == lifetime > current_age

response_need_validate(r, lifetime, current_age) ==
  ~is_fresh(lifetime, current_age) \/ Has(r.control, "no-cache")

request_require_validate(q) == Has(q, "no-cache")

\* What http_get may do with a hit.
Outcomes(r, q) ==
  IF LifetimeThrows(r, q) \/ AgeThrows(r) THEN {"error"}
  ELSE {IF response_need_validate(r, l, a) \/ request_require_validate(q)
        THEN "validate" ELSE "serve"
          : l \in calculate_freshness_lifetime(r, q), a \in calculate_age(r)}

---------------------------------------------------------------------------
\* A response that the proxy has stored just now.
Init ==
  /\ now \in 0 .. Horizon
  /\ \E c \in ResponseControls, e \in Dates, d \in Dates \ {NoHeader},
        a \in Ages, v \in BOOLEAN :
       response = [statusCode |-> 200, control |-> c, expires |-> e, date |-> d,
                   age |-> a, validators |-> v, responseTime |-> now]
  /\ response_may_store(response)
  /\ req \in RequestControls

Tick ==
  /\ now < Horizon
  /\ now' = now + 1
  /\ UNCHANGED <<response, req>>

\* Another request for the same URI.
NextRequest ==
  /\ req' \in RequestControls
  /\ UNCHANGED <<response, now>>

Next == Tick \/ NextRequest

Spec == Init /\ [][Next]_vars
---------------------------------------------------------------------------
(* Properties *)

WellFormed(r) == Junk \notin {r.date, r.expires, r.age}

\* The sums of calculate_freshness_lifetime fit a long.
LifetimeFits(r, q) ==
  Explicit(r) => \A l \in ResponseLifetimes(r) :
    l - Argument(q, "min-fresh") + Argument(q, "max-stale")
      \in -LongMax - 1 .. LongMax

\* So does the first sum of calculate_age; an Age of the largest long does not
\* leave it room.
AgeFits(r) ==
  ~AgeThrows(r) => \A a \in apparent_age(r) : Larger(a, corrected_age_value(r)) + now <= LongMax

\* RFC 7234 4.2.1, for a shared cache.
RFCLifetime(r) ==
  LET c == r.control
  IN  CASE Has(c, "s-maxage") -> c["s-maxage"]
        [] ~Has(c, "s-maxage") /\ Has(c, "max-age") -> c["max-age"]
        [] OTHER -> IF r.expires = NoHeader THEN 0 ELSE r.expires - r.date

\* RFC 7234 4.2.3, without the response delay.
RFCAge(r) ==
  Larger(Larger(0, r.responseTime - r.date), r.age) + (now - r.responseTime)

\* How much too fresh local time can make a response look: a Date that is
\* moved ahead takes from its age, and an Expires that is moved further ahead
\* than Date adds to its lifetime.
ZoneError == Larger(0, MaxShift) + (MaxShift - MinShift)

(***************************************************************************)
(* What is served without validation is acceptable, up to the error of the *)
(* host's zone (none on a UTC host): neither side demands validation; the  *)
(* response is fresh, or not more stale than the client allows, and fresh  *)
(* for as long as it demands (proxy.cpp:88-111 and 396-530).  Left out are *)
(* must-revalidate, which the code does not know, and numbers so large     *)
(* that a sum of longs overflows, in the lifetime or in the age.           *)
(***************************************************************************)
ServedIsAcceptable ==
  LET left == RFCLifetime(response) - RFCAge(response)
  IN  /\ WellFormed(response)
      /\ "serve" \in Outcomes(response, req)
      => /\ ~Has(response.control, "no-cache") /\ ~Has(req, "no-cache")
         /\ LifetimeFits(response, req) /\ AgeFits(response) =>
              left + ZoneError
                > Argument(req, "min-fresh") - Argument(req, "max-stale")

(***************************************************************************)
(* A response that needs validation for a request goes on needing it until *)
(* something is stored or freshened, for as long as the sum of its age     *)
(* fits a long: time alone never makes it fresh, nor makes a lifetime      *)
(* computable that was not (proxy.cpp:270-283, 506-530).                   *)
(***************************************************************************)
StaleForever ==
  [][/\ req' = req /\ AgeFits(response)'
     /\ "serve" \notin Outcomes(response, req)
     => "serve" \notin Outcomes(response, req)']_vars

===========================================================================
