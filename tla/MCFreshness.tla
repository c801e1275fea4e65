--------------------------- MODULE MCFreshness ---------------------------
(* Small instances of Freshness for TLC. *)
EXTENDS Freshness, TLC

Header(directives, args) == [directives -> args]

\* Headers with some of the directives, any of the arguments.
Headers(directives, args) == UNION {Header(s, args) : s \in SUBSET directives}

MCResponseControls ==
  Headers({"s-maxage", "max-age"}, {0, 2, LongMax, Junk})
    \cup Header({"no-cache"}, {0}) \cup Header({"no-cache", "max-age"}, {2})

MCRequestControls ==
  Headers({"min-fresh", "max-stale"}, {1, LongMax, Junk})
    \cup Header({"no-cache"}, {0})

MCDates == {0, 1, 3, Junk, NoHeader}
MCGarbage == {-8, 0, 7}
MCAges == {-1, 0, 2, LongMax, Junk}
===========================================================================
