------------------------- MODULE MCAdBlockMatcher -------------------------
(***************************************************************************)
(* Three files, one per list type, and two matchers, filled from two files *)
(* in all.  With two rules to a matcher, the black and the bypass file     *)
(* cross the limit between two rules about the same domain, the white one  *)
(* after two patterns.  The page is on all three lists; the early question *)
(* is for its host only.                                                   *)
(***************************************************************************)
EXTENDS AdBlockMatcher

CONSTANTS page, early, local,       \* the three requests
          ads, adsSite, adsNot,     \* a pattern, a domain, an exception for it
          good, other, garbage,     \* patterns of the white list, an unparsable line
          site

MCRequest == {page, early, local}
MCEarly == {early, local}
MCRule == {ads, adsSite, adsNot, good, other, garbage}
MCDomainOf == [rule \in MCRule |-> IF rule \in {adsSite, adsNot} THEN site ELSE NoDomain]
MCAccepts == [r \in MCRequest |-> IF r = page THEN {ads, good} ELSE {good}]
MCHostSuffixes == [r \in MCRequest |-> <<site>>]

MCFile == {"black", "white", "bypass"}
MCLines == [black |-> <<ads, adsSite, garbage, adsNot>>,
            white |-> <<other, other, good>>,
            bypass |-> <<adsNot, ads, adsSite>>]
MCIdOf == [f \in MCFile |-> f]
MCListOf == [black |-> "Blacklist", white |-> "Whitelist", bypass |-> "BypassList"]
=============================================================================
