----------------------- MODULE AdBlockMatcherProofs -----------------------
(***************************************************************************)
(* Proofs about AdBlockMatcher, for any rule files, limits and requests.   *)
(***************************************************************************)
EXTENDS AdBlockMatcher, SequenceTheorems, WellFoundedInduction, TLAPS

\* Counting on by one leaves a multiple of the limit, or one more in the count
\* since the last multiple.
LEMMA ModStep ==
  ASSUME NEW n \in Nat, NEW k \in Nat \ {0}
  PROVE  /\ n % k \in 0..(k - 1)
         /\ (n + 1) % k = 0 \/ (n + 1) % k = (n % k) + 1
  OBVIOUS

LEMMA ModStepOfLimit ==
  ASSUME NEW n \in Nat
  PROVE  LET k == n % MaxRulesPerMatcher
             next == (n + 1) % MaxRulesPerMatcher
         IN  /\ k \in Nat /\ k < MaxRulesPerMatcher
             /\ next = 0 \/ next = k + 1
<1>1. MaxRulesPerMatcher \in Nat \ {0}
  BY ConstantsOK
<1>2. /\ n % MaxRulesPerMatcher \in 0..(MaxRulesPerMatcher - 1)
      /\ \/ (n + 1) % MaxRulesPerMatcher = 0
         \/ (n + 1) % MaxRulesPerMatcher = (n % MaxRulesPerMatcher) + 1
  BY <1>1, ModStep
<1> QED
  BY <1>1, <1>2

\* A set of natural numbers that is not empty has a least element.
LEMMA LeastOfNaturals ==
  ASSUME NEW S \in SUBSET Nat, S # {}
  PROVE  \E i \in S : \A j \in S : i <= j
<1> DEFINE R == OpToRel(<, Nat)
<1>1. \A i \in S : \A j \in S : i \in Nat /\ j \in Nat /\ (<<i, j>> \in R <=> i < j)
  BY DEF OpToRel
<1>2. IsWellFoundedOn(R, Nat)
  BY NatLessThanWellFounded
<1> HIDE DEF R
<1>3. PICK i \in S : \A j \in S : ~(<<j, i>> \in R)
  BY <1>2, WFMin
<1>4. ASSUME NEW j \in S
      PROVE  i <= j
  <2>1. i \in Nat /\ j \in Nat /\ (<<j, i>> \in R <=> j < i)
    BY <1>1
  <2>2. <<j, i>> \notin R
    BY <1>3
  <2> QED
    BY <2>1, <2>2
<1> QED
  BY <1>4

-----------------------------------------------------------------------------
(* One matcher.                                                            *)

\* A category of matchers within the limit, and lists of such categories.
Sized(m) ==
  \A s \in Sections : \A i \in DOMAIN m.cats[s] : \A k \in DOMAIN m.cats[s][i].matchers :
    Len(m.cats[s][i].matchers[k]) <= MaxRulesPerMatcher

LastRules(m) ==
  LET c == m.cats[m.last[1]][m.last[2]] IN c.matchers[Len(c.matchers)]

\* lastMatcher is about to be replaced, or holds no more rules than were counted
\* since the last multiple of the limit.
Room(m) == Full(m) \/ Len(LastRules(m)) <= m.rules % MaxRulesPerMatcher

\* What AddRule relies on and leaves behind.
Filling(m) == m \in Matcher /\ Sized(m) /\ LastExists(m) /\ Room(m)

LEMMA NewCategoryType ==
  ASSUME NEW id \in CategoryId
  PROVE  NewCategory(id) \in Category
BY ConstantsOK DEF NewCategory, Category

LEMMA EmptyMatcherFine ==
  ASSUME NEW b \in BOOLEAN
  PROVE  EmptyMatcher(b) \in Matcher /\ Sized(EmptyMatcher(b))
<1>1. EmptyMatcher(b) \in Matcher
  BY DEF EmptyMatcher, Matcher, Sections
<1>2. Sized(EmptyMatcher(b))
  BY DEF EmptyMatcher, Sized
<1> QED
  BY <1>1, <1>2

\* The parts of a matcher.
LEMMA MatcherParts ==
  ASSUME NEW m \in Matcher
  PROVE  /\ \A s \in Sections : m.cats[s] \in Seq(Category)
         /\ m.last[1] \in Sections /\ m.last[2] \in Nat
         /\ m.rules \in Nat
         /\ m.bypassOn \in BOOLEAN
         /\ \A id \in CategoryId : m.fed[id] \in Seq(Rule)
BY DEF Matcher

\* One category is replaced.
Edits(m, n, s, i, c) ==
  \A t \in Sections :
    /\ Len(n.cats[t]) = Len(m.cats[t])
    /\ \A j \in 1..Len(m.cats[t]) :
         n.cats[t][j] = IF t = s /\ j = i THEN c ELSE m.cats[t][j]

\* Replacing one category, or adding one, gives a matcher again.
LEMMA ReplacedCategory ==
  ASSUME NEW m \in Matcher, NEW s \in Sections, NEW i \in DOMAIN m.cats[s],
         NEW c \in Category, Sized(m),
         \A k \in DOMAIN c.matchers : Len(c.matchers[k]) <= MaxRulesPerMatcher
  PROVE  LET n == WithCategory(m, s, i, c)
         IN  /\ n \in Matcher /\ Sized(n)
             /\ n.rules = m.rules /\ n.bypassOn = m.bypassOn /\ n.fed = m.fed
             /\ n.last = <<s, i>> /\ i \in DOMAIN n.cats[s] /\ n.cats[s][i] = c
             /\ Edits(m, n, s, i, c)
<1> DEFINE n == WithCategory(m, s, i, c)
           cats == [m.cats EXCEPT ![s] = [m.cats[s] EXCEPT ![i] = c]]
           pos == <<s, i>>
<1>1. m.cats \in [Sections -> Seq(Category)]
  BY DEF Matcher
<1>2. n = [m EXCEPT !.cats = cats, !.last = pos]
  BY DEF WithCategory
<1>3. /\ [m.cats[s] EXCEPT ![i] = c] \in Seq(Category)
      /\ DOMAIN [m.cats[s] EXCEPT ![i] = c] = DOMAIN m.cats[s]
  BY <1>1
<1>4. i \in Nat
  BY <1>1
<1>5. cats \in [Sections -> Seq(Category)] /\ pos \in Sections \X Nat
  BY <1>1, <1>3, <1>4
<1> HIDE DEF n, cats, pos
<1>6. /\ n \in Matcher
      /\ n.cats = cats /\ n.last = pos /\ n.rules = m.rules
      /\ n.bypassOn = m.bypassOn /\ n.fed = m.fed
  BY <1>2, <1>5 DEF Matcher
<1>7. /\ n.cats[s] = [m.cats[s] EXCEPT ![i] = c]
      /\ \A t \in Sections : t # s => n.cats[t] = m.cats[t]
  BY <1>1, <1>6 DEF cats
<1>8. Sized(n)
  BY <1>3, <1>7 DEF Sized
<1>9. Edits(m, n, s, i, c)
  BY <1>1, <1>7 DEF Edits
<1> QED
  BY <1>3, <1>6, <1>7, <1>8, <1>9 DEF n, pos

LEMMA AddedCategory ==
  ASSUME NEW m \in Matcher, NEW id \in CategoryId, Sized(m)
  PROVE  LET n == NewLastCategory(m, id)
         IN  /\ n \in Matcher /\ Sized(n)
             /\ n.rules = m.rules /\ n.bypassOn = m.bypassOn /\ n.fed = m.fed
             /\ LastExists(n) /\ LastRules(n) = << >>
             /\ n.last = <<Section(ListOf[id]), Len(m.cats[Section(ListOf[id])]) + 1>>
             /\ \A t \in Sections :
                  n.cats[t] = IF t = Section(ListOf[id]) THEN Append(m.cats[t], NewCategory(id))
                                                         ELSE m.cats[t]
<1> DEFINE n == NewLastCategory(m, id)
           s == Section(ListOf[id])
           new == Append(m.cats[s], NewCategory(id))
           at == Len(m.cats[s]) + 1
           cats == [m.cats EXCEPT ![s] = new]
           pos == <<s, at>>
<1>1. m.cats \in [Sections -> Seq(Category)]
  BY DEF Matcher
<1>2. s \in Sections
  BY DEF Section, Sections
<1>3. n = [m EXCEPT !.cats = cats, !.last = pos]
  BY DEF NewLastCategory
<1>4. /\ new \in Seq(Category) /\ DOMAIN new = 1..at /\ at \in Nat \ {0}
      /\ new[at] = NewCategory(id)
      /\ \A i \in DOMAIN new : i # at => i \in DOMAIN m.cats[s] /\ new[i] = m.cats[s][i]
  BY <1>1, <1>2, NewCategoryType
<1>5. cats \in [Sections -> Seq(Category)] /\ pos \in Sections \X Nat
  BY <1>1, <1>2, <1>4
<1> HIDE DEF n, s, new, at, cats, pos
<1>6. /\ n \in Matcher
      /\ n.cats = cats /\ n.last = pos /\ n.rules = m.rules
      /\ n.bypassOn = m.bypassOn /\ n.fed = m.fed
  BY <1>3, <1>5 DEF Matcher
<1>7. /\ n.cats[s] = new
      /\ \A t \in Sections : t # s => n.cats[t] = m.cats[t]
  BY <1>1, <1>2, <1>6 DEF cats
<1>8. NewCategory(id).matchers = << << >> >>
  BY DEF NewCategory
<1>9. Sized(n)
  <2> SUFFICES ASSUME NEW t \in Sections, NEW i \in DOMAIN n.cats[t],
                      NEW k \in DOMAIN n.cats[t][i].matchers
               PROVE  Len(n.cats[t][i].matchers[k]) <= MaxRulesPerMatcher
    BY DEF Sized
  <2>1. CASE t = s /\ i = at
    <3>1. n.cats[t][i].matchers = << << >> >>
      BY <2>1, <1>4, <1>7, <1>8
    <3>2. n.cats[t][i].matchers[k] = << >>
      BY <3>1
    <3> QED
      BY <3>2, ConstantsOK
  <2>2. CASE ~(t = s /\ i = at)
    BY <2>2, <1>4, <1>7 DEF Sized
  <2> QED
    BY <2>1, <2>2
<1>10. LastExists(n) /\ LastRules(n) = << >>
  <2>1. /\ n.last[1] = s /\ n.last[2] = at
        /\ n.cats[s][at].matchers = << << >> >>
    BY <1>4, <1>6, <1>7, <1>8 DEF pos
  <2>2. Len(n.cats[s][at].matchers) = 1
    BY <2>1
  <2>3. at \in DOMAIN n.cats[s]
    BY <1>4, <1>7
  <2>4. n.cats[s][at].matchers # << >> /\ n.cats[s][at].matchers[1] = << >>
    BY <2>1
  <2> QED
    BY <2>1, <2>2, <2>3, <2>4 DEF LastExists, LastRules
<1> QED
  BY <1>6, <1>7, <1>9, <1>10 DEF n, s, new, at, pos

\* One more matcher in a category.
LEMMA GrownCategory ==
  ASSUME NEW c \in Category,
         \A k \in DOMAIN c.matchers : Len(c.matchers[k]) <= MaxRulesPerMatcher
  PROVE  LET n == [c EXCEPT !.matchers = Append(@, << >>)]
         IN  /\ n \in Category
             /\ n.matchers # << >> /\ n.matchers[Len(n.matchers)] = << >>
             /\ \A k \in DOMAIN n.matchers : Len(n.matchers[k]) <= MaxRulesPerMatcher
<1> DEFINE old == c.matchers
           new == Append(old, << >>)
           n == [c EXCEPT !.matchers = new]
<1>1. old \in Seq(Seq(Rule))
  BY DEF Category
<1> HIDE DEF old
<1>2. << >> \in Seq(Rule) /\ Len(<< >>) <= MaxRulesPerMatcher
  BY ConstantsOK
<1>3. /\ new \in Seq(Seq(Rule)) /\ DOMAIN new = 1..(Len(old) + 1)
      /\ new # << >> /\ new[Len(new)] = << >>
      /\ \A k \in DOMAIN new : new[k] = << >> \/ (k \in DOMAIN old /\ new[k] = old[k])
  BY <1>1, <1>2
<1>4. \A k \in DOMAIN new : Len(new[k]) <= MaxRulesPerMatcher
  BY <1>2, <1>3 DEF old
<1> HIDE DEF new
<1>5. n \in Category /\ n.matchers = new
  BY <1>3 DEF Category
<1> QED
  BY <1>3, <1>4, <1>5 DEF new, old

\* addMatcher: there is a last matcher, it is empty, and no rule was counted.
LEMMA AddMatcherFills ==
  ASSUME NEW m \in Matcher, NEW id \in CategoryId, Sized(m)
  PROVE  /\ Filling(AddMatcher(m, id)) /\ LastRules(AddMatcher(m, id)) = << >>
         /\ AddMatcher(m, id).rules = m.rules /\ AddMatcher(m, id).bypassOn = m.bypassOn
<1> DEFINE ordinary == m.cats["ordinary"]
           found == {i \in DOMAIN ordinary : ordinary[i].id = id}
           at == CHOOSE i \in found : \A j \in found : i <= j
           n == AddMatcher(m, id)
<1>1. ordinary \in Seq(Category) /\ m.rules \in Nat
  BY DEF Matcher, Sections
<1>2. /\ n \in Matcher /\ Sized(n) /\ LastExists(n)
      /\ LastRules(n) = << >> /\ n.rules = m.rules /\ n.bypassOn = m.bypassOn
  <2>1. CASE found = {}
    BY <2>1, AddedCategory DEF AddMatcher
  <2>2. CASE found # {}
    <3>1. at \in found
      <4>1. found \in SUBSET Nat
        BY <1>1
      <4> QED
        BY <2>2, <4>1, LeastOfNaturals
    <3> DEFINE old == ordinary[at]
               c == [old EXCEPT !.matchers = Append(@, << >>)]
    <3>2. n = WithCategory(m, "ordinary", at, c)
      BY <2>2 DEF AddMatcher
    <3>3. at \in DOMAIN m.cats["ordinary"] /\ "ordinary" \in Sections
      BY <3>1 DEF Sections
    <3> HIDE DEF at
    <3>4. old \in Category
      BY <1>1, <3>3
    <3>5. \A k \in DOMAIN old.matchers : Len(old.matchers[k]) <= MaxRulesPerMatcher
      BY <3>3 DEF Sized
    <3> HIDE DEF old
    <3>6. /\ c \in Category
          /\ c.matchers # << >> /\ c.matchers[Len(c.matchers)] = << >>
          /\ \A k \in DOMAIN c.matchers : Len(c.matchers[k]) <= MaxRulesPerMatcher
      BY <3>4, <3>5, GrownCategory
    <3> HIDE DEF c, n
    <3>7. /\ n \in Matcher /\ Sized(n) /\ n.rules = m.rules /\ n.bypassOn = m.bypassOn
          /\ n.last = <<"ordinary", at>>
          /\ at \in DOMAIN n.cats["ordinary"] /\ n.cats["ordinary"][at] = c
      BY <3>2, <3>3, <3>6, ReplacedCategory
    <3> QED
      BY <3>6, <3>7 DEF LastExists, LastRules
  <2> QED
    BY <2>1, <2>2
<1> HIDE DEF n
<1>3. Room(n)
  BY <1>1, <1>2, ModStepOfLimit DEF Room
<1> QED
  BY <1>2, <1>3 DEF Filling, n

\* What it does to the categories.
LEMMA AddMatcherEffect ==
  ASSUME NEW m \in Matcher, NEW id \in CategoryId, Sized(m)
  PROVE  LET n == AddMatcher(m, id)
             s == Section(ListOf[id])
         IN  /\ n.fed = m.fed
             /\ \/ /\ \A i \in 1..Len(m.cats["ordinary"]) : m.cats["ordinary"][i].id # id
                   /\ n.last = <<s, Len(m.cats[s]) + 1>>
                   /\ \A t \in Sections :
                        n.cats[t] = IF t = s THEN Append(m.cats[t], NewCategory(id)) ELSE m.cats[t]
                \/ \E at \in 1..Len(m.cats["ordinary"]) :
                     LET old == m.cats["ordinary"][at]
                         grown == [old EXCEPT !.matchers = Append(old.matchers, << >>)]
                     IN  /\ old \in Category /\ old.id = id /\ grown \in Category
                         /\ n.last = <<"ordinary", at>>
                         /\ Edits(m, n, "ordinary", at, grown)
<1> DEFINE ordinary == m.cats["ordinary"]
           found == {i \in DOMAIN ordinary : ordinary[i].id = id}
           at == CHOOSE i \in found : \A j \in found : i <= j
           n == AddMatcher(m, id)
<1>1. ordinary \in Seq(Category) /\ DOMAIN ordinary = 1..Len(ordinary)
  BY DEF Matcher, Sections
<1>2. CASE found = {}
  <2>1. n = NewLastCategory(m, id)
    BY <1>2 DEF AddMatcher
  <2>2. \A i \in 1..Len(ordinary) : ordinary[i].id # id
    BY <1>1, <1>2
  <2> HIDE DEF n
  <2> QED
    BY <2>1, <2>2, AddedCategory DEF n
<1>3. CASE found # {}
  <2>1. at \in found
    <3>1. found \in SUBSET Nat
      BY <1>1
    <3> QED
      BY <1>3, <3>1, LeastOfNaturals
  <2> DEFINE old == ordinary[at]
             c == [old EXCEPT !.matchers = Append(old.matchers, << >>)]
  <2>2. n = WithCategory(m, "ordinary", at, c)
    BY <1>3 DEF AddMatcher
  <2>3. at \in DOMAIN m.cats["ordinary"] /\ "ordinary" \in Sections /\ old.id = id
    BY <2>1 DEF Sections
  <2> HIDE DEF at
  <2>4. old \in Category
    BY <1>1, <2>3
  <2>5. \A k \in DOMAIN old.matchers : Len(old.matchers[k]) <= MaxRulesPerMatcher
    BY <2>3 DEF Sized
  <2> HIDE DEF old
  <2>6. c \in Category /\ \A k \in DOMAIN c.matchers : Len(c.matchers[k]) <= MaxRulesPerMatcher
    BY <2>4, <2>5, GrownCategory
  <2> HIDE DEF c, n
  <2>7. n.fed = m.fed /\ n.last = <<"ordinary", at>> /\ Edits(m, n, "ordinary", at, c)
    BY <2>2, <2>3, <2>6, ReplacedCategory
  <2> QED
    BY <1>1, <2>3, <2>4, <2>6, <2>7 DEF c, old, n
<1> QED
  BY <1>2, <1>3

\* One more rule in the last matcher, or among the domains, of a category.
LEMMA PutRuleGrows ==
  ASSUME NEW c \in Category, c.matchers # << >>, NEW rule \in Rule,
         NEW k \in Nat, k < MaxRulesPerMatcher,
         Len(c.matchers[Len(c.matchers)]) <= k,
         \A j \in DOMAIN c.matchers : Len(c.matchers[j]) <= MaxRulesPerMatcher
  PROVE  LET n == PutRule(c, rule)
         IN  /\ n \in Category
             /\ n.matchers # << >> /\ Len(n.matchers[Len(n.matchers)]) <= k + 1
             /\ \A j \in DOMAIN n.matchers : Len(n.matchers[j]) <= MaxRulesPerMatcher
<1> DEFINE old == c.matchers
           n == PutRule(c, rule)
<1>1. old \in Seq(Seq(Rule)) /\ c.blocked \in [Domain -> {"absent", "included", "excluded"}]
  BY DEF Category
<1>2. CASE IsDomainRule(rule)
  <2> DEFINE new == [c.blocked EXCEPT ![DomainOf[rule]] = Type(rule)]
  <2>1. new \in [Domain -> {"absent", "included", "excluded"}]
    BY <1>1 DEF Type
  <2>2. n = [c EXCEPT !.blocked = new]
    BY <1>2 DEF PutRule
  <2> HIDE DEF new, n
  <2>3. n \in Category /\ n.matchers = c.matchers
    BY <2>1, <2>2 DEF Category
  <2>4. Len(c.matchers[Len(c.matchers)]) <= k + 1
    <3>1. c.matchers[Len(c.matchers)] \in Seq(Rule)
      BY <1>1
    <3> QED
      BY <3>1
  <2> QED
    BY <2>3, <2>4 DEF n
<1>3. CASE ~IsDomainRule(rule)
  <2> DEFINE at == Len(old)
             grown == Append(old[at], rule)
             new == [old EXCEPT ![at] = grown]
  <2>1. n = [c EXCEPT !.matchers = new]
    BY <1>3 DEF PutRule
  <2>2. at \in DOMAIN old /\ old[at] \in Seq(Rule)
    BY <1>1
  <2>3. grown \in Seq(Rule) /\ Len(grown) = Len(old[at]) + 1 /\ Len(old[at]) \in Nat
    BY <2>2
  <2>4. Len(grown) <= k + 1 /\ Len(grown) <= MaxRulesPerMatcher
    BY <2>3, ConstantsOK
  <2> HIDE DEF grown, old
  <2>5. /\ new \in Seq(Seq(Rule)) /\ Len(new) = at /\ new # << >>
        /\ new[Len(new)] = grown
        /\ \A j \in DOMAIN new : new[j] = grown \/ (j \in DOMAIN old /\ new[j] = old[j])
    BY <1>1, <2>2, <2>3
  <2> HIDE DEF new, n
  <2>6. n \in Category /\ n.matchers = new
    BY <2>1, <2>5 DEF Category
  <2> QED
    BY <2>4, <2>5, <2>6 DEF n, old
<1> QED
  BY <1>2, <1>3

\* n is p with one more rule, in its last category.
Puts(p, n, id, rule) ==
  LET s == p.last[1]
      i == p.last[2]
  IN  /\ Filling(p) /\ s \in Sections /\ i \in 1..Len(p.cats[s])
      /\ n.last = p.last
      /\ Edits(p, n, s, i, PutRule(p.cats[s][i], rule))
      /\ n.fed = [p.fed EXCEPT ![id] = Append(p.fed[id], rule)]

\* AddRule keeps the limit, and leaves room for the next rule or a full count.
LEMMA AddRuleFills ==
  ASSUME NEW m, Filling(m), NEW id \in CategoryId, NEW rule \in Rule
  PROVE  /\ Filling(AddRule(m, id, rule)) /\ AddRule(m, id, rule).bypassOn = m.bypassOn
         /\ IF rule \in Broken THEN AddRule(m, id, rule) = m
            ELSE \E p \in {m, AddMatcher(m, id)} : Puts(p, AddRule(m, id, rule), id, rule)
<1> DEFINE p == IF Full(m) THEN AddMatcher(m, id) ELSE m
           s == p.last[1]
           i == p.last[2]
           c == PutRule(p.cats[s][i], rule)
           w == WithCategory(p, s, i, c)
           k == p.rules % MaxRulesPerMatcher
           n == IntoLast(p, id, rule)
<1>1. CASE rule \in Broken
  BY <1>1 DEF AddRule
<1>2. CASE rule \notin Broken
  <2>1. Filling(p) /\ Len(LastRules(p)) <= k /\ p.bypassOn = m.bypassOn
    <3>1. CASE Full(m)
      <4>1. Filling(p) /\ LastRules(p) = << >> /\ p.bypassOn = m.bypassOn
        BY <3>1, AddMatcherFills DEF Filling
      <4>2. k \in Nat
        BY <4>1, ModStepOfLimit, MatcherParts DEF Filling
      <4> QED
        BY <4>1, <4>2
    <3>2. CASE ~Full(m)
      BY <3>2 DEF Filling, Room
    <3> QED
      BY <3>1, <3>2
  <2> HIDE DEF p
  <2>2. /\ p \in Matcher /\ s \in Sections /\ i \in DOMAIN p.cats[s]
        /\ p.cats[s] \in Seq(Category) /\ p.rules \in Nat
    BY <2>1 DEF Filling, LastExists, Matcher
  <2>3. p.cats[s][i] \in Category /\ p.cats[s][i].matchers # << >>
    BY <2>1, <2>2 DEF Filling, LastExists
  <2>4. k \in Nat /\ k < MaxRulesPerMatcher
    BY <2>2, ModStepOfLimit
  <2>5. /\ c \in Category
        /\ c.matchers # << >> /\ Len(c.matchers[Len(c.matchers)]) <= k + 1
        /\ \A j \in DOMAIN c.matchers : Len(c.matchers[j]) <= MaxRulesPerMatcher
    BY <2>1, <2>2, <2>3, <2>4, PutRuleGrows DEF Filling, Sized, LastRules
  <2> DEFINE fed == [w.fed EXCEPT ![id] = Append(w.fed[id], rule)]
  <2>6. n = [w EXCEPT !.rules = w.rules + 1, !.fed = fed]
    BY DEF IntoLast
  <2> HIDE DEF c, s, i
  <2>7. /\ w \in Matcher /\ Sized(w) /\ w.rules = p.rules /\ w.bypassOn = p.bypassOn
        /\ w.last = <<s, i>> /\ i \in DOMAIN w.cats[s] /\ w.cats[s][i] = c
        /\ w.fed = p.fed /\ Edits(p, w, s, i, c)
    BY <2>1, <2>2, <2>5, ReplacedCategory DEF Filling
  <2> HIDE DEF w
  <2>7a. fed \in [CategoryId -> Seq(Rule)]
    BY <2>7 DEF Matcher
  <2> HIDE DEF fed, n
  <2>8. /\ n \in Matcher /\ n.cats = w.cats /\ n.last = w.last /\ n.rules = p.rules + 1
        /\ n.bypassOn = p.bypassOn /\ n.fed = fed
    <3>1. w \in Matcher /\ w.rules + 1 \in Nat /\ w.rules + 1 = p.rules + 1
      BY <2>2, <2>7
    <3> DEFINE next == w.rules + 1
    <3> HIDE DEF next
    <3>2. n = [w EXCEPT !.rules = next, !.fed = fed] /\ next \in Nat /\ next = p.rules + 1
      BY <2>6, <3>1 DEF next
    <3> QED
      BY <2>7, <2>7a, <3>1, <3>2 DEF Matcher
  <2>9. Sized(n) /\ LastExists(n) /\ Len(LastRules(n)) <= k + 1
    BY <2>5, <2>7, <2>8 DEF Sized, LastExists, LastRules
  <2>10. Room(n)
    <3>1. /\ n.rules = p.rules + 1 /\ p.rules \in Nat
          /\ Len(LastRules(n)) <= (p.rules % MaxRulesPerMatcher) + 1
      BY <2>2, <2>8, <2>9
    <3>2. \/ n.rules % MaxRulesPerMatcher = 0
          \/ n.rules % MaxRulesPerMatcher = (p.rules % MaxRulesPerMatcher) + 1
      BY <3>1, ModStepOfLimit
    <3>3. n.rules > 0
      BY <3>1
    <3> QED
      BY <3>1, <3>2, <3>3 DEF Room, Full
  <2>11. AddRule(m, id, rule) = n
    BY <1>2 DEF AddRule, n, p
  <2>12. Puts(p, n, id, rule)
    <3>1. Edits(p, n, s, i, c)
      BY <2>7, <2>8 DEF Edits
    <3>2. n.last = p.last /\ n.fed = [p.fed EXCEPT ![id] = Append(p.fed[id], rule)]
      <4>1. p.last = <<p.last[1], p.last[2]>>
        BY <2>2 DEF Matcher
      <4> QED
        BY <2>7, <2>8, <4>1 DEF s, i, fed
    <3>3. i \in 1..Len(p.cats[s])
      BY <2>2
    <3> QED
      BY <2>1, <2>2, <3>1, <3>2, <3>3 DEF Puts, s, i, c
  <2>13. p \in {m, AddMatcher(m, id)}
    BY DEF p
  <2> QED
    BY <1>2, <2>1, <2>8, <2>9, <2>10, <2>11, <2>12, <2>13 DEF Filling
<1> QED
  BY <1>1, <1>2

\* The bypass flag is all that CopyBypass and SetBypass change, ...
LEMMA BypassEdited ==
  ASSUME NEW m \in Matcher, NEW b \in BOOLEAN
  PROVE  LET n == [m EXCEPT !.bypassOn = b]
         IN  /\ n \in Matcher /\ n.bypassOn = b
             /\ n.cats = m.cats /\ n.fed = m.fed /\ n.last = m.last
             /\ Sized(m) => Sized(n)
             /\ LastExists(m) => LastExists(n)
             /\ Room(m) => Room(n)
<1> DEFINE n == [m EXCEPT !.bypassOn = b]
<1>1. /\ n \in Matcher /\ n.bypassOn = b
      /\ n.cats = m.cats /\ n.last = m.last /\ n.rules = m.rules /\ n.fed = m.fed
  BY DEF Matcher
<1> HIDE DEF n
<1> QED
  BY <1>1 DEF Sized, LastExists, Room, LastRules, Full, n

\* ... and a saved matcher is without it and without a last category.
LEMMA SavedFine ==
  ASSUME NEW m \in Matcher, Sized(m)
  PROVE  LET n == [m EXCEPT !.bypassOn = FALSE, !.last = <<"ordinary", 0>>]
         IN  n \in Matcher /\ Sized(n) /\ n.cats = m.cats /\ n.fed = m.fed
<1> DEFINE n == [m EXCEPT !.bypassOn = FALSE, !.last = <<"ordinary", 0>>]
<1>1. n \in Matcher /\ n.cats = m.cats /\ n.fed = m.fed
  BY DEF Matcher, Sections
<1> HIDE DEF n
<1> QED
  BY <1>1 DEF Sized, n

-----------------------------------------------------------------------------
(* The inductive invariant.                                                *)

\* The variables refer to matchers that were made.  The one being filled is not
\* published, and no request has it, except just after its publication.
Linked ==
  /\ active \in DOMAIN heap \union {Nil} /\ loading \in DOMAIN heap \union {Nil}
  /\ \A r \in Request : took[r] \in DOMAIN heap \union {Nil}
  /\ loader.pc # "idle" => loading # Nil
  /\ loader.pc = "parsing" => loader.file \in File /\ loader.line \in Nat \ {0}
  /\ loader.pc # "clear" /\ loading # Nil =>
       active # loading /\ \A r \in Request : took[r] # loading

Limited ==
  /\ \A o \in DOMAIN heap : Sized(heap[o])
  /\ Sized(saved.matcher)
  /\ loader.pc = "parsing" => Room(heap[loading])

IInv == TypeOK /\ Linked /\ Limited

\* The history variable keeps its type when what it records has its.
LEMMA RememberType ==
  ASSUME TypeOK, Remember,
         active' \in Ref \union {Nil}, wanted' \in {"on", "off", "any"}
  PROVE  inForce' \in [Request -> SUBSET ((Ref \union {Nil}) \X {"on", "off", "any"})]
BY DEF TypeOK, Remember

\* The references of the variables are positions in the heap, and vice versa.
LEMMA Positions ==
  ASSUME TypeOK
  PROVE  /\ DOMAIN heap \subseteq Ref /\ Nil \notin DOMAIN heap
         /\ Len(heap) \in Nat /\ DOMAIN heap = 1..Len(heap)
         /\ Len(heap) + 1 \notin DOMAIN heap
         /\ \A o \in DOMAIN heap : heap[o] \in Matcher
BY ConstantsOK DEF TypeOK, Ref

\* Replacing a matcher in the heap, and adding one.
LEMMA HeapEdit ==
  ASSUME TypeOK, NEW o \in DOMAIN heap, NEW m \in Matcher, heap' = [heap EXCEPT ![o] = m]
  PROVE  /\ heap' \in Seq(Matcher) /\ Len(heap') = Len(heap) /\ DOMAIN heap' = DOMAIN heap
         /\ heap'[o] = m
         /\ \A p \in DOMAIN heap : p # o => heap'[p] = heap[p]
BY DEF TypeOK

LEMMA HeapAppend ==
  ASSUME TypeOK, NEW m \in Matcher, Len(heap) < MaxLists, heap' = Append(heap, m)
  PROVE  /\ heap' \in Seq(Matcher) /\ Len(heap') <= MaxLists
         /\ Len(heap) + 1 \in Ref /\ Len(heap) + 1 \notin DOMAIN heap
         /\ Len(heap) + 1 # Nil
         /\ DOMAIN heap' = DOMAIN heap \union {Len(heap) + 1}
         /\ heap'[Len(heap) + 1] = m
         /\ \A p \in DOMAIN heap : heap'[p] = heap[p]
BY ConstantsOK DEF TypeOK, Ref

\* Any answer is a verdict.
LEMMA AnswersAreVerdicts ==
  ASSUME NEW m, NEW r
  PROVE  Answers(m, r) \subseteq {"none", "white", "black"}
<1>1. \A cats : Verdicts(cats, r) \subseteq {"none", "white", "black"}
  BY DEF Verdicts
<1> QED
  BY <1>1 DEF Answers

\* What a handler can do to the requests.
LEMMA HandlerStep ==
  ASSUME TypeOK, NEW r \in Request, Handler(r)
  PROVE  /\ UNCHANGED <<matchers, loader, toggler, wanted, emptied>>
         /\ pc' \in [Request -> HandlerLabels]
         /\ verdict' \in [Request -> {"none", "white", "black"}]
         /\ took' \in [Request -> Ref \union {Nil}]
         /\ \A q \in Request : took'[q] = took[q] \/ (took'[q] = active /\ active # Nil)
         /\ Remember
<1> USE DEF TypeOK
<1> DEFINE Effect ==
      /\ pc' \in [Request -> HandlerLabels]
      /\ verdict' \in [Request -> {"none", "white", "black"}]
      /\ took' \in [Request -> Ref \union {Nil}]
      /\ \A q \in Request : took'[q] = took[q] \/ (took'[q] = active /\ active # Nil)
      /\ ListsStay
<1>1. ASSUME NEW label \in HandlerLabels, Goto(r, label)
      PROVE  Effect
  BY <1>1 DEF Goto
<1>2. ASSUME NEW v \in {"none", "white", "black"}, Decide(r, v)
      PROVE  Effect
  BY <1>2 DEF Decide, HandlerLabels
<1> HIDE DEF Effect
<1>3. ASSUME Ask(r) PROVE Effect
  BY <1>1, <1>2, <1>3 DEF Ask, HandlerLabels
<1>4. ASSUME AreListsLoaded(r) PROVE Effect
  BY <1>1, <1>2, <1>4 DEF AreListsLoaded, Look, HandlerLabels
<1>5. ASSUME Take(r) PROVE Effect
  <2>1. CASE active = Nil
    BY <1>1, <1>5, <2>1 DEF Take, HandlerLabels
  <2>2. CASE active # Nil
    BY <1>5, <2>2 DEF Take, HandlerLabels, Effect
  <2> QED
    BY <2>1, <2>2
<1>6. ASSUME Test(r) PROVE Effect
  BY <1>2, <1>6, AnswersAreVerdicts DEF Test
<1>7. Effect
  BY <1>3, <1>4, <1>5, <1>6 DEF Handler
<1> QED
  BY <1>7 DEF Effect, ListsStay

\* The initial states.
LEMMA InitInv == Init => IInv
<1> SUFFICES ASSUME Init
             PROVE  IInv
  OBVIOUS
<1> USE DEF Init
<1>1. EmptyMatcher(FALSE) \in Matcher /\ Sized(EmptyMatcher(FALSE))
  BY EmptyMatcherFine
<1>2. saved \in Saved /\ Sized(saved.matcher)
  BY <1>1 DEF Saved
<1>3. TypeOK
  <2>1. heap \in Seq(Matcher) /\ Len(heap) <= MaxLists /\ 0 \in 0..MaxFiles
    BY ConstantsOK
  <2>2. loader.pc = "idle"
    OBVIOUS
  <2>3. loader \in [pc : LoaderLabels, file : File \union {Nil}, line : Nat, opened : 0..MaxFiles]
    BY <2>1 DEF LoaderLabels
  <2>4. /\ pc \in [Request -> HandlerLabels]
        /\ took \in [Request -> Ref \union {Nil}]
        /\ verdict \in [Request -> {"none", "white", "black"}]
        /\ inForce \in [Request -> SUBSET ((Ref \union {Nil}) \X {"on", "off", "any"})]
    BY DEF HandlerLabels
  <2> QED
    BY <1>2, <2>1, <2>2, <2>3, <2>4 DEF TypeOK
<1>4. Linked /\ Limited
  <2>1. loader.pc = "idle" /\ DOMAIN heap = {} /\ \A r \in Request : took[r] = Nil
    OBVIOUS
  <2> QED
    BY <1>2, <2>1 DEF Linked, Limited
<1> QED
  BY <1>3, <1>4 DEF IInv

\* A step that leaves the requests alone and types the lists types everything.
LEMMA RequestsTyped ==
  ASSUME TypeOK, RequestsGoOn,
         active' \in Ref \union {Nil}, wanted' \in {"on", "off", "any"}
  PROVE  /\ UNCHANGED <<toggler, pc, took, verdict>>
         /\ toggler' \in {"same", "other"}
         /\ pc' \in [Request -> HandlerLabels]
         /\ took' \in [Request -> Ref \union {Nil}]
         /\ verdict' \in [Request -> {"none", "white", "black"}]
         /\ inForce' \in [Request -> SUBSET ((Ref \union {Nil}) \X {"on", "off", "any"})]
<1>1. UNCHANGED <<toggler, pc, took, verdict>> /\ Remember
  BY DEF RequestsGoOn, requests
<1>2. inForce' \in [Request -> SUBSET ((Ref \union {Nil}) \X {"on", "off", "any"})]
  BY <1>1, RememberType
<1> QED
  BY <1>1, <1>2 DEF TypeOK
\* What the embedder's steps have in common: the new lists and the loader are as
\* they should be, and no running request has the matcher that is filled next.
LEMMA EmbedderStep ==
  ASSUME IInv, RequestsGoOn,
         heap' \in Seq(Matcher), Len(heap') <= MaxLists, DOMAIN heap \subseteq DOMAIN heap',
         active' \in DOMAIN heap' \union {Nil}, loading' \in DOMAIN heap' \union {Nil},
         saved' \in Saved, wanted' \in {"on", "off", "any"}, emptied' \in BOOLEAN,
         loader' \in [pc : LoaderLabels, file : File \union {Nil}, line : Nat,
                      opened : 0..MaxFiles],
         loader'.pc = "parsing" =>
           /\ LastExists(heap'[loading']) /\ Room(heap'[loading'])
           /\ loader'.file \in File /\ loader'.line \in Nat \ {0},
         loader'.pc # "idle" => loading' # Nil,
         loader'.pc # "clear" /\ loading' # Nil =>
           active' # loading' /\ \A r \in Request : took[r] # loading',
         \A o \in DOMAIN heap' : Sized(heap'[o]), Sized(saved'.matcher)
  PROVE  IInv'
<1> USE DEF IInv
<1>1. active' \in Ref \union {Nil} /\ loading' \in Ref \union {Nil}
  BY ConstantsOK DEF Ref
<1>2. /\ UNCHANGED <<toggler, pc, took, verdict>>
      /\ toggler' \in {"same", "other"}
      /\ pc' \in [Request -> HandlerLabels]
      /\ took' \in [Request -> Ref \union {Nil}]
      /\ verdict' \in [Request -> {"none", "white", "black"}]
      /\ inForce' \in [Request -> SUBSET ((Ref \union {Nil}) \X {"on", "off", "any"})]
  BY <1>1, RequestsTyped
<1>3. TypeOK'
  BY <1>1, <1>2 DEF TypeOK
<1>4. Linked'
  BY <1>2 DEF Linked
<1>5. Limited'
  BY DEF Limited
<1> QED
  BY <1>3, <1>4, <1>5

\* Every step keeps the invariant.
LEMMA NextInv == IInv /\ [Next]_vars => IInv'
<1> SUFFICES ASSUME IInv, [Next]_vars
             PROVE  IInv'
  OBVIOUS
<1> USE DEF IInv
<1>0. TypeOK
  OBVIOUS
<1>1. ASSUME Initialize PROVE IInv'
  <2> DEFINE b == active # Nil /\ heap[active].bypassOn
             m == EmptyMatcher(b)
  <2>1. b \in BOOLEAN
    OBVIOUS
  <2> HIDE DEF b
  <2>2. m \in Matcher /\ Sized(m)
    BY <2>1, EmptyMatcherFine
  <2>3. heap' = Append(heap, m) /\ Len(heap) < MaxLists
    BY <1>1 DEF Initialize, b
  <2> HIDE DEF m
  <2>4. /\ heap' \in Seq(Matcher) /\ Len(heap') <= MaxLists
        /\ Len(heap) + 1 \notin DOMAIN heap /\ Len(heap) + 1 # Nil
        /\ DOMAIN heap' = DOMAIN heap \union {Len(heap) + 1}
        /\ heap'[Len(heap) + 1] = m
        /\ \A p \in DOMAIN heap : heap'[p] = heap[p]
    BY <2>2, <2>3, HeapAppend
  <2>5. /\ loading' = Len(heap) + 1 /\ loader.pc = "idle" /\ RequestsGoOn
        /\ UNCHANGED <<active, saved, loader, wanted, emptied>>
    BY <1>1 DEF Initialize
  <2>6. active' # loading' /\ \A r \in Request : took[r] # loading'
    BY <2>4, <2>5 DEF Linked
  <2>7. \A o \in DOMAIN heap' : Sized(heap'[o])
    BY <2>2, <2>4 DEF Limited
  <2> HIDE DEF IInv
  <2> QED
    BY <2>4, <2>5, <2>6, <2>7, EmbedderStep DEF IInv, TypeOK, Linked, Limited
<1>2. ASSUME NEW f \in File, ParseRuleFile(f) PROVE IInv'
  <2> DEFINE m == AddMatcher(heap[loading], IdOf[f])
  <2>1. /\ loader.pc = "idle" /\ loading # Nil /\ loader.opened < MaxFiles
        /\ heap' = [heap EXCEPT ![loading] = m]
        /\ loader' = [pc |-> "parsing", file |-> f, line |-> 1, opened |-> loader.opened + 1]
        /\ UNCHANGED <<active, loading, saved, wanted, emptied>> /\ RequestsGoOn
    BY <1>2 DEF ParseRuleFile
  <2>2. loading \in DOMAIN heap /\ heap[loading] \in Matcher /\ Sized(heap[loading])
    BY <2>1, Positions DEF Linked, Limited
  <2>3. Filling(m)
    BY <2>2, AddMatcherFills, ConstantsOK
  <2> HIDE DEF m
  <2>4. /\ heap' \in Seq(Matcher) /\ Len(heap') = Len(heap) /\ DOMAIN heap' = DOMAIN heap
        /\ heap'[loading] = m
        /\ \A p \in DOMAIN heap : p # loading => heap'[p] = heap[p]
    BY <2>1, <2>2, <2>3, HeapEdit DEF Filling
  <2>5. \A o \in DOMAIN heap' : Sized(heap'[o])
    BY <2>3, <2>4 DEF Filling, Limited
  <2>6. /\ loader' \in [pc : LoaderLabels, file : File \union {Nil}, line : Nat,
                        opened : 0..MaxFiles]
        /\ loader'.pc = "parsing" /\ loader'.file \in File /\ loader'.line \in Nat \ {0}
    <3>1. loader.opened + 1 \in 0..MaxFiles
      BY <2>1, ConstantsOK DEF TypeOK
    <3> QED
      BY <2>1, <3>1 DEF LoaderLabels
  <2>7. LastExists(heap'[loading']) /\ Room(heap'[loading'])
    BY <2>1, <2>3, <2>4 DEF Filling
  <2> HIDE DEF IInv
  <2> QED
    BY <2>1, <2>4, <2>5, <2>6, <2>7, EmbedderStep DEF IInv, TypeOK, Linked, Limited
<1>3. ASSUME ParseLine PROVE IInv'
  <2> DEFINE f == loader.file
             m == AddRule(heap[loading], IdOf[f], Lines[f][loader.line])
  <2>1. /\ loader.pc = "parsing"
        /\ UNCHANGED <<active, loading, saved, wanted, emptied>> /\ RequestsGoOn
    BY <1>3 DEF ParseLine
  <2>2. /\ loading # Nil /\ loading \in DOMAIN heap /\ f \in File /\ loader.line \in Nat \ {0}
        /\ heap[loading] \in Matcher
    BY <2>1, Positions DEF Linked
  <2>3. Filling(heap[loading])
    BY <2>1, <2>2 DEF TypeOK, Limited, Filling
  <2>4. CASE loader.line <= Len(Lines[f]) /\ heap' = [heap EXCEPT ![loading] = m]
             /\ loader' = [loader EXCEPT !.line = @ + 1]
    <3>1. Filling(m)
      <4>1. IdOf[f] \in CategoryId /\ Lines[f][loader.line] \in Rule
        BY <2>2, <2>4, ConstantsOK
      <4> QED
        BY <2>3, <4>1, AddRuleFills
    <3> HIDE DEF m
    <3>2. /\ heap' \in Seq(Matcher) /\ Len(heap') = Len(heap) /\ DOMAIN heap' = DOMAIN heap
          /\ heap'[loading] = m
          /\ \A p \in DOMAIN heap : p # loading => heap'[p] = heap[p]
      BY <2>2, <2>4, <3>1, HeapEdit DEF Filling
    <3>3. \A o \in DOMAIN heap' : Sized(heap'[o])
      BY <3>1, <3>2 DEF Filling, Limited
    <3>4. /\ loader' \in [pc : LoaderLabels, file : File \union {Nil}, line : Nat,
                          opened : 0..MaxFiles]
          /\ loader'.pc = "parsing" /\ loader'.file \in File /\ loader'.line \in Nat \ {0}
      BY <2>1, <2>2, <2>4 DEF TypeOK
    <3>5. LastExists(heap'[loading']) /\ Room(heap'[loading'])
      BY <2>1, <3>1, <3>2 DEF Filling
    <3> HIDE DEF IInv
    <3> QED
      BY <2>1, <3>2, <3>3, <3>4, <3>5, EmbedderStep DEF IInv, TypeOK, Linked, Limited
  <2>5. CASE loader' = [loader EXCEPT !.pc = "idle"] /\ UNCHANGED heap
    <3>1. /\ loader' \in [pc : LoaderLabels, file : File \union {Nil}, line : Nat,
                          opened : 0..MaxFiles]
          /\ loader'.pc = "idle"
      BY <2>5 DEF TypeOK, LoaderLabels
    <3> HIDE DEF IInv
    <3> QED
      BY <2>1, <2>5, <3>1, EmbedderStep DEF IInv, TypeOK, Linked, Limited
  <2> QED
    BY <1>3, <2>4, <2>5 DEF ParseLine
<1>4. ASSUME CopyBypass PROVE IInv'
  <2> DEFINE b == IF active # Nil THEN heap[active].bypassOn ELSE heap[loading].bypassOn
             m == [heap[loading] EXCEPT !.bypassOn = b]
  <2>1. /\ loader.pc = "idle" /\ loading # Nil
        /\ loader' = [loader EXCEPT !.pc = "publish"]
        /\ UNCHANGED <<active, loading, saved, wanted, emptied>> /\ RequestsGoOn
    BY <1>4 DEF CopyBypass
  <2>2. loading \in DOMAIN heap /\ heap[loading] \in Matcher /\ Sized(heap[loading])
    BY <2>1, Positions DEF Linked, Limited
  <2>3. b \in BOOLEAN
    BY <2>2, Positions, MatcherParts DEF Linked
  <2>4. heap' = [heap EXCEPT ![loading] = m]
    BY <1>4, <2>2 DEF CopyBypass
  <2> HIDE DEF b
  <2>5. m \in Matcher /\ Sized(m)
    BY <2>2, <2>3, BypassEdited
  <2> HIDE DEF m
  <2>6. /\ heap' \in Seq(Matcher) /\ Len(heap') = Len(heap) /\ DOMAIN heap' = DOMAIN heap
        /\ heap'[loading] = m
        /\ \A p \in DOMAIN heap : p # loading => heap'[p] = heap[p]
    BY <2>2, <2>4, <2>5, HeapEdit
  <2>7. \A o \in DOMAIN heap' : Sized(heap'[o])
    BY <2>5, <2>6 DEF Limited
  <2>8. /\ loader' \in [pc : LoaderLabels, file : File \union {Nil}, line : Nat,
                        opened : 0..MaxFiles]
        /\ loader'.pc = "publish"
    BY <2>1 DEF TypeOK, LoaderLabels
  <2> HIDE DEF IInv
  <2> QED
    BY <2>1, <2>6, <2>7, <2>8, EmbedderStep DEF IInv, TypeOK, Linked, Limited
<1>5. ASSUME Publish PROVE IInv'
  <2>1. /\ loader.pc = "publish" /\ active' = loading
        /\ loader' = [loader EXCEPT !.pc = "clear"]
        /\ UNCHANGED <<heap, loading, saved, wanted, emptied>> /\ RequestsGoOn
    BY <1>5 DEF Publish
  <2>2. /\ loader' \in [pc : LoaderLabels, file : File \union {Nil}, line : Nat,
                        opened : 0..MaxFiles]
        /\ loader'.pc = "clear"
    BY <2>1 DEF TypeOK, LoaderLabels
  <2> HIDE DEF IInv
  <2> QED
    BY <2>1, <2>2, EmbedderStep DEF IInv, TypeOK, Linked, Limited
<1>6. ASSUME ClearLoading PROVE IInv'
  <2>1. /\ loader.pc = "clear" /\ loading' = Nil
        /\ loader' = [loader EXCEPT !.pc = "idle"]
        /\ UNCHANGED <<heap, active, saved, wanted, emptied>> /\ RequestsGoOn
    BY <1>6 DEF ClearLoading
  <2>2. /\ loader' \in [pc : LoaderLabels, file : File \union {Nil}, line : Nat,
                        opened : 0..MaxFiles]
        /\ loader'.pc = "idle"
    BY <2>1 DEF TypeOK, LoaderLabels
  <2> HIDE DEF IInv
  <2> QED
    BY <2>1, <2>2, EmbedderStep DEF IInv, TypeOK, Linked, Limited
<1>7. ASSUME Save PROVE IInv'
  <2> DEFINE m == [heap[active] EXCEPT !.bypassOn = FALSE, !.last = <<"ordinary", 0>>]
  <2>1. /\ loader.pc = "idle" /\ active # Nil
        /\ \/ saved' = [state |-> "damaged", matcher |-> EmptyMatcher(FALSE)]
           \/ saved' = [state |-> "good", matcher |-> m]
        /\ UNCHANGED <<heap, active, loading, loader, wanted, emptied>> /\ RequestsGoOn
    BY <1>7 DEF Save
  <2>2. heap[active] \in Matcher /\ Sized(heap[active])
    BY <2>1, Positions DEF Linked, Limited
  <2>3. m \in Matcher /\ Sized(m)
    BY <2>2, SavedFine
  <2>4. EmptyMatcher(FALSE) \in Matcher /\ Sized(EmptyMatcher(FALSE))
    BY EmptyMatcherFine
  <2> HIDE DEF m
  <2>5. ASSUME NEW state \in {"damaged", "good"}, NEW n \in Matcher, Sized(n),
               saved' = [state |-> state, matcher |-> n]
        PROVE  saved' \in Saved /\ Sized(saved'.matcher)
    BY <2>5 DEF Saved
  <2>6. saved' \in Saved /\ Sized(saved'.matcher)
    BY <2>1, <2>3, <2>4, <2>5
  <2> HIDE DEF IInv
  <2> QED
    BY <2>1, <2>6, EmbedderStep DEF IInv, TypeOK, Linked, Limited
<1>8. ASSUME Load PROVE IInv'
  <2>1. /\ loader.pc = "idle" /\ wanted' = "any"
        /\ UNCHANGED <<loading, saved, loader>> /\ RequestsGoOn
    BY <1>8 DEF Load
  <2>2. CASE active' = Nil /\ emptied' = (emptied \/ active # Nil) /\ UNCHANGED heap
    <3>1. emptied' \in BOOLEAN
      BY <2>2 DEF TypeOK
    <3> HIDE DEF IInv
    <3> QED
      BY <2>1, <2>2, <3>1, EmbedderStep DEF IInv, TypeOK, Linked, Limited
  <2>3. CASE /\ Len(heap) < MaxLists /\ heap' = Append(heap, saved.matcher)
             /\ active' = Len(heap) + 1 /\ UNCHANGED emptied
    <3>1. saved.matcher \in Matcher /\ Sized(saved.matcher)
      BY DEF TypeOK, Saved, Limited
    <3>2. /\ heap' \in Seq(Matcher) /\ Len(heap') <= MaxLists
          /\ Len(heap) + 1 \notin DOMAIN heap /\ Len(heap) + 1 # Nil
          /\ DOMAIN heap' = DOMAIN heap \union {Len(heap) + 1}
          /\ heap'[Len(heap) + 1] = saved.matcher
          /\ \A p \in DOMAIN heap : heap'[p] = heap[p]
      BY <2>3, <3>1, HeapAppend
    <3>3. \A o \in DOMAIN heap' : Sized(heap'[o])
      BY <3>1, <3>2 DEF Limited
    <3> HIDE DEF IInv
    <3> QED
      BY <2>1, <2>3, <3>2, <3>3, EmbedderStep DEF IInv, TypeOK, Linked, Limited
  <2> QED
    BY <1>8, <2>2, <2>3 DEF Load
<1>9. ASSUME NEW setting \in {"on", "off"}, SetBypass(setting) PROVE IInv'
  <2> DEFINE b == setting = "on"
             m == [heap[active] EXCEPT !.bypassOn = b]
  <2>1. /\ active # Nil /\ wanted' = setting
        /\ UNCHANGED <<active, loading, saved, loader, emptied>> /\ RequestsGoOn
    BY <1>9 DEF SetBypass
  <2>2. active \in DOMAIN heap /\ heap[active] \in Matcher /\ Sized(heap[active])
    BY <2>1, Positions DEF Linked, Limited
  <2>3. heap' = [heap EXCEPT ![active] = m]
    BY <1>9, <2>2 DEF SetBypass
  <2>4. b \in BOOLEAN
    OBVIOUS
  <2> HIDE DEF b
  <2>5. /\ m \in Matcher /\ Sized(m)
        /\ LastExists(heap[active]) => LastExists(m)
        /\ Room(heap[active]) => Room(m)
    BY <2>2, <2>4, BypassEdited
  <2> HIDE DEF m
  <2>6. /\ heap' \in Seq(Matcher) /\ Len(heap') = Len(heap) /\ DOMAIN heap' = DOMAIN heap
        /\ heap'[active] = m
        /\ \A p \in DOMAIN heap : p # active => heap'[p] = heap[p]
    BY <2>2, <2>3, <2>5, HeapEdit
  <2>7. \A o \in DOMAIN heap' : Sized(heap'[o])
    BY <2>5, <2>6 DEF Limited
  <2>8. loader.pc = "parsing" => LastExists(heap'[loading]) /\ Room(heap'[loading])
    BY <2>5, <2>6 DEF TypeOK, Linked, Limited
  <2> HIDE DEF IInv
  <2> QED
    BY <2>1, <2>6, <2>7, <2>8, EmbedderStep DEF IInv, TypeOK, Linked, Limited
<1>10. ASSUME NEW r \in Request, Handler(r) PROVE IInv'
  <2>1. /\ UNCHANGED <<matchers, loader, toggler, wanted, emptied>>
        /\ pc' \in [Request -> HandlerLabels]
        /\ verdict' \in [Request -> {"none", "white", "black"}]
        /\ took' \in [Request -> Ref \union {Nil}]
        /\ \A q \in Request : took'[q] = took[q] \/ (took'[q] = active /\ active # Nil)
        /\ Remember
    BY <1>10, <1>0, HandlerStep
  <2>2. UNCHANGED <<heap, active, loading, saved>>
    BY <2>1 DEF matchers
  <2>3. inForce' \in [Request -> SUBSET ((Ref \union {Nil}) \X {"on", "off", "any"})]
    BY <2>1, <2>2, RememberType DEF TypeOK
  <2>4. TypeOK'
    BY <2>1, <2>2, <2>3 DEF TypeOK
  <2>5. Linked'
    BY <2>1, <2>2 DEF Linked
  <2>6. Limited'
    BY <2>1, <2>2 DEF Limited
  <2> QED
    BY <2>4, <2>5, <2>6
<1>11. CASE UNCHANGED vars
  BY <1>11 DEF vars, matchers, requests, TypeOK, Linked, Limited
<1> QED
  BY <1>1, <1>2, <1>3, <1>4, <1>5, <1>6, <1>7, <1>8, <1>9, <1>10, <1>11 DEF Next, Embedder

\* The inductive invariant holds.
THEOREM Invariant == Spec => []IInv
<1> QED
  BY InitInv, NextInv, PTL DEF Spec

\* The types hold; in particular, AddRule never finds lastCategory or lastMatcher
\* nil, since every file begins with a matcher of its own.
THEOREM TypeCorrect == Spec => []TypeOK
<1>1. IInv => TypeOK
  BY DEF IInv
<1> QED
  BY <1>1, Invariant, PTL

\* No RuleMatcher ever holds more rules than MAX_RULES_PER_MATCHER.
THEOREM Bounded == Spec => []MatchersBounded
<1>1. IInv => MatchersBounded
  BY DEF IInv, Limited, Sized, MatchersBounded
<1> QED
  BY <1>1, Invariant, PTL

-----------------------------------------------------------------------------
(* What a step does to the matchers that were made before it.              *)

LEMMA HeapChange ==
  ASSUME IInv, [Next]_vars, NEW o \in DOMAIN heap
  PROVE  /\ \/ heap'[o].cats = heap[o].cats /\ heap'[o].fed = heap[o].fed
            \/ o = loading /\ loader.pc # "clear"
         /\ \/ heap'[o].bypassOn = heap[o].bypassOn
            \/ CopyBypass /\ o = loading
            \/ o = active /\ \E setting \in {"on", "off"} : SetBypass(setting)
<1> USE DEF IInv
<1>0. TypeOK /\ Len(heap) \in Nat /\ heap[o] \in Matcher
  BY Positions
<1>1. ASSUME UNCHANGED heap
      PROVE  /\ heap'[o].cats = heap[o].cats /\ heap'[o].fed = heap[o].fed
             /\ heap'[o].bypassOn = heap[o].bypassOn
  BY <1>1
<1>2. ASSUME NEW m \in Matcher, Len(heap) < MaxLists, heap' = Append(heap, m)
      PROVE  /\ heap'[o].cats = heap[o].cats /\ heap'[o].fed = heap[o].fed
             /\ heap'[o].bypassOn = heap[o].bypassOn
  BY <1>0, <1>2, HeapAppend
<1>3. CASE Initialize
  <2> DEFINE b == active # Nil /\ heap[active].bypassOn
  <2>1. b \in BOOLEAN
    OBVIOUS
  <2> HIDE DEF b
  <2>2. EmptyMatcher(b) \in Matcher
    BY <2>1, EmptyMatcherFine
  <2> QED
    BY <1>2, <1>3, <2>2 DEF Initialize, b
<1>4. ASSUME NEW m \in Matcher, loader.pc # "clear", loading \in DOMAIN heap,
             m.bypassOn = heap[loading].bypassOn, heap' = [heap EXCEPT ![loading] = m]
      PROVE  /\ \/ heap'[o].cats = heap[o].cats /\ heap'[o].fed = heap[o].fed
                \/ o = loading /\ loader.pc # "clear"
             /\ heap'[o].bypassOn = heap[o].bypassOn
  BY <1>0, <1>4, HeapEdit
<1>5. ASSUME NEW f \in File, ParseRuleFile(f)
      PROVE  /\ \/ heap'[o].cats = heap[o].cats /\ heap'[o].fed = heap[o].fed
                \/ o = loading /\ loader.pc # "clear"
             /\ heap'[o].bypassOn = heap[o].bypassOn
  <2> DEFINE m == AddMatcher(heap[loading], IdOf[f])
  <2>1. /\ loader.pc = "idle" /\ loading # Nil
        /\ heap' = [heap EXCEPT ![loading] = m]
    BY <1>5 DEF ParseRuleFile
  <2>2. loading \in DOMAIN heap /\ heap[loading] \in Matcher /\ Sized(heap[loading])
    BY <2>1, Positions DEF Linked, Limited
  <2>3. m \in Matcher /\ m.bypassOn = heap[loading].bypassOn
    BY <2>2, AddMatcherFills, ConstantsOK DEF Filling
  <2> HIDE DEF m
  <2> QED
    BY <1>4, <2>1, <2>2, <2>3
<1>6. ASSUME ParseLine
      PROVE  /\ \/ heap'[o].cats = heap[o].cats /\ heap'[o].fed = heap[o].fed
                \/ o = loading /\ loader.pc # "clear"
             /\ heap'[o].bypassOn = heap[o].bypassOn
  <2> DEFINE f == loader.file
             m == AddRule(heap[loading], IdOf[f], Lines[f][loader.line])
  <2>1. loader.pc = "parsing"
    BY <1>6 DEF ParseLine
  <2>2. /\ loading # Nil /\ loading \in DOMAIN heap /\ f \in File /\ loader.line \in Nat \ {0}
        /\ heap[loading] \in Matcher
    BY <2>1, Positions DEF Linked
  <2>3. Filling(heap[loading])
    BY <2>1, <2>2 DEF TypeOK, Limited, Filling
  <2>4. CASE loader.line <= Len(Lines[f]) /\ heap' = [heap EXCEPT ![loading] = m]
    <3>1. IdOf[f] \in CategoryId /\ Lines[f][loader.line] \in Rule
      BY <2>2, <2>4, ConstantsOK
    <3>2. m \in Matcher /\ m.bypassOn = heap[loading].bypassOn
      BY <2>3, <3>1, AddRuleFills DEF Filling
    <3> HIDE DEF m
    <3> QED
      BY <1>4, <2>1, <2>2, <2>4, <3>2
  <2> QED
    BY <1>1, <1>6, <2>4 DEF ParseLine
<1>7. ASSUME NEW at \in DOMAIN heap, NEW b \in BOOLEAN,
             heap' = [heap EXCEPT ![at] = [heap[at] EXCEPT !.bypassOn = b]]
      PROVE  /\ heap'[o].cats = heap[o].cats /\ heap'[o].fed = heap[o].fed
             /\ heap'[o].bypassOn = heap[o].bypassOn \/ o = at
  <2> DEFINE m == [heap[at] EXCEPT !.bypassOn = b]
  <2>1. m \in Matcher /\ m.cats = heap[at].cats /\ m.fed = heap[at].fed
    BY <1>0, Positions, BypassEdited
  <2> HIDE DEF m
  <2>2. heap' = [heap EXCEPT ![at] = m]
    BY <1>7 DEF m
  <2> QED
    BY <1>0, <2>1, <2>2, HeapEdit
<1>8. ASSUME CopyBypass
      PROVE  /\ heap'[o].cats = heap[o].cats /\ heap'[o].fed = heap[o].fed
             /\ heap'[o].bypassOn = heap[o].bypassOn \/ o = loading
  <2> DEFINE b == IF active # Nil THEN heap[active].bypassOn ELSE heap[loading].bypassOn
  <2>1. loading # Nil /\ loading \in DOMAIN heap
    BY <1>8 DEF CopyBypass, Linked
  <2>2. b \in BOOLEAN
    BY <2>1, Positions, MatcherParts DEF Linked
  <2>3. heap' = [heap EXCEPT ![loading] = [heap[loading] EXCEPT !.bypassOn = b]]
    BY <1>8, <2>1 DEF CopyBypass
  <2> HIDE DEF b
  <2> QED
    BY <1>7, <2>1, <2>2, <2>3
<1>9. ASSUME NEW setting \in {"on", "off"}, SetBypass(setting)
      PROVE  /\ heap'[o].cats = heap[o].cats /\ heap'[o].fed = heap[o].fed
             /\ heap'[o].bypassOn = heap[o].bypassOn \/ o = active
  <2> DEFINE b == setting = "on"
  <2>1. active # Nil /\ active \in DOMAIN heap
    BY <1>9 DEF SetBypass, Linked
  <2>2. heap' = [heap EXCEPT ![active] = [heap[active] EXCEPT !.bypassOn = b]]
    BY <1>9, <2>1 DEF SetBypass
  <2>3. b \in BOOLEAN
    OBVIOUS
  <2> HIDE DEF b
  <2> QED
    BY <1>7, <2>1, <2>2, <2>3
<1>10. CASE Publish \/ ClearLoading \/ Save
  BY <1>1, <1>10 DEF Publish, ClearLoading, Save
<1>11. CASE Load
  <2>1. saved.matcher \in Matcher
    BY DEF TypeOK, Saved
  <2> QED
    BY <1>1, <1>2, <1>11, <2>1 DEF Load
<1>12. CASE \E r \in Request : Handler(r)
  BY <1>0, <1>1, <1>12, HandlerStep DEF matchers
<1>13. CASE UNCHANGED vars
  BY <1>1, <1>13 DEF vars, matchers
<1> QED
  BY <1>3, <1>5, <1>6, <1>8, <1>9, <1>10, <1>11, <1>12, <1>13 DEF Next, Embedder

\* No step writes to the categories of a matcher that a request may be using.
THEOREM Frozen == Spec => PublishedIsFrozen
<1> DEFINE Step == \A o \in ({active} \union {took[r] : r \in Request}) \ {Nil} :
                     heap'[o].cats = heap[o].cats
<1>1. IInv /\ [Next]_vars => [Step]_vars
  <2> SUFFICES ASSUME IInv, [Next]_vars,
                      NEW o \in ({active} \union {took[r] : r \in Request}) \ {Nil}
               PROVE  heap'[o].cats = heap[o].cats
    OBVIOUS
  <2>1. o \in DOMAIN heap
    BY DEF IInv, Linked
  <2>2. ~(o = loading /\ loader.pc # "clear")
    BY DEF IInv, Linked
  <2> QED
    BY <2>1, <2>2, HeapChange
<1> QED
  BY <1>1, Invariant, PTL DEF Spec, PublishedIsFrozen
-----------------------------------------------------------------------------
(* The bypass setting.                                                     *)

\* With one thread for the lists and the setting: the setting asked for is in the
\* published matcher, or still to come with the first lists, which start without
\* bypass; and the matcher about to be published agrees with the published one.
SettingKept ==
  toggler = "same" =>
    /\ active # Nil /\ wanted # "any" => (heap[active].bypassOn <=> wanted = "on")
    /\ wanted = "on" => active # Nil
    /\ active = Nil /\ wanted = "off" /\ loading # Nil => ~heap[loading].bypassOn
    /\ loader.pc = "publish" /\ active # Nil =>
         (heap[loading].bypassOn <=> heap[active].bypassOn)

LEMMA NextKeepsSetting == IInv /\ SettingKept /\ [Next]_vars => SettingKept'
<1> SUFFICES ASSUME IInv, SettingKept, [Next]_vars, toggler' = "same"
             PROVE  SettingKept'
  BY DEF SettingKept
<1>0. /\ TypeOK /\ Linked
      /\ active \in DOMAIN heap \union {Nil} /\ loading \in DOMAIN heap \union {Nil}
      /\ Nil \notin DOMAIN heap
  BY Positions DEF IInv, Linked
<1>t. toggler = "same"
  <2>1. CASE RequestsGoOn
    BY <2>1 DEF RequestsGoOn
  <2>2. CASE \E r \in Request : Handler(r)
    BY <1>0, <2>2, HandlerStep
  <2>3. CASE UNCHANGED vars
    BY <2>3 DEF vars
  <2> QED
    BY <2>1, <2>2, <2>3 DEF Next, Embedder, Initialize, ParseRuleFile, ParseLine, CopyBypass,
       Publish, ClearLoading, Save, Load, SetBypass
<1>1. CASE CopyBypass
  <2> DEFINE b == IF active # Nil THEN heap[active].bypassOn ELSE heap[loading].bypassOn
             m == [heap[loading] EXCEPT !.bypassOn = b]
  <2>1. /\ loader.pc = "idle" /\ loading # Nil /\ loading \in DOMAIN heap
        /\ UNCHANGED <<active, loading, wanted>>
    BY <1>0, <1>1 DEF CopyBypass
  <2>2. b \in BOOLEAN
    BY <1>0, <2>1, Positions, MatcherParts
  <2>3. heap' = [heap EXCEPT ![loading] = m]
    BY <1>1, <2>1 DEF CopyBypass
  <2> HIDE DEF b
  <2>4. m \in Matcher /\ m.bypassOn = b
    BY <1>0, <2>1, <2>2, Positions, BypassEdited
  <2> HIDE DEF m
  <2>5. /\ heap'[loading].bypassOn = b
        /\ \A p \in DOMAIN heap : p # loading => heap'[p] = heap[p]
    BY <1>0, <2>1, <2>3, <2>4, HeapEdit
  <2>6. active # loading
    BY <1>0, <2>1 DEF Linked
  <2>7. active # Nil => heap'[active] = heap[active] /\ b = heap[active].bypassOn
    BY <1>0, <2>5, <2>6 DEF b
  <2>8. active = Nil => b = heap[loading].bypassOn
    BY DEF b
  <2> QED
    BY <1>t, <2>1, <2>5, <2>7, <2>8 DEF SettingKept
<1>2. ASSUME NEW setting \in {"on", "off"}, SetBypass(setting) PROVE SettingKept'
  <2> DEFINE b == setting = "on"
             m == [heap[active] EXCEPT !.bypassOn = b]
  <2>1. /\ active # Nil /\ active \in DOMAIN heap /\ loader.pc = "idle"
        /\ wanted' = setting /\ UNCHANGED <<active, loading, loader>>
    BY <1>0, <1>2, <1>t DEF SetBypass
  <2>2. heap' = [heap EXCEPT ![active] = m]
    BY <1>2, <2>1 DEF SetBypass
  <2>3. b \in BOOLEAN
    OBVIOUS
  <2> HIDE DEF b
  <2>4. m \in Matcher /\ m.bypassOn = b
    BY <1>0, <2>1, <2>3, Positions, BypassEdited
  <2> HIDE DEF m
  <2>5. heap'[active].bypassOn = b
    BY <1>0, <2>1, <2>2, <2>4, HeapEdit
  <2> QED
    BY <2>1, <2>5 DEF SettingKept, b
<1>3. ASSUME ~CopyBypass, \A setting \in {"on", "off"} : ~SetBypass(setting)
      PROVE  SettingKept'
  <2>1. \A o \in DOMAIN heap : heap'[o].bypassOn = heap[o].bypassOn
    BY <1>3, HeapChange
  <2>2. CASE Initialize
    <3> DEFINE b == active # Nil /\ heap[active].bypassOn
    <3>1. /\ heap' = Append(heap, EmptyMatcher(b)) /\ loading' = Len(heap) + 1
          /\ Len(heap) < MaxLists /\ loader.pc = "idle" /\ UNCHANGED <<active, loader, wanted>>
      BY <2>2 DEF Initialize
    <3>2. b \in BOOLEAN
      OBVIOUS
    <3>3. active = Nil => b = FALSE
      OBVIOUS
    <3> HIDE DEF b
    <3>4. EmptyMatcher(b) \in Matcher /\ EmptyMatcher(b).bypassOn = b
      BY <3>2, EmptyMatcherFine DEF EmptyMatcher
    <3>5. heap'[loading'] = EmptyMatcher(b)
      BY <1>0, <3>1, <3>4, HeapAppend
    <3> QED
      BY <1>0, <1>t, <2>1, <3>1, <3>3, <3>4, <3>5 DEF SettingKept
  <2>3. CASE Publish
    <3>1. /\ loader.pc = "publish" /\ active' = loading /\ loader' = [loader EXCEPT !.pc = "clear"]
          /\ UNCHANGED <<loading, wanted>>
      BY <2>3 DEF Publish
    <3>2. loading # Nil /\ loader'.pc = "clear"
      BY <1>0, <3>1 DEF Linked, TypeOK
    <3>3. wanted \in {"on", "off", "any"}
      BY <1>0 DEF TypeOK
    <3> QED
      BY <1>0, <1>t, <2>1, <3>1, <3>2, <3>3 DEF SettingKept
  <2>4. CASE Load
    BY <2>4 DEF Load, SettingKept
  <2>5. ASSUME UNCHANGED <<active, wanted>>, loading' = loading \/ loading' = Nil,
               loader'.pc = "publish" => loader.pc = "publish" /\ loading' = loading
        PROVE  SettingKept'
    <3>1. loader.pc = "publish" => loading # Nil
      BY <1>0 DEF Linked
    <3> QED
      BY <1>0, <1>t, <2>1, <2>5, <3>1 DEF SettingKept
  <2>6. CASE \E f \in File : ParseRuleFile(f)
    BY <2>5, <2>6 DEF ParseRuleFile
  <2>7. CASE ParseLine
    BY <1>0, <2>5, <2>7 DEF ParseLine, TypeOK
  <2>8. CASE ClearLoading
    BY <1>0, <2>5, <2>8 DEF ClearLoading, TypeOK
  <2>9. CASE Save
    BY <2>5, <2>9 DEF Save
  <2>10. CASE \E r \in Request : Handler(r)
    BY <1>0, <2>5, <2>10, HandlerStep DEF matchers
  <2>11. CASE UNCHANGED vars
    BY <2>5, <2>11 DEF vars, matchers
  <2> QED
    BY <1>3, <2>2, <2>3, <2>4, <2>6, <2>7, <2>8, <2>9, <2>10, <2>11 DEF Next, Embedder
<1> QED
  BY <1>1, <1>2, <1>3

\* The bypass setting asked for last is in force, over any number of new lists.
THEOREM SettingSurvives == Spec => []BypassKept
<1>1. Init => SettingKept
  BY DEF Init, SettingKept
<1>2. SettingKept => BypassKept
  BY DEF SettingKept, BypassKept
<1> QED
  BY <1>1, <1>2, Invariant, NextKeepsSetting, PTL DEF Spec

-----------------------------------------------------------------------------
(* Panics.                                                                 *)

\* A request that found lists finds them gone only after a Load that failed.
FoundLists ==
  \A r \in Request :
    /\ pc[r] \notin {"new", "done", "crashed"} /\ active = Nil => emptied
    /\ pc[r] = "crashed" => emptied

LEMMA NextKeepsFound == IInv /\ FoundLists /\ [Next]_vars => FoundLists'
<1> SUFFICES ASSUME IInv, FoundLists, [Next]_vars
             PROVE  FoundLists'
  OBVIOUS
<1> USE DEF FoundLists
<1>0. TypeOK /\ Linked
  BY DEF IInv
<1>1. ASSUME pc' = pc, emptied' = emptied, active' = active \/ active' # Nil
      PROVE  FoundLists'
  BY <1>1
<1>2. CASE Load
  <2>1. pc' = pc
    BY <1>2 DEF Load, RequestsGoOn, requests
  <2>2. CASE active' = Nil /\ emptied' = (emptied \/ active # Nil)
    BY <1>0, <2>1, <2>2 DEF TypeOK
  <2>3. CASE active' = Len(heap) + 1 /\ Len(heap) < MaxLists /\ UNCHANGED emptied
    <3>1. active' # Nil
      BY <1>0, <2>3, ConstantsOK DEF TypeOK
    <3> QED
      BY <1>1, <2>1, <2>3, <3>1
  <2> QED
    BY <1>2, <2>2, <2>3 DEF Load
<1>3. CASE Publish
  BY <1>0, <1>1, <1>3 DEF Publish, Linked, RequestsGoOn, requests
<1>4. CASE \/ Initialize \/ ParseLine \/ CopyBypass \/ ClearLoading \/ Save
           \/ \E f \in File : ParseRuleFile(f)
           \/ \E setting \in {"on", "off"} : SetBypass(setting)
  BY <1>1, <1>4 DEF Initialize, ParseLine, CopyBypass, ClearLoading, Save, ParseRuleFile,
     SetBypass, RequestsGoOn, requests
<1>5. ASSUME NEW r \in Request, Handler(r) PROVE FoundLists'
  <2> DEFINE Fine(label) ==
        /\ label \notin {"new", "done", "crashed"} /\ active = Nil => emptied
        /\ label = "crashed" => emptied
  <2>1. UNCHANGED <<active, emptied>>
    BY <1>0, <1>5, HandlerStep DEF matchers
  <2>2. ASSUME NEW label, Fine(label), pc' = [pc EXCEPT ![r] = label]
        PROVE  FoundLists'
    BY <1>0, <2>1, <2>2 DEF TypeOK
  <2>3. Fine("done") /\ Fine(pc[r])
    OBVIOUS
  <2>4. CASE Ask(r)
    BY <2>2, <2>3, <2>4 DEF Ask, Goto, Decide
  <2>5. ASSUME NEW at, NEW s, NEW ifEmpty, NEW otherwise, Look(r, at, s, ifEmpty, otherwise),
               at \notin {"new", "done", "crashed"},
               ifEmpty # "crashed", otherwise # "crashed"
        PROVE  FoundLists'
    BY <2>2, <2>3, <2>5 DEF Look, Goto, Decide
  <2>6. CASE AreListsLoaded(r)
    BY <2>5, <2>6 DEF AreListsLoaded
  <2>7. CASE Take(r)
    BY <2>2, <2>3, <2>7 DEF Take, Goto
  <2>8. CASE Test(r)
    BY <2>2, <2>3, <2>8 DEF Test, Decide
  <2> QED
    BY <1>5, <2>4, <2>6, <2>7, <2>8 DEF Handler
<1>6. CASE UNCHANGED vars
  BY <1>1, <1>6 DEF vars, matchers, requests
<1> QED
  BY <1>2, <1>3, <1>4, <1>5, <1>6 DEF Next, Embedder

\* Publishing new lists never makes a handler panic; a Load that fails may.
THEOREM CrashNeedsFailedLoad == Spec => []OnlyFailedLoadCrashes
<1>1. Init => FoundLists
  BY DEF Init, FoundLists
<1>2. FoundLists => OnlyFailedLoadCrashes
  BY DEF FoundLists, OnlyFailedLoadCrashes
<1> QED
  BY <1>1, <1>2, Invariant, NextKeepsFound, PTL DEF Spec
-----------------------------------------------------------------------------
(* Where the rules go.                                                     *)

\* Category id was fed the rule; a category holds the pattern; its lookups
\* find the rule.
Fed(m, id, rule) == \E k \in 1..Len(m.fed[id]) : m.fed[id][k] = rule
Holds(c, rule) ==
  \E k \in 1..Len(c.matchers) : \E j \in 1..Len(c.matchers[k]) : c.matchers[k][j] = rule
Knows(c, rule) ==
  IF IsDomainRule(rule) THEN c.blocked[DomainOf[rule]] # "absent" ELSE Holds(c, rule)

\* A category is where its list belongs, and all it knows it was fed.
Own(m, s, c) ==
  /\ c.id \in CategoryId /\ c.list = ListOf[c.id] /\ s = Section(c.list)
  /\ \A rule \in Rule : Holds(c, rule) => ~IsDomainRule(rule) /\ Fed(m, c.id, rule)
  /\ \A d \in Domain : c.blocked[d] # "absent" =>
       \E rule \in Rule :
         Fed(m, c.id, rule) /\ DomainOf[rule] = d /\ c.blocked[d] = Type(rule)

\* What a matcher was fed, some category of the right id knows.
Found(m, id, rule) ==
  LET s == Section(ListOf[id]) IN
  \E i \in 1..Len(m.cats[s]) : m.cats[s][i].id = id /\ Knows(m.cats[s][i], rule)

Sorted(m) ==
  /\ \A s \in Sections : \A i \in 1..Len(m.cats[s]) : Own(m, s, m.cats[s][i])
  /\ \A id \in CategoryId : \A rule \in Rule : Fed(m, id, rule) => Found(m, id, rule)

\* The last category is that of the file that is read.
Current(m, id) ==
  /\ m.last[1] = Section(ListOf[id]) /\ m.last[2] \in 1..Len(m.cats[m.last[1]])
  /\ m.cats[m.last[1]][m.last[2]].id = id

LEMMA DomainRules ==
  ASSUME NEW rule \in Rule
  PROVE  /\ IsDomainRule(rule) <=> DomainOf[rule] \in Domain
         /\ Type(rule) \in {"included", "excluded"}
BY ConstantsOK DEF IsDomainRule, Type

\* A rule put into a category.
LEMMA PutKnows ==
  ASSUME NEW c \in Category, c.matchers # << >>, NEW rule \in Rule
  PROVE  LET n == PutRule(c, rule)
         IN  /\ n.id = c.id /\ n.list = c.list
             /\ \A x : Holds(c, x) => Holds(n, x)
             /\ \A x : Holds(n, x) => Holds(c, x) \/ (x = rule /\ ~IsDomainRule(rule))
             /\ \A d \in Domain :
                  \/ n.blocked[d] = c.blocked[d]
                  \/ IsDomainRule(rule) /\ d = DomainOf[rule] /\ n.blocked[d] = Type(rule)
             /\ Knows(n, rule)
             /\ \A x \in Rule : Knows(c, x) => Knows(n, x)
<1> DEFINE n == PutRule(c, rule)
<1>1. /\ c.matchers \in Seq(Seq(Rule))
      /\ c.blocked \in [Domain -> {"absent", "included", "excluded"}]
  BY DEF Category
<1>2. CASE IsDomainRule(rule)
  <2> DEFINE new == [c.blocked EXCEPT ![DomainOf[rule]] = Type(rule)]
  <2>1. n = [c EXCEPT !.blocked = new]
    BY <1>2 DEF PutRule
  <2>2. /\ DomainOf[rule] \in Domain /\ new[DomainOf[rule]] = Type(rule) /\ Type(rule) # "absent"
        /\ \A d \in Domain : d # DomainOf[rule] => new[d] = c.blocked[d]
    BY <1>1, <1>2, DomainRules
  <2> HIDE DEF new, n
  <2>3. n.id = c.id /\ n.list = c.list /\ n.matchers = c.matchers /\ n.blocked = new
    BY <2>1 DEF Category
  <2>4. \A x : Holds(n, x) <=> Holds(c, x)
    BY <2>3 DEF Holds
  <2>5. \A x \in Rule : Knows(c, x) => Knows(n, x)
    BY <2>2, <2>3, <2>4, DomainRules DEF Knows
  <2> QED
    BY <1>2, <2>2, <2>3, <2>4, <2>5 DEF Knows, n
<1>3. CASE ~IsDomainRule(rule)
  <2> DEFINE old == c.matchers
             at == Len(old)
             grown == Append(old[at], rule)
             new == [old EXCEPT ![at] = grown]
  <2>1. n = [c EXCEPT !.matchers = new]
    BY <1>3 DEF PutRule
  <2>2. at \in 1..Len(old) /\ old[at] \in Seq(Rule) /\ at \in Nat
    BY <1>1
  <2>3. /\ Len(grown) = Len(old[at]) + 1 /\ grown[Len(grown)] = rule /\ Len(old[at]) \in Nat
        /\ \A j \in 1..Len(old[at]) : grown[j] = old[at][j]
    BY <2>2
  <2> HIDE DEF grown, old
  <2>4. /\ Len(new) = Len(old) /\ new[at] = grown
        /\ \A k \in 1..Len(old) : k # at => new[k] = old[k]
    BY <1>1, <2>2 DEF old
  <2> HIDE DEF new, n, at
  <2>5. n.id = c.id /\ n.list = c.list /\ n.matchers = new /\ n.blocked = c.blocked
    BY <2>1 DEF Category
  <2>6. ASSUME NEW x, Holds(c, x) PROVE Holds(n, x)
    <3>1. PICK k \in 1..Len(old) : \E j \in 1..Len(old[k]) : old[k][j] = x
      BY <2>6 DEF Holds, old
    <3>2. PICK j \in 1..Len(old[k]) : old[k][j] = x
      BY <3>1
    <3>3. j \in 1..Len(new[k]) /\ new[k][j] = x
      BY <2>2, <2>3, <2>4, <3>1, <3>2
    <3> QED
      BY <2>4, <2>5, <3>1, <3>3 DEF Holds
  <2>7. ASSUME NEW x, Holds(n, x) PROVE Holds(c, x) \/ x = rule
    <3>1. PICK k \in 1..Len(new) : \E j \in 1..Len(new[k]) : new[k][j] = x
      BY <2>5, <2>7 DEF Holds
    <3>5. PICK j \in 1..Len(new[k]) : new[k][j] = x
      BY <3>1
    <3>2. CASE k # at
      BY <2>4, <3>1, <3>5, <3>2 DEF Holds, old
    <3>3. CASE k = at /\ j \in 1..Len(old[at])
      BY <2>2, <2>3, <2>4, <3>1, <3>5, <3>3 DEF Holds, old
    <3>4. CASE k = at /\ j \notin 1..Len(old[at])
      <4>1. j = Len(grown)
        BY <2>3, <2>4, <3>1, <3>5, <3>4
      <4> QED
        BY <2>3, <2>4, <3>1, <3>5, <3>4, <4>1
    <3> QED
      BY <3>2, <3>3, <3>4
  <2>8. Holds(n, rule)
    <3>1. Len(grown) \in 1..Len(grown)
      BY <2>3
    <3> QED
      BY <2>2, <2>3, <2>4, <2>5, <3>1 DEF Holds
  <2>9. \A x \in Rule : Knows(c, x) => Knows(n, x)
    BY <2>5, <2>6 DEF Knows
  <2> QED
    BY <1>3, <2>5, <2>6, <2>7, <2>8, <2>9 DEF Knows, n
<1> QED
  BY <1>2, <1>3

\* One category is replaced by one that knows no less, for what was fed.
LEMMA EditSorts ==
  ASSUME NEW m \in Matcher, NEW n, Sorted(m), NEW s \in Sections, NEW i \in 1..Len(m.cats[s]),
         NEW c, Edits(m, n, s, i, c), c.id = m.cats[s][i].id, Own(n, s, c),
         \A x \in Rule : Knows(m.cats[s][i], x) => Knows(c, x),
         \A id \in CategoryId : \A x \in Rule : Fed(m, id, x) => Fed(n, id, x),
         \A id \in CategoryId : \A x \in Rule :
           Fed(n, id, x) => Fed(m, id, x) \/ (id = c.id /\ Knows(c, x))
  PROVE  Sorted(n)
<1>1. ASSUME NEW t \in Sections, NEW j \in 1..Len(n.cats[t]) PROVE Own(n, t, n.cats[t][j])
  <2>1. j \in 1..Len(m.cats[t]) /\ n.cats[t][j] = IF t = s /\ j = i THEN c ELSE m.cats[t][j]
    BY DEF Edits
  <2>2. CASE t = s /\ j = i
    BY <2>1, <2>2
  <2>3. CASE ~(t = s /\ j = i)
    <3>1. Own(m, t, n.cats[t][j])
      BY <2>1, <2>3 DEF Sorted
    <3> QED
      BY <3>1 DEF Own
  <2> QED
    BY <2>2, <2>3
<1>2. ASSUME NEW id \in CategoryId, NEW x \in Rule, Fed(n, id, x) PROVE Found(n, id, x)
  <2> DEFINE t == Section(ListOf[id])
  <2>1. t \in Sections
    BY DEF Section, Sections
  <2>2. CASE Fed(m, id, x)
    <3>1. PICK j \in 1..Len(m.cats[t]) : m.cats[t][j].id = id /\ Knows(m.cats[t][j], x)
      BY <2>2 DEF Sorted, Found
    <3>2. j \in 1..Len(n.cats[t]) /\ n.cats[t][j].id = id /\ Knows(n.cats[t][j], x)
      BY <2>1, <3>1 DEF Edits
    <3> QED
      BY <3>2 DEF Found
  <2>3. CASE id = c.id /\ Knows(c, x)
    <3>1. t = s
      BY <2>3 DEF Own
    <3>2. i \in 1..Len(n.cats[t]) /\ n.cats[t][i] = c
      BY <2>1, <3>1 DEF Edits
    <3> QED
      BY <2>3, <3>2 DEF Found
  <2> QED
    BY <1>2, <2>2, <2>3
<1> QED
  BY <1>1, <1>2 DEF Sorted

LEMMA AddMatcherSorts ==
  ASSUME NEW m \in Matcher, NEW id \in CategoryId, Sized(m), Sorted(m)
  PROVE  Sorted(AddMatcher(m, id)) /\ Current(AddMatcher(m, id), id)
<1> DEFINE s == Section(ListOf[id])
<1>1. PICK n : n = AddMatcher(m, id)
  OBVIOUS
<1>2. s \in Sections /\ "ordinary" \in Sections /\ \A t \in Sections : m.cats[t] \in Seq(Category)
  BY MatcherParts DEF Section, Sections
<1>3. n.fed = m.fed
  BY <1>1, AddMatcherEffect
<1>4. \A x, y : Fed(n, x, y) <=> Fed(m, x, y)
  BY <1>3 DEF Fed
<1>5. CASE /\ n.last = <<s, Len(m.cats[s]) + 1>>
           /\ \A t \in Sections :
                n.cats[t] = IF t = s THEN Append(m.cats[t], NewCategory(id)) ELSE m.cats[t]
  <2> DEFINE at == Len(m.cats[s]) + 1
             new == NewCategory(id)
  <2>1. /\ Len(n.cats[s]) = at /\ n.cats[s][at] = new /\ at \in 1..at
        /\ \A i \in 1..at : i = at \/ (i \in 1..Len(m.cats[s]) /\ n.cats[s][i] = m.cats[s][i])
        /\ \A i \in 1..Len(m.cats[s]) : i \in 1..at /\ n.cats[s][i] = m.cats[s][i]
    <3>1. PICK w \in Seq(Category) : w = m.cats[s]
      BY <1>2
    <3>2. n.cats[s] = Append(w, new)
      BY <1>2, <1>5, <3>1
    <3> HIDE DEF new
    <3>3. /\ Len(Append(w, new)) = Len(w) + 1 /\ Len(w) \in Nat
          /\ Append(w, new)[Len(w) + 1] = new
          /\ \A i \in 1..Len(w) : Append(w, new)[i] = w[i]
      OBVIOUS
    <3>4. \A i \in 1..(Len(w) + 1) : i = Len(w) + 1 \/ i \in 1..Len(w)
      BY <3>3
    <3> QED
      BY <3>1, <3>2, <3>3, <3>4
  <2>2. /\ new.id = id /\ new.list = ListOf[id] /\ new.matchers = << << >> >>
        /\ \A d \in Domain : new.blocked[d] = "absent"
    BY DEF NewCategory
  <2> HIDE DEF new, at
  <2>3. \A x : ~Holds(new, x)
    <3>1. Len(new.matchers) = 1 /\ Len(new.matchers[1]) = 0
      BY <2>2
    <3> QED
      BY <3>1 DEF Holds
  <2>4. Own(n, s, new)
    BY <2>2, <2>3 DEF Own
  <2>5. ASSUME NEW t \in Sections, NEW i \in 1..Len(n.cats[t]) PROVE Own(n, t, n.cats[t][i])
    <3>1. CASE t = s /\ i = at
      BY <2>1, <2>4, <3>1
    <3>2. CASE ~(t = s /\ i = at)
      <4>1. i \in 1..Len(m.cats[t]) /\ n.cats[t][i] = m.cats[t][i]
        BY <1>5, <2>1, <3>2
      <4>2. Own(m, t, n.cats[t][i])
        BY <4>1 DEF Sorted
      <4> QED
        BY <1>4, <4>2 DEF Own
    <3> QED
      BY <3>1, <3>2
  <2>6. ASSUME NEW x \in CategoryId, NEW y \in Rule, Fed(n, x, y) PROVE Found(n, x, y)
    <3> DEFINE t == Section(ListOf[x])
    <3>1. PICK i \in 1..Len(m.cats[t]) : m.cats[t][i].id = x /\ Knows(m.cats[t][i], y)
      BY <1>4, <2>6 DEF Sorted, Found
    <3>2. t \in Sections
      BY DEF Section, Sections
    <3>3. i \in 1..Len(n.cats[t]) /\ n.cats[t][i] = m.cats[t][i]
      BY <1>5, <2>1, <3>1, <3>2
    <3> QED
      BY <3>1, <3>3 DEF Found
  <2>7. n.last[1] = s /\ n.last[2] = at
    BY <1>5 DEF at
  <2> QED
    BY <1>1, <2>1, <2>2, <2>5, <2>6, <2>7 DEF Sorted, Current
<1>6. ASSUME NEW at \in 1..Len(m.cats["ordinary"]), NEW old, NEW grown,
             old = m.cats["ordinary"][at],
             grown = [old EXCEPT !.matchers = Append(old.matchers, << >>)],
             old \in Category, old.id = id, n.last = <<"ordinary", at>>,
             Edits(m, n, "ordinary", at, grown)
      PROVE  Sorted(n) /\ Current(n, id)
  <2>1. Own(m, "ordinary", old)
    BY <1>2, <1>6 DEF Sorted
  <2>2. s = "ordinary"
    BY <1>6, <2>1 DEF Own
  <2>3. /\ grown.id = old.id /\ grown.list = old.list /\ grown.blocked = old.blocked
        /\ grown.matchers = Append(old.matchers, << >>) /\ old.matchers \in Seq(Seq(Rule))
    BY <1>6 DEF Category
  <2>4. \A x : Holds(grown, x) <=> Holds(old, x)
    <3>1. PICK v, w : v = old.matchers /\ w = grown.matchers
      OBVIOUS
    <3>2. /\ Len(w) = Len(v) + 1 /\ Len(v) \in Nat /\ w[Len(v) + 1] = << >>
          /\ \A k \in 1..Len(v) : w[k] = v[k]
      BY <2>3, <3>1
    <3>3. ASSUME NEW x, NEW k \in 1..Len(w), NEW j \in 1..Len(w[k]), w[k][j] = x PROVE Holds(old, x)
      <4>1. k # Len(v) + 1
        BY <3>2, <3>3
      <4>2. k \in 1..Len(v)
        BY <3>2, <4>1
      <4> QED
        BY <3>1, <3>2, <3>3, <4>2 DEF Holds
    <3>4. ASSUME NEW x, NEW k \in 1..Len(v), NEW j \in 1..Len(v[k]), v[k][j] = x PROVE Holds(grown, x)
      <4>1. k \in 1..Len(w) /\ w[k] = v[k]
        BY <3>2
      <4> QED
        BY <3>1, <3>4, <4>1 DEF Holds
    <3> QED
      BY <3>1, <3>3, <3>4 DEF Holds
  <2>5. \A x \in Rule : Knows(old, x) => Knows(grown, x)
    BY <2>3, <2>4 DEF Knows
  <2>6. Own(n, "ordinary", grown)
    BY <1>4, <2>1, <2>3, <2>4 DEF Own
  <2>7. Sorted(n)
    <3>1. /\ grown.id = m.cats["ordinary"][at].id
          /\ \A x \in Rule : Knows(m.cats["ordinary"][at], x) => Knows(grown, x)
      BY <1>6, <2>3, <2>5
    <3>2. /\ \A x \in CategoryId : \A y \in Rule : Fed(m, x, y) => Fed(n, x, y)
          /\ \A x \in CategoryId : \A y \in Rule :
               Fed(n, x, y) => Fed(m, x, y) \/ (x = grown.id /\ Knows(grown, y))
      BY <1>4
    <3>3. "ordinary" \in Sections /\ Edits(m, n, "ordinary", at, grown)
      BY <1>2, <1>6
    <3> QED
      BY <2>6, <3>1, <3>2, <3>3, EditSorts
  <2>8. Current(n, id)
    <3>1. n.last[1] = "ordinary" /\ n.last[2] = at
      BY <1>6
    <3>2. at \in 1..Len(n.cats["ordinary"]) /\ n.cats["ordinary"][at] = grown
      BY <1>2, <1>6 DEF Edits
    <3> QED
      BY <1>6, <2>2, <2>3, <3>1, <3>2 DEF Current
  <2> QED
    BY <2>7, <2>8
<1>7. \/ /\ n.last = <<s, Len(m.cats[s]) + 1>>
         /\ \A t \in Sections :
              n.cats[t] = IF t = s THEN Append(m.cats[t], NewCategory(id)) ELSE m.cats[t]
      \/ \E at \in 1..Len(m.cats["ordinary"]) :
           LET old == m.cats["ordinary"][at]
               grown == [old EXCEPT !.matchers = Append(old.matchers, << >>)]
           IN  /\ old \in Category /\ old.id = id
               /\ n.last = <<"ordinary", at>>
               /\ Edits(m, n, "ordinary", at, grown)
  BY <1>1, AddMatcherEffect
<1> HIDE DEF s
<1> QED
  BY <1>1, <1>5, <1>6, <1>7

LEMMA AddRuleSorts ==
  ASSUME NEW m, Filling(m), NEW id \in CategoryId, NEW rule \in Rule, Sorted(m), Current(m, id)
  PROVE  Sorted(AddRule(m, id, rule)) /\ Current(AddRule(m, id, rule), id)
<1>1. CASE rule \in Broken
  BY <1>1, AddRuleFills
<1>2. CASE rule \notin Broken
  <2>1. PICK n : n = AddRule(m, id, rule)
    OBVIOUS
  <2>2. PICK p \in {m, AddMatcher(m, id)} : Puts(p, n, id, rule)
    BY <1>2, <2>1, AddRuleFills
  <2>3. Filling(p) /\ Sorted(p) /\ Current(p, id) /\ p \in Matcher
    BY <2>2, AddMatcherSorts DEF Puts, Filling
  <2>4. PICK s, i, old :
          /\ s = p.last[1] /\ i = p.last[2] /\ s \in Sections /\ i \in 1..Len(p.cats[s])
          /\ old = p.cats[s][i]
    BY <2>2 DEF Puts
  <2> DEFINE c == PutRule(old, rule)
  <2>5. /\ n.last = p.last /\ Edits(p, n, s, i, c)
        /\ n.fed = [p.fed EXCEPT ![id] = Append(p.fed[id], rule)]
    BY <2>2, <2>4 DEF Puts
  <2>6. old \in Category /\ old.id = id /\ old.matchers # << >> /\ Own(p, s, old)
    <3>1. p.cats[s] \in Seq(Category)
      BY <2>3, <2>4, MatcherParts
    <3>2. old \in Category
      BY <2>4, <3>1
    <3> QED
      BY <2>3, <2>4, <3>2 DEF Current, Filling, LastExists, Sorted
  <2>7. /\ c.id = id /\ c.list = old.list
        /\ \A x : Holds(c, x) => Holds(old, x) \/ (x = rule /\ ~IsDomainRule(rule))
        /\ \A d \in Domain :
             \/ c.blocked[d] = old.blocked[d]
             \/ IsDomainRule(rule) /\ d = DomainOf[rule] /\ c.blocked[d] = Type(rule)
        /\ Knows(c, rule)
        /\ \A x \in Rule : Knows(old, x) => Knows(c, x)
    BY <2>6, PutKnows
  <2> HIDE DEF c
  <2>8. /\ \A z \in CategoryId : \A x \in Rule : Fed(p, z, x) => Fed(n, z, x)
        /\ \A z \in CategoryId : \A x \in Rule :
             Fed(n, z, x) => Fed(p, z, x) \/ (z = id /\ x = rule)
        /\ Fed(n, id, rule)
    <3>1. p.fed \in [CategoryId -> Seq(Rule)]
      BY <2>3 DEF Matcher
    <3>2. PICK f \in Seq(Rule) : f = p.fed[id]
      BY <3>1
    <3>3. n.fed[id] = Append(f, rule) /\ \A z \in CategoryId : z # id => n.fed[z] = p.fed[z]
      BY <2>5, <3>1, <3>2
    <3>4. /\ Len(n.fed[id]) = Len(f) + 1 /\ Len(f) \in Nat /\ n.fed[id][Len(f) + 1] = rule
          /\ \A k \in 1..Len(f) : n.fed[id][k] = f[k]
      BY <3>2, <3>3
    <3>5. /\ \A k \in 1..Len(f) : k \in 1..Len(n.fed[id])
          /\ \A k \in 1..Len(n.fed[id]) : k \in 1..Len(f) \/ k = Len(f) + 1
          /\ Len(f) + 1 \in 1..Len(n.fed[id])
      BY <3>4
    <3> QED
      BY <3>2, <3>3, <3>4, <3>5 DEF Fed
  <2>9. Own(n, s, c)
    <3>1. /\ c.id \in CategoryId /\ c.list = ListOf[c.id] /\ s = Section(c.list)
      BY <2>6, <2>7 DEF Own
    <3>2. ASSUME NEW x \in Rule, Holds(c, x) PROVE ~IsDomainRule(x) /\ Fed(n, c.id, x)
      BY <2>6, <2>7, <2>8, <3>2 DEF Own
    <3>3. ASSUME NEW d \in Domain, c.blocked[d] # "absent"
          PROVE  \E x \in Rule : Fed(n, c.id, x) /\ DomainOf[x] = d /\ c.blocked[d] = Type(x)
      <4>1. CASE c.blocked[d] = old.blocked[d]
        <5>1. PICK x \in Rule : Fed(p, old.id, x) /\ DomainOf[x] = d /\ old.blocked[d] = Type(x)
          BY <2>6, <3>3, <4>1 DEF Own
        <5> QED
          BY <2>6, <2>7, <2>8, <4>1, <5>1
      <4>2. CASE IsDomainRule(rule) /\ d = DomainOf[rule] /\ c.blocked[d] = Type(rule)
        BY <2>7, <2>8, <4>2
      <4> QED
        BY <2>7, <4>1, <4>2
    <3> QED
      BY <3>1, <3>2, <3>3 DEF Own
  <2>10. Sorted(n)
    <3>1. c.id = p.cats[s][i].id /\ \A x \in Rule : Knows(p.cats[s][i], x) => Knows(c, x)
      BY <2>4, <2>6, <2>7
    <3>2. \A z \in CategoryId : \A x \in Rule :
            Fed(n, z, x) => Fed(p, z, x) \/ (z = c.id /\ Knows(c, x))
      BY <2>7, <2>8
    <3> QED
      BY <2>3, <2>4, <2>5, <2>8, <2>9, <3>1, <3>2, EditSorts
  <2>11. Current(n, id)
    <3>1. i \in 1..Len(n.cats[s]) /\ n.cats[s][i] = c
      BY <2>4, <2>5 DEF Edits
    <3> QED
      BY <2>3, <2>4, <2>5, <2>7, <3>1 DEF Current
  <2> QED
    BY <2>1, <2>10, <2>11
<1> QED
  BY <1>1, <1>2

\* Neither the bypass flag nor the last category matters.
LEMMA SortedSame ==
  ASSUME NEW m, NEW n, n.cats = m.cats, n.fed = m.fed
  PROVE  /\ Sorted(m) => Sorted(n)
         /\ n.last = m.last => \A id : Current(m, id) => Current(n, id)
<1>1. \A x, y : Fed(n, x, y) <=> Fed(m, x, y)
  BY DEF Fed
<1>2. \A s, c : Own(m, s, c) => Own(n, s, c)
  BY <1>1 DEF Own
<1>3. \A x, y : Found(m, x, y) => Found(n, x, y)
  BY DEF Found
<1> QED
  BY <1>1, <1>2, <1>3 DEF Sorted, Current

LEMMA EmptySorted ==
  ASSUME NEW b \in BOOLEAN
  PROVE  Sorted(EmptyMatcher(b))
<1> DEFINE m == EmptyMatcher(b)
<1>1. \A s \in Sections : Len(m.cats[s]) = 0
  BY DEF EmptyMatcher
<1>2. \A id \in CategoryId : Len(m.fed[id]) = 0
  BY DEF EmptyMatcher
<1> HIDE DEF m
<1>3. \A id \in CategoryId : \A x : ~Fed(m, id, x)
  BY <1>2 DEF Fed
<1> QED
  BY <1>1, <1>3 DEF Sorted, m

-----------------------------------------------------------------------------
(* Sequences of sequences.                                                 *)

\* c holds what the first pieces of x join to, up to the m-th.
JoinsTo(x, m, c) ==
  c = [i \in 1..m |-> IF i = 1 THEN x[i] ELSE c[i - 1] \o x[i]]

\* FlattenSeq's recursive function exists, by the least length for which it would not.
LEMMA JoinExists ==
  ASSUME NEW x, NEW m \in Nat
  PROVE  \E c : JoinsTo(x, m, c)
<1> DEFINE S == {k \in Nat : ~(\E c : JoinsTo(x, k, c))}
<1> SUFFICES ASSUME S # {} PROVE FALSE
  OBVIOUS
<1>1. PICK k \in S : \A j \in S : k <= j
  BY LeastOfNaturals
<1>2. CASE k = 0
  <2>1. PICK c : c = [i \in 1..0 |-> x[i]]
    OBVIOUS
  <2>2. \A i \in 1..0 : FALSE
    OBVIOUS
  <2>3. JoinsTo(x, 0, c)
    BY <2>1, <2>2 DEF JoinsTo
  <2> QED
    BY <1>1, <1>2, <2>3
<1>3. CASE k # 0
  <2>1. k \in Nat /\ k - 1 \in Nat /\ k - 1 \notin S
    BY <1>1, <1>3
  <2>2. PICK c : JoinsTo(x, k - 1, c)
    BY <2>1
  <2>3. \A i \in 1..(k - 1) : c[i] = IF i = 1 THEN x[i] ELSE c[i - 1] \o x[i]
    BY <2>2 DEF JoinsTo
  <2>4. PICK e : e = [i \in 1..k |-> IF i # k THEN c[i] ELSE IF i = 1 THEN x[i] ELSE c[i - 1] \o x[i]]
    OBVIOUS
  <2>5. \A i \in 1..k : i # k => i \in 1..(k - 1) /\ e[i] = c[i]
    BY <2>1, <2>4
  <2>6. \A i \in 1..k : i # 1 => i - 1 \in 1..k /\ i - 1 # k
    BY <2>1
  <2>7. \A i \in 1..k : e[i] = IF i = 1 THEN x[i] ELSE e[i - 1] \o x[i]
    <3> TAKE i \in 1..k
    <3>1. CASE i # k
      BY <2>3, <2>5, <2>6, <3>1
    <3>2. CASE i = k
      <4>1. i # 1 => e[i - 1] = c[i - 1]
        BY <2>5, <2>6, <3>2
      <4> QED
        BY <2>4, <3>2, <4>1
    <3> QED
      BY <3>1, <3>2
  <2>8. JoinsTo(x, k, e)
    BY <2>4, <2>7 DEF JoinsTo
  <2> QED
    BY <1>1, <2>8
<1> QED
  BY <1>2, <1>3

\* The joins of a sequence's prefixes, the last of which is the whole.
Gathers(S, x, n, c) ==
  /\ \A i \in 1..n : c[i] \in Seq(S) /\ c[i] = IF i = 1 THEN x[i] ELSE c[i - 1] \o x[i]
  /\ FlattenSeq(x) = c[n]

LEMMA Joins ==
  ASSUME NEW S, NEW x \in Seq(Seq(S)), NEW n, n = Len(x), n # 0
  PROVE  \E c : Gathers(S, x, n, c)
<1>1. PICK m \in Nat : m = Len(x)
  OBVIOUS
<1>2. FlattenSeq(x) = (CHOOSE c : JoinsTo(x, m, c))[m]
  BY <1>1 DEF FlattenSeq, JoinsTo
<1>3. PICK c : c = (CHOOSE e : JoinsTo(x, m, e)) /\ JoinsTo(x, m, c)
  BY JoinExists
<1>4. \A i \in 1..m : c[i] = IF i = 1 THEN x[i] ELSE c[i - 1] \o x[i]
  BY <1>3 DEF JoinsTo
<1> DEFINE Bad == {i \in 1..m : c[i] \notin Seq(S)}
<1>5. ASSUME Bad # {} PROVE FALSE
  <2>1. PICK k \in Bad : \A j \in Bad : k <= j
    <3>1. Bad \in SUBSET Nat
      OBVIOUS
    <3> HIDE DEF Bad
    <3> QED
      BY <1>5, <3>1, LeastOfNaturals
  <2>2. x[k] \in Seq(S)
    BY <1>1, <2>1
  <2>3. CASE k = 1
    BY <1>4, <2>1, <2>2, <2>3
  <2>4. CASE k # 1
    <3>1. k - 1 \in 1..m /\ k - 1 \notin Bad
      BY <2>1, <2>4
    <3>2. c[k - 1] \in Seq(S) /\ c[k] = c[k - 1] \o x[k]
      BY <1>4, <2>1, <2>4, <3>1
    <3>3. c[k - 1] \o x[k] \in Seq(S)
      BY <2>2, <3>2, ConcatProperties
    <3> QED
      BY <2>1, <3>2, <3>3
  <2> QED
    BY <2>3, <2>4
<1>6. Gathers(S, x, n, c)
  BY <1>1, <1>2, <1>3, <1>4, <1>5 DEF Gathers
<1> QED
  BY <1>6

\* Of nothing, of sequences over S, and with one piece more.
LEMMA FlattenNone == FlattenSeq(<< >>) = << >>
BY DEF FlattenSeq

LEMMA FlattenType ==
  ASSUME NEW S, NEW x \in Seq(Seq(S))
  PROVE  FlattenSeq(x) \in Seq(S)
<1>1. CASE Len(x) = 0
  <2>1. x = << >>
    BY <1>1, EmptySeq
  <2>2. << >> \in Seq(S)
    BY EmptySeq
  <2> QED
    BY <2>1, <2>2, FlattenNone
<1>2. CASE Len(x) # 0
  <2>1. PICK c : Gathers(S, x, Len(x), c)
    BY <1>2, Joins
  <2>2. Len(x) \in 1..Len(x)
    BY <1>2
  <2> QED
    BY <2>1, <2>2 DEF Gathers
<1> QED
  BY <1>1, <1>2

\* c holds the joins of the first n pieces of x.
JoinsFor(x, n, c) == \A i \in 1..n : c[i] = IF i = 1 THEN x[i] ELSE c[i - 1] \o x[i]

\* Sequences of pieces that agree up to some piece join to the same that far.
LEMMA JoinsAgree ==
  ASSUME NEW x, NEW y, NEW c, NEW e, NEW n \in Nat,
         JoinsFor(x, n, c), JoinsFor(y, n, e),
         \A i \in 1..n : y[i] = x[i]
  PROVE  \A i \in 1..n : e[i] = c[i]
<1> DEFINE Bad == {i \in 1..n : e[i] # c[i]}
<1> SUFFICES ASSUME Bad # {} PROVE FALSE
  OBVIOUS
<1>1. PICK k \in Bad : \A j \in Bad : k <= j
  <2>1. Bad \in SUBSET Nat
    OBVIOUS
  <2> HIDE DEF Bad
  <2> QED
    BY <2>1, LeastOfNaturals
<1>2. CASE k = 1
  BY <1>1, <1>2 DEF JoinsFor
<1>3. CASE k # 1
  <2>1. k - 1 \in 1..n /\ k - 1 \notin Bad
    BY <1>1, <1>3
  <2> QED
    BY <1>1, <1>3, <2>1 DEF JoinsFor
<1> QED
  BY <1>2, <1>3

\* A piece added at the end joins the end.
LEMMA FlattenAppend ==
  ASSUME NEW S, NEW x \in Seq(Seq(S)), NEW p \in Seq(S)
  PROVE  FlattenSeq(Append(x, p)) = FlattenSeq(x) \o p
<1>1. PICK y : y = Append(x, p)
  OBVIOUS
<1>2. /\ y \in Seq(Seq(S)) /\ Len(y) = Len(x) + 1 /\ Len(x) \in Nat
      /\ y[Len(x) + 1] = p /\ \A i \in 1..Len(x) : y[i] = x[i]
  BY <1>1, AppendProperties
<1>3. PICK e : /\ \A i \in 1..Len(y) :
                    e[i] \in Seq(S) /\ e[i] = IF i = 1 THEN y[i] ELSE e[i - 1] \o y[i]
               /\ FlattenSeq(y) = e[Len(y)]
  <2>1. Len(y) # 0
    BY <1>2
  <2>2. PICK e : Gathers(S, y, Len(y), e)
    BY <1>2, <2>1, Joins
  <2> QED
    BY <2>2 DEF Gathers
<1>4. CASE Len(x) = 0
  <2>1. x = << >> /\ FlattenSeq(x) = << >>
    BY <1>4, EmptySeq, FlattenNone
  <2>2. FlattenSeq(y) = p
    BY <1>2, <1>3, <1>4
  <2>3. << >> \o p = p
    BY ConcatEmptySeq
  <2> QED
    BY <1>1, <2>1, <2>2, <2>3
<1>5. CASE Len(x) # 0
  <2>1. PICK c : /\ \A i \in 1..Len(x) : c[i] = IF i = 1 THEN x[i] ELSE c[i - 1] \o x[i]
                 /\ FlattenSeq(x) = c[Len(x)]
    <3>1. PICK c : Gathers(S, x, Len(x), c)
      BY <1>5, Joins
    <3> QED
      BY <3>1 DEF Gathers
  <2>2. \A i \in 1..Len(x) : e[i] = IF i = 1 THEN y[i] ELSE e[i - 1] \o y[i]
    <3>1. \A i \in 1..Len(x) : i \in 1..Len(y)
      BY <1>2
    <3> QED
      BY <1>3, <3>1
  <2>3. PICK n \in Nat : n = Len(x)
    BY <1>2
  <2>4. \A i \in 1..n : e[i] = c[i]
    <3>1. JoinsFor(x, n, c) /\ JoinsFor(y, n, e) /\ \A i \in 1..n : y[i] = x[i]
      BY <1>2, <2>1, <2>2, <2>3 DEF JoinsFor
    <3> QED
      BY <3>1, JoinsAgree
  <2>5. Len(y) \in 1..Len(y) /\ Len(y) # 1 /\ Len(y) - 1 = Len(x) /\ Len(x) \in 1..Len(x)
    BY <1>2, <1>5
  <2>6. e[Len(y)] = e[Len(x)] \o p
    BY <1>2, <1>3, <2>5
  <2> QED
    BY <1>1, <1>3, <2>1, <2>3, <2>4, <2>5, <2>6
<1> QED
  BY <1>4, <1>5

\* Concatenation and Append associate.
LEMMA ConcatOfAppend ==
  ASSUME NEW S, NEW a \in S
  PROVE  \A u, v \in Seq(S) : u \o Append(v, a) = Append(u \o v, a)
<1> SUFFICES ASSUME NEW u \in Seq(S), NEW v \in Seq(S)
             PROVE  u \o Append(v, a) = Append(u \o v, a)
  OBVIOUS
<1>1. PICK w : w = Append(v, a)
  OBVIOUS
<1>2. /\ w \in Seq(S) /\ Len(w) = Len(v) + 1 /\ w[Len(v) + 1] = a
      /\ \A i \in 1..Len(v) : w[i] = v[i]
  BY <1>1, AppendProperties
<1>3. PICK z : z = u \o v
  OBVIOUS
<1>4. /\ z \in Seq(S) /\ Len(z) = Len(u) + Len(v)
      /\ \A i \in 1..(Len(u) + Len(v)) : z[i] = IF i <= Len(u) THEN u[i] ELSE v[i - Len(u)]
  BY <1>3, ConcatProperties
<1>5. PICK l : l = u \o w
  OBVIOUS
<1>6. /\ l \in Seq(S) /\ Len(l) = Len(u) + Len(w)
      /\ \A i \in 1..(Len(u) + Len(w)) : l[i] = IF i <= Len(u) THEN u[i] ELSE w[i - Len(u)]
  <2>1. w \in Seq(S)
    BY <1>2
  <2> QED
    BY <1>5, <2>1, ConcatProperties
<1>7. PICK r : r = Append(z, a)
  OBVIOUS
<1>8. /\ r \in Seq(S) /\ Len(r) = Len(z) + 1 /\ r[Len(z) + 1] = a
      /\ \A i \in 1..Len(z) : r[i] = z[i]
  BY <1>4, <1>7, AppendProperties
<1>9. Len(u) \in Nat /\ Len(v) \in Nat
  OBVIOUS
<1>10. ASSUME NEW i \in 1..Len(l) PROVE l[i] = r[i]
  <2>1. CASE i = Len(z) + 1
    <3>1. ~(i <= Len(u)) /\ i - Len(u) = Len(v) + 1
      BY <1>4, <1>9, <2>1
    <3> QED
      BY <1>2, <1>6, <1>8, <2>1, <3>1
  <2>2. CASE i # Len(z) + 1
    <3>1. i \in 1..Len(z) /\ (~(i <= Len(u)) => i - Len(u) \in 1..Len(v))
      BY <1>2, <1>4, <1>6, <1>9, <2>2
    <3> QED
      BY <1>2, <1>4, <1>6, <1>8, <3>1
  <2> QED
    BY <2>1, <2>2
<1>11. l = r
  <2>1. Len(l) = Len(r)
    BY <1>2, <1>4, <1>6, <1>8, <1>9
  <2> QED
    BY <1>6, <1>8, <1>10, <2>1, SeqEqual
<1> QED
  BY <1>1, <1>3, <1>5, <1>7, <1>11

\* So does an element added to a piece after which the others are empty.
LEMMA FlattenGrow ==
  ASSUME NEW S, NEW x \in Seq(Seq(S)), NEW y \in Seq(Seq(S)), Len(y) = Len(x),
         NEW k \in 1..Len(x), NEW a \in S, y[k] = Append(x[k], a),
         \A i \in 1..Len(x) : i # k => y[i] = x[i],
         \A i \in 1..Len(x) : i > k => x[i] = << >>
  PROVE  FlattenSeq(y) = Append(FlattenSeq(x), a)
<1>0. Len(x) \in Nat /\ Len(x) # 0
  OBVIOUS
<1>1. PICK c : /\ \A i \in 1..Len(x) :
                    c[i] \in Seq(S) /\ c[i] = IF i = 1 THEN x[i] ELSE c[i - 1] \o x[i]
               /\ FlattenSeq(x) = c[Len(x)]
  <2>1. PICK c : Gathers(S, x, Len(x), c)
    BY <1>0, Joins
  <2> QED
    BY <2>1 DEF Gathers
<1>2. PICK e : /\ \A i \in 1..Len(x) :
                    e[i] \in Seq(S) /\ e[i] = IF i = 1 THEN y[i] ELSE e[i - 1] \o y[i]
               /\ FlattenSeq(y) = e[Len(x)]
  <2>1. PICK e : Gathers(S, y, Len(x), e)
    BY <1>0, Joins
  <2> QED
    BY <2>1 DEF Gathers
<1>3. \A u, v \in Seq(S) : u \o Append(v, a) = Append(u \o v, a)
  BY ConcatOfAppend, Zenon
<1>4. \A u \in Seq(S) : u \o << >> = u
  BY ConcatEmptySeq
<1>5. \A i \in 1..Len(x) : x[i] \in Seq(S)
  OBVIOUS
<1> DEFINE Bad == {i \in 1..Len(x) : ~(e[i] = IF i < k THEN c[i] ELSE Append(c[i], a))}
<1>6. ASSUME Bad # {} PROVE FALSE
  <2>1. PICK i \in Bad : \A j \in Bad : i <= j
    <3>1. Bad \in SUBSET Nat
      OBVIOUS
    <3> HIDE DEF Bad
    <3> QED
      BY <1>6, <3>1, LeastOfNaturals
  <2>2. i \in 1..Len(x) /\ ~(e[i] = IF i < k THEN c[i] ELSE Append(c[i], a))
    BY <2>1
  <2>3. CASE i = 1
    <3>1. e[i] = y[i] /\ c[i] = x[i]
      BY <1>1, <1>2, <2>2, <2>3
    <3>2. i < k => y[i] = x[i]
      BY <2>2
    <3>3. ~(i < k) => i = k
      BY <2>3
    <3> QED
      BY <2>2, <3>1, <3>2, <3>3
  <2>4. CASE i # 1
    <3>1. i - 1 \in 1..Len(x) /\ i - 1 \notin Bad
      BY <2>1, <2>4
    <3>2. e[i - 1] = IF i - 1 < k THEN c[i - 1] ELSE Append(c[i - 1], a)
      BY <3>1
    <3> HIDE DEF Bad
    <3>3. e[i] = e[i - 1] \o y[i] /\ c[i] = c[i - 1] \o x[i] /\ c[i - 1] \in Seq(S) /\ x[i] \in Seq(S)
      BY <1>1, <1>2, <1>5, <2>2, <2>4, <3>1
    <3>4. CASE i < k
      <4>1. y[i] = x[i] /\ i - 1 < k
        BY <1>0, <2>2, <3>4
      <4> QED
        BY <2>2, <3>2, <3>3, <3>4, <4>1
    <3>5. CASE i = k
      <4>1. e[i - 1] = c[i - 1] /\ y[i] = Append(x[i], a)
        BY <1>0, <2>2, <3>2, <3>5
      <4>2. c[i - 1] \o Append(x[i], a) = Append(c[i - 1] \o x[i], a)
        BY <1>3, <3>3
      <4>3. e[i] = Append(c[i], a)
        BY <3>3, <4>1, <4>2
      <4> QED
        BY <1>0, <2>2, <3>5, <4>3
    <3>6. CASE i > k
      <4>1. y[i] = << >> /\ x[i] = << >> /\ e[i - 1] = Append(c[i - 1], a)
        <5>1. i # k /\ ~(i - 1 < k)
          BY <1>0, <2>2, <3>6
        <5>2. y[i] = x[i] /\ x[i] = << >>
          BY <2>2, <3>6, <5>1
        <5> QED
          BY <3>2, <5>1, <5>2
      <4>2. Append(c[i - 1], a) \in Seq(S)
        BY <3>3
      <4>3. c[i] = c[i - 1] /\ e[i] = e[i - 1]
        BY <1>4, <3>3, <4>1, <4>2
      <4>4. e[i] = Append(c[i], a) /\ ~(i < k)
        <5>1. ~(i < k)
          BY <1>0, <2>2, <3>6
        <5> QED
          BY <4>1, <4>3, <5>1
      <4> QED
        BY <2>2, <4>4
    <3> QED
      BY <2>2, <3>4, <3>5, <3>6
  <2> QED
    BY <2>3, <2>4
<1>7. e[Len(x)] = Append(c[Len(x)], a)
  <2>1. Len(x) \in 1..Len(x) /\ ~(Len(x) < k)
    BY <1>0
  <2> QED
    BY <1>6, <2>1
<1> QED
  BY <1>1, <1>2, <1>7

-----------------------------------------------------------------------------
(* What is imported.                                                       *)

\* Patterns are added in the order of the rules.
LEMMA PatternsOfAppend ==
  ASSUME NEW rules \in Seq(Rule), NEW rule \in Rule
  PROVE  /\ PatternsOf(rules) \in Seq(Rule)
         /\ PatternsOf(Append(rules, rule)) =
              IF IsDomainRule(rule) THEN PatternsOf(rules) ELSE Append(PatternsOf(rules), rule)
<1> DEFINE Piece(x) == IF IsDomainRule(x) THEN << >> ELSE <<x>>
           Pieces(l) == [k \in DOMAIN l |-> Piece(l[k])]
<1>1. \A x \in Rule : Piece(x) \in Seq(Rule)
  OBVIOUS
<1>2. \A l : PatternsOf(l) = FlattenSeq(Pieces(l))
  BY DEF PatternsOf
<1> HIDE DEF Piece
<1>3. \A l \in Seq(Rule) :
        /\ Pieces(l) \in Seq(Seq(Rule)) /\ Len(Pieces(l)) = Len(l)
        /\ \A k \in 1..Len(l) : Pieces(l)[k] = Piece(l[k])
  <2> TAKE l \in Seq(Rule)
  <2>1. PICK n \in Nat : n = Len(l) /\ DOMAIN l = 1..n /\ \A k \in 1..n : l[k] \in Rule
    OBVIOUS
  <2>2. Pieces(l) = [k \in 1..n |-> Piece(l[k])]
    BY <2>1
  <2>3. \A k \in 1..n : Piece(l[k]) \in Seq(Rule)
    BY <1>1, <2>1
  <2> HIDE DEF Pieces
  <2> QED
    BY <2>1, <2>2, <2>3
<1> HIDE DEF Pieces
<1>4. PICK more, p, q : more = Append(rules, rule) /\ p = Pieces(rules) /\ q = Pieces(more)
  OBVIOUS
<1>5. /\ more \in Seq(Rule) /\ Len(more) = Len(rules) + 1 /\ more[Len(rules) + 1] = rule
      /\ \A k \in 1..Len(rules) : more[k] = rules[k]
      /\ p \in Seq(Seq(Rule)) /\ Len(p) = Len(rules)
      /\ \A k \in 1..Len(rules) : p[k] = Piece(rules[k])
  BY <1>3, <1>4, AppendProperties
<1>6. /\ q \in Seq(Seq(Rule)) /\ Len(q) = Len(more)
      /\ \A k \in 1..Len(more) : q[k] = Piece(more[k])
  BY <1>3, <1>4, <1>5
<1>7. q = Append(p, Piece(rule))
  <2>1. PICK a : a = Append(p, Piece(rule))
    OBVIOUS
  <2>2. /\ a \in Seq(Seq(Rule)) /\ Len(a) = Len(p) + 1
        /\ a[Len(p) + 1] = Piece(rule) /\ \A k \in 1..Len(p) : a[k] = p[k]
    BY <1>1, <1>5, <2>1, AppendProperties
  <2>3. Len(rules) \in Nat
    OBVIOUS
  <2>4. ASSUME NEW k \in 1..Len(q) PROVE q[k] = a[k]
    <3>1. CASE k = Len(rules) + 1
      BY <1>5, <1>6, <2>2, <3>1
    <3>2. CASE k # Len(rules) + 1
      <4>1. k \in 1..Len(rules)
        BY <1>5, <1>6, <2>3, <3>2
      <4> QED
        BY <1>5, <1>6, <2>2, <4>1
    <3> QED
      BY <3>1, <3>2
  <2>5. Len(q) = Len(a)
    BY <1>5, <1>6, <2>2
  <2> QED
    BY <1>6, <2>1, <2>2, <2>4, <2>5, SeqEqual
<1>8. /\ PatternsOf(rules) = FlattenSeq(p) /\ FlattenSeq(p) \in Seq(Rule)
      /\ PatternsOf(more) = FlattenSeq(p) \o Piece(rule)
  BY <1>1, <1>2, <1>4, <1>5, <1>7, FlattenType, FlattenAppend
<1>9. FlattenSeq(p) \o Piece(rule) =
        IF IsDomainRule(rule) THEN FlattenSeq(p) ELSE Append(FlattenSeq(p), rule)
  BY <1>8, ConcatEmptySeq, AppendIsConcat DEF Piece
<1> QED
  BY <1>4, <1>8, <1>9

\* What one category contributes.
Part(c, id) == IF c.id = id THEN FlattenSeq(c.matchers) ELSE << >>
Parts(cats, id) == [i \in DOMAIN cats |-> Part(cats[i], id)]

\* They are sequences of rules, and join to the patterns in the list.
LEMMA PartsType ==
  ASSUME NEW cats \in Seq(Category), NEW id
  PROVE  /\ Parts(cats, id) \in Seq(Seq(Rule)) /\ Len(Parts(cats, id)) = Len(cats)
         /\ \A i \in 1..Len(cats) : Parts(cats, id)[i] = Part(cats[i], id)
         /\ PatternsIn(cats, id) = FlattenSeq(Parts(cats, id))
         /\ PatternsIn(cats, id) \in Seq(Rule)
<1>1. \A c \in Category : Part(c, id) \in Seq(Rule)
  BY FlattenType, EmptySeq DEF Part, Category
<1>2. Parts(cats, id) \in Seq(Seq(Rule)) /\ Len(Parts(cats, id)) = Len(cats)
      /\ \A i \in 1..Len(cats) : Parts(cats, id)[i] = Part(cats[i], id)
  BY <1>1 DEF Parts
<1>3. PatternsIn(cats, id) = FlattenSeq(Parts(cats, id))
  BY DEF PatternsIn, Parts, Part
<1> QED
  BY <1>2, <1>3, FlattenType

\* Categories that contribute the same make the same.
LEMMA PatternsSame ==
  ASSUME NEW cats \in Seq(Category), NEW new \in Seq(Category), NEW id,
         Len(new) = Len(cats), \A i \in 1..Len(cats) : Part(new[i], id) = Part(cats[i], id)
  PROVE  PatternsIn(new, id) = PatternsIn(cats, id)
<1>1. /\ Parts(cats, id) \in Seq(Seq(Rule)) /\ Parts(new, id) \in Seq(Seq(Rule))
      /\ Len(Parts(cats, id)) = Len(cats) /\ Len(Parts(new, id)) = Len(cats)
      /\ \A i \in 1..Len(cats) : Parts(new, id)[i] = Parts(cats, id)[i]
      /\ PatternsIn(new, id) = FlattenSeq(Parts(new, id))
      /\ PatternsIn(cats, id) = FlattenSeq(Parts(cats, id))
  BY PartsType
<1>2. Parts(new, id) = Parts(cats, id)
  BY <1>1, SeqEqual
<1> QED
  BY <1>1, <1>2

\* A pattern that goes into the last category of its id comes last.
LEMMA PatternsGrow ==
  ASSUME NEW cats \in Seq(Category), NEW new \in Seq(Category), NEW id, NEW a \in Rule,
         Len(new) = Len(cats), NEW k \in 1..Len(cats),
         Part(new[k], id) = Append(Part(cats[k], id), a),
         \A i \in 1..Len(cats) : i # k => Part(new[i], id) = Part(cats[i], id),
         \A i \in 1..Len(cats) : i > k => cats[i].id # id
  PROVE  PatternsIn(new, id) = Append(PatternsIn(cats, id), a)
<1>1. PICK x \in Seq(Seq(Rule)) :
        /\ x = Parts(cats, id) /\ Len(x) = Len(cats) /\ PatternsIn(cats, id) = FlattenSeq(x)
        /\ \A i \in 1..Len(cats) : x[i] = Part(cats[i], id)
  BY PartsType
<1>2. PICK y \in Seq(Seq(Rule)) :
        /\ y = Parts(new, id) /\ Len(y) = Len(cats) /\ PatternsIn(new, id) = FlattenSeq(y)
        /\ \A i \in 1..Len(cats) : y[i] = Part(new[i], id)
  BY PartsType
<1>3. /\ Len(y) = Len(x) /\ k \in 1..Len(x) /\ y[k] = Append(x[k], a)
      /\ \A i \in 1..Len(x) : i # k => y[i] = x[i]
  BY <1>1, <1>2
<1>4. \A i \in 1..Len(x) : i > k => x[i] = << >>
  BY <1>1 DEF Part
<1>5. FlattenSeq(y) = Append(FlattenSeq(x), a)
  BY <1>3, <1>4, FlattenGrow
<1> QED
  BY <1>1, <1>2, <1>5

\* A new category without patterns adds none.
LEMMA PatternsNew ==
  ASSUME NEW cats \in Seq(Category), NEW c \in Category, NEW id, FlattenSeq(c.matchers) = << >>
  PROVE  PatternsIn(Append(cats, c), id) = PatternsIn(cats, id)
<1>1. PICK new, x, y : new = Append(cats, c) /\ x = Parts(cats, id) /\ y = Parts(new, id)
  OBVIOUS
<1>2. /\ new \in Seq(Category) /\ Len(new) = Len(cats) + 1 /\ new[Len(cats) + 1] = c
      /\ \A i \in 1..Len(cats) : new[i] = cats[i]
  BY <1>1, AppendProperties
<1>3. /\ x \in Seq(Seq(Rule)) /\ Len(x) = Len(cats) /\ PatternsIn(cats, id) = FlattenSeq(x)
      /\ \A i \in 1..Len(cats) : x[i] = Part(cats[i], id)
      /\ FlattenSeq(x) \in Seq(Rule)
  BY <1>1, PartsType, FlattenType
<1>4. /\ y \in Seq(Seq(Rule)) /\ Len(y) = Len(new) /\ PatternsIn(new, id) = FlattenSeq(y)
      /\ \A i \in 1..Len(new) : y[i] = Part(new[i], id)
  BY <1>1, <1>2, PartsType
<1>5. << >> \in Seq(Rule) /\ Part(c, id) = << >>
  BY EmptySeq DEF Part
<1>6. y = Append(x, << >>)
  <2>1. PICK a : a = Append(x, << >>)
    OBVIOUS
  <2>2. /\ a \in Seq(Seq(Rule)) /\ Len(a) = Len(x) + 1
        /\ a[Len(x) + 1] = << >> /\ \A i \in 1..Len(x) : a[i] = x[i]
    BY <1>3, <1>5, <2>1, AppendProperties
  <2>3. Len(cats) \in Nat
    OBVIOUS
  <2>4. ASSUME NEW i \in 1..Len(y) PROVE y[i] = a[i]
    <3>1. CASE i = Len(cats) + 1
      BY <1>2, <1>3, <1>4, <1>5, <2>2, <3>1
    <3>2. CASE i # Len(cats) + 1
      <4>1. i \in 1..Len(cats)
        BY <1>2, <1>4, <2>3, <3>2
      <4> QED
        BY <1>2, <1>3, <1>4, <2>2, <4>1
    <3> QED
      BY <3>1, <3>2
  <2>5. Len(y) = Len(a)
    BY <1>2, <1>3, <1>4, <2>2
  <2> QED
    BY <1>4, <2>1, <2>2, <2>4, <2>5, SeqEqual
<1>7. FlattenSeq(y) = FlattenSeq(x) \o << >>
  BY <1>3, <1>5, <1>6, FlattenAppend
<1>8. FlattenSeq(x) \o << >> = FlattenSeq(x)
  BY <1>3, ConcatEmptySeq
<1> QED
  BY <1>1, <1>3, <1>4, <1>7, <1>8

\* The i-th category of id's list is one of id that knows the domain; the k-th
\* rule that id was fed is about it; and what the last such category says of it
\* is what the last such rule said.
Knowing(m, id, d, i) ==
  LET cats == m.cats[Section(ListOf[id])]
  IN  i \in 1..Len(cats) /\ cats[i].id = id /\ cats[i].blocked[d] # "absent"
About(m, id, d, k) == k \in 1..Len(m.fed[id]) /\ DomainOf[m.fed[id][k]] = d
Newest(m, id, d) ==
  \/ (\A k : ~About(m, id, d, k)) /\ (\A i : ~Knowing(m, id, d, i))
  \/ \E i, k :
       /\ Knowing(m, id, d, i) /\ \A j : Knowing(m, id, d, j) => j <= i
       /\ About(m, id, d, k) /\ \A l : About(m, id, d, l) => l <= k
       /\ m.cats[Section(ListOf[id])][i].blocked[d] = Type(m.fed[id][k])
Unsplit(m, id) ==
  LET cats == m.cats["ordinary"]
  IN  Section(ListOf[id]) = "ordinary" =>
        \A i, j \in 1..Len(cats) : cats[i].id = id /\ cats[j].id = id => i = j
InOrder(m, id) == PatternsIn(m.cats[Section(ListOf[id])], id) = PatternsOf(m.fed[id])

\* Imported in these terms.
LEMMA ImportedParts ==
  ASSUME NEW m \in Matcher, NEW id \in CategoryId
  PROVE  Imported(m, id) <=>
           InOrder(m, id) /\ Unsplit(m, id) /\ \A d \in Domain : Newest(m, id, d)
<1> DEFINE s == Section(ListOf[id])
           own == {i \in DOMAIN m.cats[s] : m.cats[s][i].id = id}
           about(d) == {k \in DOMAIN m.fed[id] : DomainOf[m.fed[id][k]] = d}
           knowing(d) == {i \in own : m.cats[s][i].blocked[d] # "absent"}
           newest(d) ==
             IF about(d) = {} THEN knowing(d) = {}
             ELSE \E i \in knowing(d), k \in about(d) :
                    /\ \A j \in knowing(d) : j <= i
                    /\ \A j \in about(d) : j <= k
                    /\ m.cats[s][i].blocked[d] = Type(m.fed[id][k])
<1>1. s \in Sections /\ m.cats[s] \in Seq(Category) /\ m.fed[id] \in Seq(Rule)
  BY MatcherParts DEF Section, Sections
<1>2. DOMAIN m.cats[s] = 1..Len(m.cats[s]) /\ DOMAIN m.fed[id] = 1..Len(m.fed[id])
  BY <1>1
<1>3. ASSUME NEW d
      PROVE  /\ \A i : i \in knowing(d) <=> Knowing(m, id, d, i)
             /\ \A k : k \in about(d) <=> About(m, id, d, k)
  BY <1>2 DEF Knowing, About
<1>4. Imported(m, id) <=>
        /\ InOrder(m, id) /\ \A d \in Domain : newest(d)
        /\ s = "ordinary" => \A i, j \in own : i = j
  BY DEF Imported, InOrder
<1>5. (s = "ordinary" => \A i, j \in own : i = j) <=> Unsplit(m, id)
  BY <1>2 DEF Unsplit
<1> HIDE DEF knowing, about
<1>6. ASSUME NEW d PROVE newest(d) <=> Newest(m, id, d)
  <2>1. CASE about(d) = {}
    <3>1. \A k : ~About(m, id, d, k)
      BY <1>3, <2>1
    <3>2. knowing(d) = {} <=> \A i : ~Knowing(m, id, d, i)
      BY <1>3
    <3> QED
      BY <2>1, <3>1, <3>2 DEF Newest
  <2>2. CASE about(d) # {}
    <3>1. \E k : About(m, id, d, k)
      BY <1>3, <2>2
    <3> QED
      BY <1>3, <2>2, <3>1 DEF Newest
  <2> QED
    BY <2>1, <2>2
<1> QED
  BY <1>4, <1>5, <1>6

\* Nothing that concerns id was changed in a list.
Untouched(cats, new, id) ==
  /\ Len(new) = Len(cats)
  /\ \A i \in 1..Len(cats) :
       /\ new[i].id = cats[i].id
       /\ cats[i].id = id =>
            /\ FlattenSeq(new[i].matchers) = FlattenSeq(cats[i].matchers)
            /\ new[i].blocked = cats[i].blocked

LEMMA SameImported ==
  ASSUME NEW m \in Matcher, NEW n \in Matcher, NEW id \in CategoryId, Imported(m, id),
         n.fed[id] = m.fed[id],
         NEW s, s = Section(ListOf[id]), Untouched(m.cats[s], n.cats[s], id)
  PROVE  Imported(n, id)
<1>0. /\ Len(n.cats[s]) = Len(m.cats[s])
      /\ \A i \in 1..Len(m.cats[s]) :
           /\ n.cats[s][i].id = m.cats[s][i].id
           /\ m.cats[s][i].id = id =>
                /\ FlattenSeq(n.cats[s][i].matchers) = FlattenSeq(m.cats[s][i].matchers)
                /\ n.cats[s][i].blocked = m.cats[s][i].blocked
  BY DEF Untouched
<1>1. s \in Sections /\ m.cats[s] \in Seq(Category) /\ n.cats[s] \in Seq(Category)
  BY MatcherParts DEF Section, Sections
<1>2. InOrder(m, id) /\ Unsplit(m, id) /\ \A d \in Domain : Newest(m, id, d)
  BY ImportedParts
<1>3. InOrder(n, id)
  <2>1. \A i \in 1..Len(m.cats[s]) : Part(n.cats[s][i], id) = Part(m.cats[s][i], id)
    BY <1>0 DEF Part
  <2> QED
    BY <1>0, <1>1, <1>2, <2>1, PatternsSame DEF InOrder
<1>4. Unsplit(n, id)
  BY <1>0, <1>2 DEF Unsplit
<1>5. ASSUME NEW d \in Domain PROVE Newest(n, id, d)
  <2>1. \A i : Knowing(n, id, d, i) <=> Knowing(m, id, d, i)
    BY <1>0 DEF Knowing
  <2>2. \A k : About(n, id, d, k) <=> About(m, id, d, k)
    BY DEF About
  <2>3. \A i : Knowing(m, id, d, i) => n.cats[s][i].blocked[d] = m.cats[s][i].blocked[d]
    BY <1>0 DEF Knowing
  <2>4. Newest(m, id, d)
    BY <1>2
  <2> QED
    BY <2>1, <2>2, <2>3, <2>4 DEF Newest
<1> QED
  BY <1>3, <1>4, <1>5, ImportedParts

\* A new category, of id or not, without rules.
LEMMA AddedImported ==
  ASSUME NEW m \in Matcher, NEW n \in Matcher, NEW id \in CategoryId, Imported(m, id),
         n.fed[id] = m.fed[id], NEW c \in Category,
         NEW s, s = Section(ListOf[id]), n.cats[s] = Append(m.cats[s], c),
         FlattenSeq(c.matchers) = << >>, \A d \in Domain : c.blocked[d] = "absent",
         s = "ordinary" /\ c.id = id => \A i \in 1..Len(m.cats[s]) : m.cats[s][i].id # id
  PROVE  Imported(n, id)
<1>1. s \in Sections /\ m.cats[s] \in Seq(Category)
  BY MatcherParts DEF Section, Sections
<1>2. InOrder(m, id) /\ Unsplit(m, id) /\ \A d \in Domain : Newest(m, id, d)
  BY ImportedParts
<1>3. /\ Len(n.cats[s]) = Len(m.cats[s]) + 1 /\ n.cats[s][Len(m.cats[s]) + 1] = c
      /\ Len(m.cats[s]) \in Nat /\ \A i \in 1..Len(m.cats[s]) : n.cats[s][i] = m.cats[s][i]
  BY <1>1, AppendProperties
<1>4. \A i \in 1..Len(n.cats[s]) : i \in 1..Len(m.cats[s]) \/ i = Len(m.cats[s]) + 1
  BY <1>3
<1>5. \A i \in 1..Len(m.cats[s]) : i \in 1..Len(n.cats[s])
  BY <1>3
<1>6. InOrder(n, id)
  BY <1>1, <1>2, PatternsNew DEF InOrder
<1>7. Unsplit(n, id)
  <2> SUFFICES ASSUME s = "ordinary", NEW i \in 1..Len(n.cats[s]), NEW j \in 1..Len(n.cats[s]),
                      n.cats[s][i].id = id, n.cats[s][j].id = id
               PROVE  i = j
    BY DEF Unsplit
  <2>1. CASE i \in 1..Len(m.cats[s]) /\ j \in 1..Len(m.cats[s])
    BY <1>2, <1>3, <2>1 DEF Unsplit
  <2>2. CASE i = Len(m.cats[s]) + 1 /\ j # i
    BY <1>3, <1>4, <2>2
  <2>3. CASE j = Len(m.cats[s]) + 1 /\ i # j
    BY <1>3, <1>4, <2>3
  <2> QED
    BY <1>4, <2>1, <2>2, <2>3
<1>8. ASSUME NEW d \in Domain PROVE Newest(n, id, d)
  <2>1. \A i : Knowing(n, id, d, i) <=> Knowing(m, id, d, i)
    BY <1>3, <1>4, <1>5 DEF Knowing
  <2>2. \A k : About(n, id, d, k) <=> About(m, id, d, k)
    BY DEF About
  <2>3. \A i : Knowing(m, id, d, i) => n.cats[s][i].blocked[d] = m.cats[s][i].blocked[d]
    BY <1>3 DEF Knowing
  <2>4. Newest(m, id, d)
    BY <1>2
  <2> QED
    BY <2>1, <2>2, <2>3, <2>4 DEF Newest
<1> QED
  BY <1>6, <1>7, <1>8, ImportedParts

\* One more rule of id in the last category of id.
LEMMA PutGathers ==
  ASSUME NEW c \in Category, c.matchers # << >>, NEW rule \in Rule
  PROVE  LET n == PutRule(c, rule)
         IN  /\ n.id = c.id
             /\ IsDomainRule(rule) =>
                  /\ n.matchers = c.matchers /\ n.blocked[DomainOf[rule]] = Type(rule)
                  /\ \A d \in Domain : d # DomainOf[rule] => n.blocked[d] = c.blocked[d]
             /\ ~IsDomainRule(rule) =>
                  /\ FlattenSeq(n.matchers) = Append(FlattenSeq(c.matchers), rule)
                  /\ n.blocked = c.blocked
<1> DEFINE n == PutRule(c, rule)
<1>1. c.matchers \in Seq(Seq(Rule)) /\ c.blocked \in [Domain -> {"absent", "included", "excluded"}]
  BY DEF Category
<1>2. CASE IsDomainRule(rule)
  <2>1. n = [c EXCEPT !.blocked = [c.blocked EXCEPT ![DomainOf[rule]] = Type(rule)]]
    BY <1>2 DEF PutRule
  <2>2. n.id = c.id /\ n.matchers = c.matchers
        /\ n.blocked = [c.blocked EXCEPT ![DomainOf[rule]] = Type(rule)]
    BY <2>1 DEF Category
  <2>3. DomainOf[rule] \in Domain
    BY <1>2, DomainRules
  <2> HIDE DEF n
  <2>4. /\ n.blocked[DomainOf[rule]] = Type(rule)
        /\ \A d \in Domain : d # DomainOf[rule] => n.blocked[d] = c.blocked[d]
    BY <1>1, <2>2, <2>3
  <2> QED
    BY <1>2, <2>2, <2>4 DEF n
<1>3. CASE ~IsDomainRule(rule)
  <2>1. PICK v, k, new : /\ v = c.matchers /\ k = Len(v)
                         /\ new = [v EXCEPT ![k] = Append(v[k], rule)]
    OBVIOUS
  <2>2. n = [c EXCEPT !.matchers = new]
    BY <1>3, <2>1 DEF PutRule
  <2>3. n.id = c.id /\ n.matchers = new /\ n.blocked = c.blocked
    BY <2>2 DEF Category
  <2>4. v \in Seq(Seq(Rule)) /\ k \in 1..Len(v) /\ v[k] \in Seq(Rule)
    BY <1>1, <2>1
  <2>5. Append(v[k], rule) \in Seq(Rule)
    BY <2>4, AppendProperties
  <2>6. /\ new \in Seq(Seq(Rule)) /\ Len(new) = Len(v) /\ new[k] = Append(v[k], rule)
        /\ \A i \in 1..Len(v) : i # k => new[i] = v[i]
    BY <2>1, <2>4, <2>5
  <2>7. \A i \in 1..Len(v) : ~(i > k)
    BY <2>1, <2>4
  <2>8. FlattenSeq(new) = Append(FlattenSeq(v), rule)
    BY <2>4, <2>6, <2>7, FlattenGrow
  <2> HIDE DEF n
  <2> QED
    BY <1>3, <2>1, <2>3, <2>8 DEF n
<1> QED
  BY <1>2, <1>3

\* So id's rules are still imported with one more of them.
LEMMA PutImported ==
  ASSUME NEW p \in Matcher, NEW n \in Matcher, NEW id \in CategoryId, Imported(p, id),
         NEW rule \in Rule, n.fed[id] = Append(p.fed[id], rule),
         NEW s, s = Section(ListOf[id]), NEW i \in 1..Len(p.cats[s]),
         NEW old, old = p.cats[s][i], old.id = id, old.matchers # << >>,
         Edits(p, n, s, i, PutRule(old, rule)),
         \A j \in 1..Len(p.cats[s]) : j > i => p.cats[s][j].id # id
  PROVE  Imported(n, id)
<1> DEFINE c == PutRule(old, rule)
<1>1. /\ s \in Sections /\ p.cats[s] \in Seq(Category) /\ n.cats[s] \in Seq(Category)
      /\ p.fed[id] \in Seq(Rule) /\ old \in Category
  <2>1. s \in Sections
    BY DEF Section, Sections
  <2>2. p.cats[s] \in Seq(Category) /\ n.cats[s] \in Seq(Category) /\ p.fed[id] \in Seq(Rule)
    BY <2>1, MatcherParts
  <2> QED
    BY <2>1, <2>2
<1>2. InOrder(p, id) /\ Unsplit(p, id) /\ \A d \in Domain : Newest(p, id, d)
  BY ImportedParts
<1>3. /\ Len(n.cats[s]) = Len(p.cats[s]) /\ n.cats[s][i] = c
      /\ \A j \in 1..Len(p.cats[s]) : j # i => n.cats[s][j] = p.cats[s][j]
  BY <1>1 DEF Edits
<1>4. /\ c.id = id
      /\ IsDomainRule(rule) =>
           /\ c.matchers = old.matchers /\ c.blocked[DomainOf[rule]] = Type(rule)
           /\ \A d \in Domain : d # DomainOf[rule] => c.blocked[d] = old.blocked[d]
      /\ ~IsDomainRule(rule) =>
           /\ FlattenSeq(c.matchers) = Append(FlattenSeq(old.matchers), rule)
           /\ c.blocked = old.blocked
  BY <1>1, PutGathers
<1> HIDE DEF c
<1>5. InOrder(n, id)
  <2>1. PatternsOf(n.fed[id]) =
          IF IsDomainRule(rule) THEN PatternsOf(p.fed[id]) ELSE Append(PatternsOf(p.fed[id]), rule)
    BY <1>1, PatternsOfAppend
  <2>2. \A j \in 1..Len(p.cats[s]) : j # i => Part(n.cats[s][j], id) = Part(p.cats[s][j], id)
    BY <1>3
  <2>3. CASE IsDomainRule(rule)
    <3>1. Part(n.cats[s][i], id) = Part(p.cats[s][i], id)
      BY <1>3, <1>4, <2>3 DEF Part
    <3>2. \A j \in 1..Len(p.cats[s]) : Part(n.cats[s][j], id) = Part(p.cats[s][j], id)
      BY <2>2, <3>1
    <3>3. PatternsIn(n.cats[s], id) = PatternsIn(p.cats[s], id)
      BY <1>1, <1>3, <3>2, PatternsSame
    <3> QED
      BY <1>2, <2>1, <2>3, <3>3 DEF InOrder
  <2>4. CASE ~IsDomainRule(rule)
    <3>1. Part(n.cats[s][i], id) = Append(Part(p.cats[s][i], id), rule)
      BY <1>3, <1>4, <2>4 DEF Part
    <3>2. PatternsIn(n.cats[s], id) = Append(PatternsIn(p.cats[s], id), rule)
      BY <1>1, <1>3, <2>2, <3>1, PatternsGrow
    <3> QED
      BY <1>2, <2>1, <2>4, <3>2 DEF InOrder
  <2> QED
    BY <2>3, <2>4
<1>6. Unsplit(n, id)
  <2>1. \A j \in 1..Len(p.cats[s]) : n.cats[s][j].id = p.cats[s][j].id
    BY <1>3, <1>4
  <2> QED
    BY <1>2, <1>3, <2>1 DEF Unsplit
<1>7. PICK k \in Nat : k = Len(p.fed[id])
  BY <1>1
<1>8. /\ Len(n.fed[id]) = k + 1 /\ n.fed[id][k + 1] = rule /\ k + 1 \in 1..(k + 1)
      /\ \A l \in 1..k : n.fed[id][l] = p.fed[id][l] /\ l \in 1..(k + 1) /\ l <= k + 1
      /\ \A l \in 1..(k + 1) : l # k + 1 => l \in 1..k
  BY <1>1, <1>7, AppendProperties
<1>9. ASSUME NEW d \in Domain PROVE Newest(n, id, d)
  <2>1. CASE IsDomainRule(rule) /\ d = DomainOf[rule]
    <3>1. About(n, id, d, k + 1) /\ \A l : About(n, id, d, l) => l <= k + 1
      BY <1>8, <2>1 DEF About
    <3>2. Knowing(n, id, d, i)
      BY <1>3, <1>4, <2>1, DomainRules DEF Knowing
    <3>3. \A j : Knowing(n, id, d, j) => j <= i
      <4> SUFFICES ASSUME NEW j, Knowing(n, id, d, j) PROVE j <= i
        OBVIOUS
      <4>1. j \in 1..Len(p.cats[s]) /\ n.cats[s][j].id = id
        BY <1>3 DEF Knowing
      <4>2. j # i => p.cats[s][j].id = id
        BY <1>3, <4>1
      <4> QED
        BY <4>1, <4>2
    <3>4. n.cats[s][i].blocked[d] = Type(n.fed[id][k + 1])
      BY <1>3, <1>4, <1>8, <2>1
    <3> QED
      BY <3>1, <3>2, <3>3, <3>4 DEF Newest
  <2>2. CASE ~(IsDomainRule(rule) /\ d = DomainOf[rule])
    <3>1. DomainOf[rule] # d
      BY <2>2, DomainRules
    <3>2. \A l : About(n, id, d, l) <=> About(p, id, d, l)
      BY <1>7, <1>8, <3>1 DEF About
    <3>3. c.blocked[d] = old.blocked[d]
      BY <1>4, <2>2
    <3>4. \A j \in 1..Len(p.cats[s]) :
            n.cats[s][j].id = p.cats[s][j].id /\ n.cats[s][j].blocked[d] = p.cats[s][j].blocked[d]
      BY <1>3, <1>4, <3>3
    <3>5. \A j : Knowing(n, id, d, j) <=> Knowing(p, id, d, j)
      BY <1>3, <3>4 DEF Knowing
    <3>6. \A j : Knowing(p, id, d, j) => n.cats[s][j].blocked[d] = p.cats[s][j].blocked[d]
      BY <3>4 DEF Knowing
    <3>7. \A l : About(p, id, d, l) => n.fed[id][l] = p.fed[id][l]
      BY <1>7, <1>8 DEF About
    <3>8. Newest(p, id, d)
      BY <1>2
    <3>9. CASE (\A l : ~About(p, id, d, l)) /\ (\A j : ~Knowing(p, id, d, j))
      BY <3>2, <3>5, <3>9 DEF Newest
    <3>10. CASE \E j, l :
                  /\ Knowing(p, id, d, j) /\ \A g : Knowing(p, id, d, g) => g <= j
                  /\ About(p, id, d, l) /\ \A g : About(p, id, d, g) => g <= l
                  /\ p.cats[s][j].blocked[d] = Type(p.fed[id][l])
      <4>1. PICK j, l :
              /\ Knowing(p, id, d, j) /\ \A g : Knowing(p, id, d, g) => g <= j
              /\ About(p, id, d, l) /\ \A g : About(p, id, d, g) => g <= l
              /\ p.cats[s][j].blocked[d] = Type(p.fed[id][l])
        BY <3>10
      <4>2. n.cats[s][j].blocked[d] = Type(n.fed[id][l])
        BY <3>6, <3>7, <4>1
      <4> QED
        BY <3>2, <3>5, <4>1, <4>2 DEF Newest
    <3> QED
      BY <3>8, <3>9, <3>10 DEF Newest
  <2> QED
    BY <2>1, <2>2
<1> QED
  BY <1>5, <1>6, <1>9, ImportedParts

\* No category after the last one is of its id.
AtEnd(m) ==
  LET cats == m.cats[m.last[1]]
  IN  \A j \in 1..Len(cats) : j > m.last[2] => cats[j].id # cats[m.last[2]].id

\* A new matcher, in a new category or in one there is, changes nothing of what is
\* imported, and the last category is the last of its id.
LEMMA AddMatcherImports ==
  ASSUME NEW m \in Matcher, NEW id \in CategoryId, Sized(m), Sorted(m),
         \A x \in CategoryId : Imported(m, x)
  PROVE  LET n == AddMatcher(m, id)
         IN  AtEnd(n) /\ \A x \in CategoryId : Imported(n, x)
<1>1. PICK n, s : n = AddMatcher(m, id) /\ s = Section(ListOf[id])
  OBVIOUS
<1>2. /\ n \in Matcher /\ n.fed = m.fed /\ s \in Sections /\ "ordinary" \in Sections
      /\ \A t \in Sections : m.cats[t] \in Seq(Category)
      /\ \A x : Section(ListOf[x]) \in Sections
  BY <1>1, AddMatcherFills, AddMatcherEffect, MatcherParts DEF Filling, Section, Sections
<1>3. CASE /\ \A i \in 1..Len(m.cats["ordinary"]) : m.cats["ordinary"][i].id # id
           /\ n.last = <<s, Len(m.cats[s]) + 1>>
           /\ \A t \in Sections :
                n.cats[t] = IF t = s THEN Append(m.cats[t], NewCategory(id)) ELSE m.cats[t]
  <2>1. PICK c : c = NewCategory(id)
    OBVIOUS
  <2>2. /\ c \in Category /\ c.id = id /\ c.matchers = << << >> >>
        /\ \A d \in Domain : c.blocked[d] = "absent"
    BY <2>1, NewCategoryType DEF NewCategory
  <2>3. FlattenSeq(c.matchers) = << >>
    <3>1. << >> \in Seq(Rule) /\ << >> \in Seq(Seq(Rule)) /\ Append(<< >>, << >>) = << << >> >>
      BY EmptySeq
    <3>2. FlattenSeq(Append(<< >>, << >>)) = FlattenSeq(<< >>) \o << >>
      BY <3>1, FlattenAppend
    <3> QED
      BY <2>2, <3>1, <3>2, FlattenNone, ConcatEmptySeq
  <2>4. ASSUME NEW x \in CategoryId PROVE Imported(n, x)
    <3>1. CASE Section(ListOf[x]) = s
      <4>1. n.cats[s] = Append(m.cats[s], c)
        BY <1>2, <1>3, <2>1
      <4>2. s = "ordinary" /\ c.id = x => \A i \in 1..Len(m.cats[s]) : m.cats[s][i].id # x
        BY <1>3, <2>2
      <4>3. n.fed[x] = m.fed[x] /\ Imported(m, x)
        BY <1>2
      <4>4. s = Section(ListOf[x]) /\ n \in Matcher /\ c \in Category
            /\ FlattenSeq(c.matchers) = << >> /\ \A d \in Domain : c.blocked[d] = "absent"
        BY <1>2, <2>2, <2>3, <3>1
      <4> QED
        BY <4>1, <4>2, <4>3, <4>4, AddedImported
    <3>2. CASE Section(ListOf[x]) # s
      <4>1. PICK t \in Sections : t = Section(ListOf[x])
        BY <1>2
      <4>2. n.cats[t] = m.cats[t] /\ n.fed[x] = m.fed[x]
        BY <1>2, <1>3, <3>2, <4>1
      <4>3. Untouched(m.cats[t], n.cats[t], x)
        BY <4>2 DEF Untouched
      <4> QED
        BY <1>2, <4>1, <4>2, <4>3, SameImported
    <3> QED
      BY <3>1, <3>2
  <2>5. AtEnd(n)
    <3>1. n.last[1] = s /\ n.last[2] = Len(m.cats[s]) + 1
      BY <1>3
    <3>2. Len(n.cats[s]) = Len(m.cats[s]) + 1 /\ Len(m.cats[s]) \in Nat
      <4>1. n.cats[s] = Append(m.cats[s], c) /\ m.cats[s] \in Seq(Category)
        BY <1>2, <1>3, <2>1
      <4> QED
        BY <2>2, <4>1, AppendProperties
    <3>3. \A j \in 1..Len(n.cats[s]) : ~(j > Len(m.cats[s]) + 1)
      BY <3>2
    <3> QED
      BY <3>1, <3>3 DEF AtEnd
  <2> QED
    BY <1>1, <2>4, <2>5
<1>4. ASSUME NEW at \in 1..Len(m.cats["ordinary"]), NEW old, NEW grown,
             old = m.cats["ordinary"][at],
             grown = [old EXCEPT !.matchers = Append(old.matchers, << >>)],
             old \in Category, old.id = id, grown \in Category, n.last = <<"ordinary", at>>,
             Edits(m, n, "ordinary", at, grown)
      PROVE  AtEnd(n) /\ \A x \in CategoryId : Imported(n, x)
  <2>1. /\ grown.id = id /\ grown.blocked = old.blocked
        /\ grown.matchers = Append(old.matchers, << >>) /\ old.matchers \in Seq(Seq(Rule))
    BY <1>4 DEF Category
  <2>2. FlattenSeq(grown.matchers) = FlattenSeq(old.matchers)
    <3>1. << >> \in Seq(Rule) /\ FlattenSeq(old.matchers) \in Seq(Rule)
      BY <2>1, EmptySeq, FlattenType
    <3>2. FlattenSeq(Append(old.matchers, << >>)) = FlattenSeq(old.matchers) \o << >>
      BY <2>1, <3>1, FlattenAppend
    <3> QED
      BY <2>1, <3>1, <3>2, ConcatEmptySeq
  <2>3. ASSUME NEW t \in Sections
        PROVE  /\ Len(n.cats[t]) = Len(m.cats[t])
               /\ \A i \in 1..Len(m.cats[t]) :
                    /\ n.cats[t][i].id = m.cats[t][i].id
                    /\ FlattenSeq(n.cats[t][i].matchers) = FlattenSeq(m.cats[t][i].matchers)
                    /\ n.cats[t][i].blocked = m.cats[t][i].blocked
    <3>1. /\ Len(n.cats[t]) = Len(m.cats[t])
          /\ \A i \in 1..Len(m.cats[t]) :
               n.cats[t][i] = IF t = "ordinary" /\ i = at THEN grown ELSE m.cats[t][i]
      BY <1>4 DEF Edits
    <3> QED
      BY <1>4, <2>1, <2>2, <3>1
  <2>4. ASSUME NEW x \in CategoryId PROVE Imported(n, x)
    <3>1. PICK t \in Sections : t = Section(ListOf[x])
      BY <1>2
    <3>2. Untouched(m.cats[t], n.cats[t], x)
      BY <2>3 DEF Untouched
    <3> QED
      BY <1>2, <2>3, <3>1, <3>2, SameImported
  <2>5. s = "ordinary"
    <3>1. Own(m, "ordinary", old)
      BY <1>2, <1>4 DEF Sorted
    <3> QED
      BY <1>1, <1>4, <3>1 DEF Own
  <2>6. AtEnd(n)
    <3>1. n.last[1] = "ordinary" /\ n.last[2] = at
      BY <1>4
    <3>2. Unsplit(n, id)
      BY <1>2, <2>4, ImportedParts
    <3>3. at \in 1..Len(n.cats["ordinary"]) /\ n.cats["ordinary"][at].id = id
      BY <1>2, <1>4, <2>3
    <3>4. \A j \in 1..Len(n.cats["ordinary"]) : j > at => n.cats["ordinary"][j].id # id
      BY <1>1, <2>5, <3>2, <3>3 DEF Unsplit
    <3> QED
      BY <3>1, <3>3, <3>4 DEF AtEnd
  <2> QED
    BY <2>4, <2>6
<1>5. \/ /\ \A i \in 1..Len(m.cats["ordinary"]) : m.cats["ordinary"][i].id # id
         /\ n.last = <<s, Len(m.cats[s]) + 1>>
         /\ \A t \in Sections :
              n.cats[t] = IF t = s THEN Append(m.cats[t], NewCategory(id)) ELSE m.cats[t]
      \/ \E at \in 1..Len(m.cats["ordinary"]) :
           LET old == m.cats["ordinary"][at]
               grown == [old EXCEPT !.matchers = Append(old.matchers, << >>)]
           IN  /\ old \in Category /\ old.id = id /\ grown \in Category
               /\ n.last = <<"ordinary", at>>
               /\ Edits(m, n, "ordinary", at, grown)
  BY <1>1, AddMatcherEffect
<1> QED
  BY <1>1, <1>3, <1>4, <1>5

\* AddRule keeps every category's rules as they were fed.
LEMMA AddRuleImports ==
  ASSUME NEW m, Filling(m), NEW id \in CategoryId, NEW rule \in Rule, Sorted(m),
         Current(m, id), AtEnd(m), \A x \in CategoryId : Imported(m, x)
  PROVE  LET n == AddRule(m, id, rule)
         IN  AtEnd(n) /\ \A x \in CategoryId : Imported(n, x)
<1>1. CASE rule \in Broken
  BY <1>1, AddRuleFills
<1>2. CASE rule \notin Broken
  <2>1. PICK n : n = AddRule(m, id, rule)
    OBVIOUS
  <2>2. PICK p \in {m, AddMatcher(m, id)} : Puts(p, n, id, rule)
    BY <1>2, <2>1, AddRuleFills
  <2>3. /\ Filling(p) /\ p \in Matcher /\ n \in Matcher /\ Current(p, id)
        /\ AtEnd(p) /\ \A x \in CategoryId : Imported(p, x)
    <3>1. Filling(p) /\ p \in Matcher /\ Filling(n) /\ n \in Matcher
      BY <2>1, <2>2, AddRuleFills DEF Puts, Filling
    <3>2. m \in Matcher /\ Sized(m)
      BY DEF Filling
    <3>3. p = m \/ p = AddMatcher(m, id)
      BY <2>2
    <3> QED
      BY <3>1, <3>2, <3>3, AddMatcherSorts, AddMatcherImports
  <2>4. PICK s, i, old :
          /\ s = p.last[1] /\ i = p.last[2] /\ s \in Sections /\ i \in 1..Len(p.cats[s])
          /\ old = p.cats[s][i]
    BY <2>2 DEF Puts
  <2>5. /\ n.last = p.last /\ Edits(p, n, s, i, PutRule(old, rule))
        /\ n.fed = [p.fed EXCEPT ![id] = Append(p.fed[id], rule)]
    BY <2>2, <2>4 DEF Puts
  <2>6. s = Section(ListOf[id]) /\ old.id = id /\ old.matchers # << >>
    BY <2>3, <2>4 DEF Current, Filling, LastExists
  <2>7. old \in Category /\ PutRule(old, rule).id = id
    <3>1. p.cats[s] \in Seq(Category)
      BY <2>3, <2>4, MatcherParts
    <3>2. old \in Category
      BY <2>4, <3>1
    <3> QED
      BY <2>6, <3>2, PutGathers
  <2>8. /\ n.fed[id] = Append(p.fed[id], rule)
        /\ \A x \in CategoryId : x # id => n.fed[x] = p.fed[x]
    <3>1. p.fed \in [CategoryId -> Seq(Rule)]
      BY <2>3 DEF Matcher
    <3> QED
      BY <2>5, <3>1
  <2>9. \A j \in 1..Len(p.cats[s]) : j > i => p.cats[s][j].id # id
    BY <2>3, <2>4, <2>6 DEF AtEnd
  <2>10. Imported(n, id)
    <3>1. /\ p \in Matcher /\ n \in Matcher /\ Imported(p, id)
          /\ n.fed[id] = Append(p.fed[id], rule)
      BY <2>3, <2>8
    <3>2. /\ s = Section(ListOf[id]) /\ i \in 1..Len(p.cats[s]) /\ old = p.cats[s][i]
          /\ old.id = id /\ old.matchers # << >>
      BY <2>4, <2>6
    <3>3. Edits(p, n, s, i, PutRule(old, rule))
      BY <2>5
    <3> QED
      BY <2>9, <3>1, <3>2, <3>3, PutImported
  <2>11. ASSUME NEW t \in Sections
         PROVE  /\ Len(n.cats[t]) = Len(p.cats[t])
                /\ \A j \in 1..Len(p.cats[t]) :
                     /\ n.cats[t][j].id = p.cats[t][j].id
                     /\ n.cats[t][j] = p.cats[t][j] \/ p.cats[t][j].id = id
    <3>1. /\ Len(n.cats[t]) = Len(p.cats[t])
          /\ \A j \in 1..Len(p.cats[t]) :
               n.cats[t][j] = IF t = s /\ j = i THEN PutRule(old, rule) ELSE p.cats[t][j]
      BY <2>5 DEF Edits
    <3> QED
      BY <2>4, <2>6, <2>7, <3>1
  <2>12. ASSUME NEW x \in CategoryId, x # id PROVE Imported(n, x)
    <3>1. PICK t \in Sections : t = Section(ListOf[x])
      BY DEF Section, Sections
    <3>2. Untouched(p.cats[t], n.cats[t], x)
      BY <2>11, <2>12 DEF Untouched
    <3>3. Imported(p, x) /\ n.fed[x] = p.fed[x] /\ p \in Matcher /\ n \in Matcher
      BY <2>3, <2>8, <2>12
    <3> QED
      BY <2>12, <3>1, <3>2, <3>3, SameImported
  <2>13. AtEnd(n)
    <3>1. n.last[1] = s /\ n.last[2] = i
      BY <2>4, <2>5
    <3>2. \A j \in 1..Len(n.cats[s]) : n.cats[s][j].id = p.cats[s][j].id
      BY <2>4, <2>11
    <3>3. Len(n.cats[s]) = Len(p.cats[s]) /\ p.cats[s][i].id = id
      BY <2>4, <2>6, <2>11
    <3>4. \A j \in 1..Len(n.cats[s]) : j > i => n.cats[s][j].id # n.cats[s][i].id
      BY <2>4, <2>9, <3>2, <3>3
    <3> QED
      BY <3>1, <3>4 DEF AtEnd
  <2> QED
    BY <2>1, <2>10, <2>12, <2>13
<1> QED
  BY <1>1, <1>2

\* All that is imported is where it belongs, all that belongs is there, in order.
Faithful(m) == Sorted(m) /\ \A id \in CategoryId : Imported(m, id)
AtLast(m, id) == Current(m, id) /\ AtEnd(m)

\* Neither the bypass setting nor the last category matters.
LEMMA FaithfulSame ==
  ASSUME NEW m \in Matcher, NEW n \in Matcher, n.cats = m.cats, n.fed = m.fed
  PROVE  /\ Faithful(m) => Faithful(n)
         /\ n.last = m.last => \A id : AtLast(m, id) => AtLast(n, id)
<1>1. \A id : Imported(m, id) => Imported(n, id)
  BY DEF Imported
<1>2. n.last = m.last /\ AtEnd(m) => AtEnd(n)
  BY DEF AtEnd
<1> QED
  BY <1>1, <1>2, SortedSame DEF Faithful, AtLast

\* A new matcher was fed nothing.
LEMMA EmptyFaithful ==
  ASSUME NEW b \in BOOLEAN
  PROVE  Faithful(EmptyMatcher(b))
<1>1. PICK m \in Matcher : m = EmptyMatcher(b)
  BY EmptyMatcherFine
<1>2. \A s \in Sections : m.cats[s] = << >>
  BY <1>1 DEF EmptyMatcher
<1>3. \A id \in CategoryId : m.fed[id] = << >>
  BY <1>1 DEF EmptyMatcher
<1>4. Len(<< >>) = 0 /\ \A i : i \notin 1..0
  OBVIOUS
<1>5. ASSUME NEW id \in CategoryId PROVE Imported(m, id)
  <2>1. PICK s \in Sections : s = Section(ListOf[id])
    BY DEF Section, Sections
  <2>2. PatternsIn(<< >>, id) = << >> /\ PatternsOf(<< >>) = << >>
    BY FlattenNone DEF PatternsIn, PatternsOf
  <2>3. InOrder(m, id)
    BY <1>2, <1>3, <2>1, <2>2 DEF InOrder
  <2>4. Unsplit(m, id)
    BY <1>2, <1>4 DEF Unsplit, Sections
  <2>5. \A d \in Domain : Newest(m, id, d)
    BY <1>2, <1>3, <1>4, <2>1 DEF Newest, Knowing, About
  <2> QED
    BY <2>3, <2>4, <2>5, ImportedParts
<1> QED
  BY <1>1, <1>5, EmptySorted DEF Faithful

\* The two operations of a loading thread.
LEMMA AddMatcherFaithful ==
  ASSUME NEW m \in Matcher, NEW id \in CategoryId, Sized(m), Faithful(m)
  PROVE  Faithful(AddMatcher(m, id)) /\ AtLast(AddMatcher(m, id), id)
BY AddMatcherSorts, AddMatcherImports DEF Faithful, AtLast

LEMMA AddRuleFaithful ==
  ASSUME NEW m, Filling(m), NEW id \in CategoryId, NEW rule \in Rule, Faithful(m), AtLast(m, id)
  PROVE  Faithful(AddRule(m, id, rule)) /\ AtLast(AddRule(m, id, rule), id)
BY AddRuleSorts, AddRuleImports DEF Faithful, AtLast

\* Every matcher made or saved is, and the one being filled is at its file's category.
AllFaithful ==
  /\ \A o \in DOMAIN heap : Faithful(heap[o])
  /\ Faithful(saved.matcher)
  /\ loader.pc = "parsing" => AtLast(heap[loading], IdOf[loader.file])

\* It survives the replacement of a matcher, and a new one.
LEMMA EditKeepsFaithful ==
  ASSUME TypeOK, AllFaithful, NEW o \in DOMAIN heap, NEW m \in Matcher,
         heap' = [heap EXCEPT ![o] = m], Faithful(m)
  PROVE  \A p \in DOMAIN heap' : Faithful(heap'[p])
<1>1. /\ DOMAIN heap' = DOMAIN heap /\ heap'[o] = m
      /\ \A p \in DOMAIN heap : p # o => heap'[p] = heap[p]
  BY HeapEdit
<1> QED
  BY <1>1 DEF AllFaithful

LEMMA AppendKeepsFaithful ==
  ASSUME TypeOK, AllFaithful, NEW m \in Matcher, Len(heap) < MaxLists,
         heap' = Append(heap, m), Faithful(m)
  PROVE  \A p \in DOMAIN heap' : Faithful(heap'[p])
<1>1. /\ DOMAIN heap' = DOMAIN heap \union {Len(heap) + 1} /\ heap'[Len(heap) + 1] = m
      /\ \A p \in DOMAIN heap : heap'[p] = heap[p]
  BY HeapAppend
<1> QED
  BY <1>1 DEF AllFaithful

\* No step of the loader, a setting or a request spoils it.
LEMMA NextKeepsFaithful == IInv /\ AllFaithful /\ [Next]_vars => AllFaithful'
<1> SUFFICES ASSUME IInv, AllFaithful, [Next]_vars
             PROVE  AllFaithful'
  OBVIOUS
<1>0. TypeOK /\ Linked /\ Limited /\ Faithful(saved.matcher) /\ saved.matcher \in Matcher
  BY DEF IInv, TypeOK, Saved, AllFaithful
<1>1. CASE Initialize
  <2> DEFINE b == active # Nil /\ heap[active].bypassOn
  <2>1. b \in BOOLEAN
    OBVIOUS
  <2>2. /\ heap' = Append(heap, EmptyMatcher(b)) /\ Len(heap) < MaxLists
        /\ loader.pc = "idle" /\ UNCHANGED <<saved, loader>>
    BY <1>1 DEF Initialize
  <2> HIDE DEF b
  <2>3. EmptyMatcher(b) \in Matcher /\ Faithful(EmptyMatcher(b))
    BY <2>1, EmptyMatcherFine, EmptyFaithful
  <2>4. \A p \in DOMAIN heap' : Faithful(heap'[p])
    BY <1>0, <2>2, <2>3, AppendKeepsFaithful
  <2> QED
    BY <1>0, <2>2, <2>4 DEF AllFaithful
<1>2. ASSUME NEW f \in File, ParseRuleFile(f) PROVE AllFaithful'
  <2> DEFINE m == AddMatcher(heap[loading], IdOf[f])
  <2>1. /\ loader.pc = "idle" /\ loading # Nil /\ heap' = [heap EXCEPT ![loading] = m]
        /\ loader'.pc = "parsing" /\ loader'.file = f /\ UNCHANGED <<loading, saved>>
    BY <1>2 DEF ParseRuleFile
  <2>2. /\ loading \in DOMAIN heap /\ heap[loading] \in Matcher /\ Sized(heap[loading])
        /\ Faithful(heap[loading]) /\ IdOf[f] \in CategoryId
    BY <1>0, <2>1, Positions, ConstantsOK DEF Linked, Limited, AllFaithful
  <2>3. m \in Matcher /\ Faithful(m) /\ AtLast(m, IdOf[f])
    BY <2>2, AddMatcherFills, AddMatcherFaithful DEF Filling
  <2> HIDE DEF m
  <2>4. \A p \in DOMAIN heap' : Faithful(heap'[p])
    BY <1>0, <2>1, <2>2, <2>3, EditKeepsFaithful
  <2>5. heap'[loading] = m
    BY <1>0, <2>1, <2>2, <2>3, HeapEdit
  <2> QED
    BY <1>0, <2>1, <2>3, <2>4, <2>5 DEF AllFaithful
<1>3. CASE ParseLine
  <2> DEFINE f == loader.file
             m == AddRule(heap[loading], IdOf[f], Lines[f][loader.line])
  <2>1. loader.pc = "parsing" /\ UNCHANGED <<loading, saved>>
    BY <1>3 DEF ParseLine
  <2>2. /\ loading # Nil /\ loading \in DOMAIN heap /\ f \in File /\ loader.line \in Nat \ {0}
        /\ heap[loading] \in Matcher /\ Faithful(heap[loading]) /\ AtLast(heap[loading], IdOf[f])
        /\ IdOf[f] \in CategoryId
    BY <1>0, <2>1, Positions, ConstantsOK DEF Linked, AllFaithful
  <2>3. Filling(heap[loading])
    BY <1>0, <2>1, <2>2 DEF TypeOK, Limited, Filling
  <2>4. CASE loader.line <= Len(Lines[f]) /\ heap' = [heap EXCEPT ![loading] = m]
             /\ loader' = [loader EXCEPT !.line = @ + 1]
    <3>1. Lines[f][loader.line] \in Rule
      BY <2>2, <2>4, ConstantsOK
    <3>2. m \in Matcher /\ Faithful(m) /\ AtLast(m, IdOf[f])
      BY <2>2, <2>3, <3>1, AddRuleFills, AddRuleFaithful DEF Filling
    <3> HIDE DEF m
    <3>3. \A p \in DOMAIN heap' : Faithful(heap'[p])
      BY <1>0, <2>2, <2>4, <3>2, EditKeepsFaithful
    <3>4. heap'[loading] = m
      BY <1>0, <2>2, <2>4, <3>2, HeapEdit
    <3>5. loader'.file = f
      BY <1>0, <2>4 DEF TypeOK
    <3> QED
      BY <1>0, <2>1, <3>2, <3>3, <3>4, <3>5 DEF AllFaithful
  <2>5. CASE loader' = [loader EXCEPT !.pc = "idle"] /\ UNCHANGED heap
    <3>1. loader'.pc = "idle"
      BY <1>0, <2>5 DEF TypeOK
    <3> QED
      BY <1>0, <2>1, <2>5, <3>1 DEF AllFaithful
  <2> QED
    BY <1>3, <2>4, <2>5 DEF ParseLine
<1>4. ASSUME NEW at \in DOMAIN heap, NEW b \in BOOLEAN, UNCHANGED saved,
             heap' = [heap EXCEPT ![at] = [heap[at] EXCEPT !.bypassOn = b]],
             loader'.pc = "parsing" =>
               loader.pc = "parsing" /\ UNCHANGED loading /\ loader'.file = loader.file
      PROVE  AllFaithful'
  <2> DEFINE m == [heap[at] EXCEPT !.bypassOn = b]
  <2>1. heap[at] \in Matcher /\ Faithful(heap[at])
    BY <1>0, Positions DEF AllFaithful
  <2>2. m \in Matcher /\ m.cats = heap[at].cats /\ m.fed = heap[at].fed /\ m.last = heap[at].last
    BY <2>1, BypassEdited
  <2>3. heap' = [heap EXCEPT ![at] = m]
    BY <1>4
  <2> HIDE DEF m
  <2>4. Faithful(m) /\ \A id : AtLast(heap[at], id) => AtLast(m, id)
    BY <2>1, <2>2, FaithfulSame
  <2>5. \A p \in DOMAIN heap' : Faithful(heap'[p])
    BY <1>0, <2>2, <2>3, <2>4, EditKeepsFaithful
  <2>6. heap'[at] = m /\ \A p \in DOMAIN heap : p # at => heap'[p] = heap[p]
    BY <1>0, <2>2, <2>3, HeapEdit
  <2>7. loader.pc = "parsing" => loading \in DOMAIN heap
    BY <1>0 DEF Linked
  <2> QED
    BY <1>0, <1>4, <2>4, <2>5, <2>6, <2>7 DEF AllFaithful
<1>5. CASE CopyBypass
  <2> DEFINE b == IF active # Nil THEN heap[active].bypassOn ELSE heap[loading].bypassOn
  <2>1. loading # Nil /\ loading \in DOMAIN heap /\ loader'.pc = "publish" /\ UNCHANGED saved
    BY <1>0, <1>5 DEF CopyBypass, Linked, TypeOK
  <2>2. b \in BOOLEAN
    BY <1>0, <2>1, Positions, MatcherParts DEF Linked
  <2>3. heap' = [heap EXCEPT ![loading] = [heap[loading] EXCEPT !.bypassOn = b]]
    BY <1>5, <2>1 DEF CopyBypass
  <2> HIDE DEF b
  <2> QED
    BY <1>4, <2>1, <2>2, <2>3
<1>6. ASSUME NEW setting \in {"on", "off"}, SetBypass(setting) PROVE AllFaithful'
  <2> DEFINE b == setting = "on"
  <2>1. active # Nil /\ active \in DOMAIN heap /\ UNCHANGED <<loading, saved, loader>>
    BY <1>0, <1>6 DEF SetBypass, Linked
  <2>2. b \in BOOLEAN /\ heap' = [heap EXCEPT ![active] = [heap[active] EXCEPT !.bypassOn = b]]
    BY <1>6, <2>1 DEF SetBypass
  <2> HIDE DEF b
  <2> QED
    BY <1>4, <2>1, <2>2
<1>7. CASE Save
  <2> DEFINE m == [heap[active] EXCEPT !.bypassOn = FALSE, !.last = <<"ordinary", 0>>]
  <2>1. /\ active # Nil /\ UNCHANGED <<heap, loading, loader>>
        /\ \/ saved' = [state |-> "damaged", matcher |-> EmptyMatcher(FALSE)]
           \/ saved' = [state |-> "good", matcher |-> m]
    BY <1>7 DEF Save
  <2>2. active \in DOMAIN heap
    BY <1>0, <2>1 DEF Linked
  <2>3. heap[active] \in Matcher /\ Sized(heap[active]) /\ Faithful(heap[active])
    BY <1>0, <2>2, Positions DEF Limited, AllFaithful
  <2>4. m \in Matcher /\ m.cats = heap[active].cats /\ m.fed = heap[active].fed
    BY <2>3, SavedFine
  <2> HIDE DEF m
  <2>5. saved'.matcher = EmptyMatcher(FALSE) \/ saved'.matcher = m
    <3>1. CASE saved' = [state |-> "damaged", matcher |-> EmptyMatcher(FALSE)]
      BY <3>1
    <3>2. CASE saved' = [state |-> "good", matcher |-> m]
      BY <3>2
    <3> QED
      BY <2>1, <3>1, <3>2
  <2>6. Faithful(saved'.matcher)
    BY <2>3, <2>4, <2>5, FaithfulSame, EmptyFaithful
  <2> QED
    BY <1>0, <2>1, <2>6 DEF AllFaithful
<1>8. CASE Load
  <2>1. loader.pc = "idle" /\ UNCHANGED <<saved, loader>>
    BY <1>8 DEF Load
  <2>2. \A p \in DOMAIN heap' : Faithful(heap'[p])
    <3>1. CASE UNCHANGED heap
      BY <3>1 DEF AllFaithful
    <3>2. CASE Len(heap) < MaxLists /\ heap' = Append(heap, saved.matcher)
      BY <1>0, <3>2, AppendKeepsFaithful
    <3> QED
      BY <1>8, <3>1, <3>2 DEF Load
  <2> QED
    BY <1>0, <2>1, <2>2 DEF AllFaithful
<1>9. ASSUME UNCHANGED <<heap, saved>>,
             loader'.pc = "parsing" =>
               loader.pc = "parsing" /\ UNCHANGED loading /\ loader'.file = loader.file
      PROVE  AllFaithful'
  BY <1>9 DEF AllFaithful
<1>10. CASE Publish
  BY <1>0, <1>9, <1>10 DEF Publish, TypeOK
<1>11. CASE ClearLoading
  BY <1>0, <1>9, <1>11 DEF ClearLoading, TypeOK
<1>12. CASE \E r \in Request : Handler(r)
  BY <1>0, <1>9, <1>12, HandlerStep DEF matchers
<1>13. CASE UNCHANGED vars
  BY <1>9, <1>13 DEF vars, matchers
<1> QED
  BY <1>1, <1>2, <1>3, <1>5, <1>6, <1>7, <1>8, <1>10, <1>11, <1>12, <1>13 DEF Next, Embedder

LEMMA InitFaithful == Init => AllFaithful
<1> SUFFICES ASSUME Init PROVE AllFaithful
  OBVIOUS
<1>1. DOMAIN heap = {} /\ saved.matcher = EmptyMatcher(FALSE) /\ loader.pc = "idle"
  BY DEF Init
<1> QED
  BY <1>1, EmptyFaithful DEF AllFaithful

\* Every rule of every file ends where the lookups of its category find it, in
\* order and once, however the files are cut into matchers and categories.
THEOREM ImportKeepsAll == Spec => []ImportFaithful
<1>1. AllFaithful => ImportFaithful
  BY DEF AllFaithful, Faithful, ImportFaithful
<1> QED
  BY <1>1, Invariant, InitFaithful, NextKeepsFaithful, PTL DEF Spec

-----------------------------------------------------------------------------
(* What the lists answer.                                                  *)

\* A set of positions that is not empty has a first one.
LEMMA FirstOfPositions ==
  ASSUME NEW n \in Nat, NEW S \in SUBSET (1..n), S # {}
  PROVE  LET first == CHOOSE k \in S : \A j \in S : k <= j
         IN  first \in S /\ \A j \in S : first <= j
<1>1. S \in SUBSET Nat
  OBVIOUS
<1>2. \E k \in S : \A j \in S : k <= j
  BY <1>1, LeastOfNaturals
<1> QED
  BY <1>2

\* A category matches as a rule says that it was fed.
LEMMA MatchSpeaks ==
  ASSUME NEW m \in Matcher, NEW s \in Sections, NEW c \in Category, Own(m, s, c),
         NEW r \in Request, NEW t \in MatchTypes(c, r)
  PROVE  \E rule \in Rule : Fed(m, c.id, rule) /\ Says(rule, r) /\ Type(rule) = t
<1> DEFINE hits == {k \in DOMAIN c.matchers : Accepting(c.matchers[k], r) # {}}
           first == CHOOSE k \in hits : \A j \in hits : k <= j
<1>1. c.matchers \in Seq(Seq(Rule)) /\ Len(c.matchers) \in Nat
      /\ DOMAIN c.matchers = 1..Len(c.matchers)
  BY DEF Category
<1>2. HostSuffixes[r] \in Seq(Domain)
  BY ConstantsOK
<1>3. CASE hits = {}
  <2>1. t \in DomainTypes(c, r)
    BY <1>3 DEF MatchTypes
  <2>2. PICK k \in DOMAIN HostSuffixes[r] :
          c.blocked[HostSuffixes[r][k]] # "absent" /\ t = c.blocked[HostSuffixes[r][k]]
    BY <2>1 DEF DomainTypes
  <2>3. HostSuffixes[r][k] \in Domain
    BY <1>2
  <2>4. PICK rule \in Rule : Fed(m, c.id, rule) /\ DomainOf[rule] = HostSuffixes[r][k]
                             /\ t = Type(rule)
    BY <2>2, <2>3 DEF Own
  <2>5. Says(rule, r)
    BY <2>3, <2>4, DomainRules DEF Says
  <2> QED
    BY <2>4, <2>5
<1>4. CASE hits # {}
  <2>1. first \in hits
    BY <1>1, <1>4, FirstOfPositions
  <2>2. t \in {Type(rule) : rule \in Accepting(c.matchers[first], r)}
    BY <1>4 DEF MatchTypes
  <2> HIDE DEF first
  <2>3. first \in 1..Len(c.matchers) /\ c.matchers[first] \in Seq(Rule)
    BY <1>1, <2>1
  <2>4. PICK rule \in Accepting(c.matchers[first], r) : t = Type(rule)
    BY <2>2
  <2>5. PICK j \in 1..Len(c.matchers[first]) : c.matchers[first][j] = rule
    BY <2>3, <2>4 DEF Accepting
  <2>6. rule \in Rule /\ rule \in Accepts[r] /\ Holds(c, rule)
    BY <2>3, <2>4, <2>5 DEF Accepting, Holds
  <2> QED
    BY <2>4, <2>6 DEF Own, Says
<1> QED
  BY <1>3, <1>4

\* A category that knows a rule matches what the rule speaks of.
LEMMA KnownMatches ==
  ASSUME NEW c \in Category, NEW r \in Request, NEW rule \in Rule,
         Knows(c, rule), Says(rule, r)
  PROVE  MatchTypes(c, r) # {}
<1> DEFINE hits == {k \in DOMAIN c.matchers : Accepting(c.matchers[k], r) # {}}
           first == CHOOSE k \in hits : \A j \in hits : k <= j
           known == {k \in DOMAIN HostSuffixes[r] : c.blocked[HostSuffixes[r][k]] # "absent"}
<1>1. c.matchers \in Seq(Seq(Rule)) /\ Len(c.matchers) \in Nat
      /\ DOMAIN c.matchers = 1..Len(c.matchers)
  BY DEF Category
<1>2. HostSuffixes[r] \in Seq(Domain)
  BY ConstantsOK
<1>3. CASE hits # {}
  <2>1. first \in hits
    BY <1>1, <1>3, FirstOfPositions
  <2>2. MatchTypes(c, r) = {Type(x) : x \in Accepting(c.matchers[first], r)}
    BY <1>3 DEF MatchTypes
  <2> HIDE DEF first
  <2>3. PICK x : x \in Accepting(c.matchers[first], r)
    BY <2>1
  <2> QED
    BY <2>2, <2>3
<1>4. CASE hits = {}
  <2>1. MatchTypes(c, r) = DomainTypes(c, r)
    BY <1>4 DEF MatchTypes
  <2>2. IsDomainRule(rule)
    <3>1. SUFFICES ASSUME ~IsDomainRule(rule) PROVE FALSE
      OBVIOUS
    <3>2. Holds(c, rule) /\ rule \in Accepts[r]
      BY <3>1 DEF Knows, Says
    <3>3. PICK k \in 1..Len(c.matchers) : \E j \in 1..Len(c.matchers[k]) : c.matchers[k][j] = rule
      BY <3>2 DEF Holds
    <3>4. c.matchers[k] \in Seq(Rule)
      BY <1>1
    <3>5. rule \in Accepting(c.matchers[k], r)
      BY <3>2, <3>3, <3>4 DEF Accepting
    <3> QED
      BY <1>1, <1>4, <3>5
  <2>3. \E k \in DOMAIN HostSuffixes[r] : c.blocked[HostSuffixes[r][k]] # "absent"
    BY <2>2 DEF Knows, Says
  <2>4. known \in SUBSET Nat /\ known # {}
    BY <1>2, <2>3
  <2>5. PICK k \in known : \A i \in known : k <= i
    BY <2>4, LeastOfNaturals
  <2>6. c.blocked[HostSuffixes[r][k]] \in DomainTypes(c, r)
    BY <2>5 DEF DomainTypes
  <2> QED
    BY <2>1, <2>6
<1> QED
  BY <1>3, <1>4

\* Categories match exactly when rules do, for the lists and types of these rules.
LEMMA MatchesAreHits ==
  ASSUME NEW m \in Matcher, Sorted(m), NEW s \in Sections, NEW r \in Request
  PROVE  /\ \A k \in Matched(m.cats[s], r) : \A t \in MatchTypes(m.cats[s][k], r) :
              \E h \in Hits(m, s, r) : ListOf[h[1]] = m.cats[s][k].list /\ Type(h[2]) = t
         /\ \A h \in Hits(m, s, r) : \E k \in Matched(m.cats[s], r) :
              ListOf[h[1]] = m.cats[s][k].list
<1>1. m.cats[s] \in Seq(Category) /\ DOMAIN m.cats[s] = 1..Len(m.cats[s])
  BY MatcherParts
<1>2. ASSUME NEW k \in Matched(m.cats[s], r), NEW t \in MatchTypes(m.cats[s][k], r)
      PROVE  \E h \in Hits(m, s, r) : ListOf[h[1]] = m.cats[s][k].list /\ Type(h[2]) = t
  <2> DEFINE c == m.cats[s][k]
  <2>1. c \in Category /\ Own(m, s, c)
    BY <1>1, <1>2 DEF Matched, Sorted
  <2>2. PICK rule \in Rule : Fed(m, c.id, rule) /\ Says(rule, r) /\ Type(rule) = t
    BY <1>2, <2>1, MatchSpeaks
  <2>3. c.id \in CategoryId /\ c.list = ListOf[c.id] /\ s = Section(ListOf[c.id])
    BY <2>1 DEF Own
  <2> HIDE DEF c
  <2>4. m.fed[c.id] \in Seq(Rule)
    BY <2>3, MatcherParts
  <2>5. \E j \in DOMAIN m.fed[c.id] : m.fed[c.id][j] = rule
    BY <2>2, <2>4 DEF Fed
  <2>6. <<c.id, rule>> \in Hits(m, s, r)
    BY <2>2, <2>3, <2>5 DEF Hits
  <2>7. ListOf[<<c.id, rule>>[1]] = c.list /\ Type(<<c.id, rule>>[2]) = t
    BY <2>2, <2>3
  <2> QED
    BY <2>6, <2>7 DEF c
<1>3. ASSUME NEW h \in Hits(m, s, r)
      PROVE  \E k \in Matched(m.cats[s], r) : ListOf[h[1]] = m.cats[s][k].list
  <2>1. /\ h[1] \in CategoryId /\ h[2] \in Rule /\ Section(ListOf[h[1]]) = s
        /\ \E k \in DOMAIN m.fed[h[1]] : m.fed[h[1]][k] = h[2]
        /\ Says(h[2], r)
    BY <1>3 DEF Hits
  <2>2. m.fed[h[1]] \in Seq(Rule)
    BY <2>1, MatcherParts
  <2>3. Fed(m, h[1], h[2])
    BY <2>1, <2>2 DEF Fed
  <2>4. PICK k \in 1..Len(m.cats[s]) : m.cats[s][k].id = h[1] /\ Knows(m.cats[s][k], h[2])
    BY <2>1, <2>3 DEF Sorted, Found
  <2>5. m.cats[s][k] \in Category /\ Own(m, s, m.cats[s][k])
    BY <1>1, <2>4 DEF Sorted
  <2>6. MatchTypes(m.cats[s][k], r) # {}
    BY <2>1, <2>4, <2>5, KnownMatches
  <2> QED
    BY <1>1, <2>4, <2>5, <2>6 DEF Matched, Own
<1> QED
  BY <1>2, <1>3

\* A verdict of one section is one its rules warrant.
LEMMA VerdictsWarranted ==
  ASSUME NEW m \in Matcher, Sorted(m), NEW s \in Sections, NEW r \in Request,
         NEW v \in Verdicts(m.cats[s], r)
  PROVE  Warranted(Hits(m, s, r), r, v)
<1> DEFINE cats == m.cats[s]
           hits == Hits(m, s, r)
           white == \E k \in Matched(cats, r) :
                      cats[k].list = "Whitelist" \/ "excluded" \in MatchTypes(cats[k], r)
           black == \A k \in Matched(cats, r) :
                      cats[k].list # "Whitelist" /\ "included" \in MatchTypes(cats[k], r)
<1>1. /\ \A k \in Matched(cats, r) : \A t \in MatchTypes(cats[k], r) :
           \E h \in hits : ListOf[h[1]] = cats[k].list /\ Type(h[2]) = t
      /\ \A h \in hits : \E k \in Matched(cats, r) : ListOf[h[1]] = cats[k].list
  BY MatchesAreHits
<1>2. \A k \in Matched(cats, r) : MatchTypes(cats[k], r) # {}
  BY DEF Matched
<1>3. \/ Matched(cats, r) = {} /\ v = "none"
      \/ white /\ v = "white"
      \/ Matched(cats, r) # {} /\ black /\ v = IF r \in Early THEN "none" ELSE "black"
  BY DEF Verdicts
<1> HIDE DEF cats, hits
<1>4. CASE Matched(cats, r) = {} /\ v = "none"
  BY <1>1, <1>4 DEF Warranted, hits
<1>5. CASE white /\ v = "white"
  <2>1. \E h \in hits : ListOf[h[1]] = "Whitelist" \/ Type(h[2]) = "excluded"
    BY <1>1, <1>2, <1>5
  <2> QED
    BY <1>5, <2>1 DEF Warranted, Type, hits
<1>6. CASE Matched(cats, r) # {} /\ black /\ v = IF r \in Early THEN "none" ELSE "black"
  <2>1. \A h \in hits : ListOf[h[1]] # "Whitelist"
    BY <1>1, <1>6
  <2>2. \E h \in hits : Type(h[2]) = "included"
    BY <1>1, <1>6
  <2>3. \E h \in hits : h[2] \notin Exception
    BY <2>2 DEF Type
  <2> QED
    BY <1>6, <2>1, <2>3 DEF Warranted, hits
<1> QED
  BY <1>3, <1>4, <1>5, <1>6

\* What is answered is correct for the rules of the lists and for the bypass
\* setting that was read.
LEMMA AnswersCorrect ==
  ASSUME NEW m \in Matcher, Sorted(m), NEW r \in Request, NEW v \in Answers(m, r)
  PROVE  Correct(m, m.bypassOn, r, v)
<1>1. Matched(m.cats["ordinary"], r) # {} <=> Hits(m, "ordinary", r) # {}
  <2>1. \A k \in Matched(m.cats["ordinary"], r) : MatchTypes(m.cats["ordinary"][k], r) # {}
    BY DEF Matched
  <2> QED
    BY <2>1, MatchesAreHits DEF Sections
<1>2. \A s \in Sections : v \in Verdicts(m.cats[s], r) => Warranted(Hits(m, s, r), r, v)
  BY VerdictsWarranted
<1>3. "ordinary" \in Sections /\ "bypass" \in Sections
  BY DEF Sections
<1> QED
  BY <1>1, <1>2, <1>3 DEF Answers, Correct

-----------------------------------------------------------------------------
(* The moments of a decision.                                              *)

\* What one step of a handler comes to: it goes on looking, it answers without
\* lists, it takes the lists, or it answers from those it took.
LEMMA HandlerCases ==
  ASSUME TypeOK, NEW r \in Request, Handler(r)
  PROVE  /\ pc[r] \notin {"done", "crashed"}
         /\ \A q \in Request \ {r} : pc'[q] = pc[q] /\ took'[q] = took[q] /\ verdict'[q] = verdict[q]
         /\ \/ pc[r] # "test" /\ pc'[r] \notin {"new", "test", "done"} /\ took'[r] = took[r]
            \/ /\ pc[r] # "test" /\ pc'[r] = "done" /\ took'[r] = took[r]
               /\ \/ verdict'[r] = "white" /\ r \in Localhost /\ active # Nil
                  \/ /\ verdict'[r] = "none"
                     /\ active = Nil \/ \E s \in Sections : heap[active].cats[s] = << >>
            \/ pc[r] # "test" /\ pc'[r] = "test" /\ took'[r] = active /\ active # Nil
            \/ /\ pc[r] = "test" /\ pc'[r] = "done" /\ took'[r] = took[r]
               /\ verdict'[r] \in Answers(heap[took[r]], r)
<1> DEFINE Others == \A q \in Request \ {r} :
                       pc'[q] = pc[q] /\ took'[q] = took[q] /\ verdict'[q] = verdict[q]
<1> USE DEF TypeOK
<1>1. ASSUME NEW label, Goto(r, label)
      PROVE  Others /\ pc'[r] = label /\ took'[r] = took[r]
  BY <1>1 DEF Goto
<1>2. ASSUME NEW v, Decide(r, v)
      PROVE  Others /\ pc'[r] = "done" /\ took'[r] = took[r] /\ verdict'[r] = v
  BY <1>2 DEF Decide
<1> HIDE DEF Others
<1>3. CASE Ask(r)
  <2>1. pc[r] = "new"
    BY <1>3 DEF Ask
  <2>2. CASE active = Nil
    BY <1>2, <1>3, <2>1, <2>2 DEF Ask, Others
  <2>3. CASE active # Nil /\ r \in Localhost
    BY <1>2, <1>3, <2>1, <2>3 DEF Ask, Others
  <2>4. CASE active # Nil /\ r \notin Localhost
    BY <1>1, <1>3, <2>1, <2>4 DEF Ask, Others
  <2> QED
    BY <2>2, <2>3, <2>4
<1>4. ASSUME NEW at \in {"ordinaryNil", "bypassNil", "ordinaryLen", "bypassLen"},
             NEW s \in Sections,
             NEW ifEmpty \in {"bypassNil", "bypassLen", "done"},
             NEW otherwise \in {"ordinaryLen", "take"},
             Look(r, at, s, ifEmpty, otherwise)
      PROVE  /\ pc[r] = at /\ Others /\ took'[r] = took[r]
             /\ \/ pc'[r] \in {"bypassNil", "bypassLen", "ordinaryLen", "take", "crashed"}
                \/ pc'[r] = "done" /\ verdict'[r] = "none" /\ heap[active].cats[s] = << >>
  BY <1>1, <1>2, <1>4 DEF Look
<1>5. CASE AreListsLoaded(r)
  <2>1. /\ pc[r] \in {"ordinaryNil", "bypassNil", "ordinaryLen", "bypassLen"}
        /\ Others /\ took'[r] = took[r]
        /\ \/ pc'[r] \in {"bypassNil", "bypassLen", "ordinaryLen", "take", "crashed"}
           \/ /\ pc'[r] = "done" /\ verdict'[r] = "none"
              /\ \E s \in Sections : heap[active].cats[s] = << >>
    BY <1>4, <1>5 DEF AreListsLoaded, Sections
  <2> QED
    BY <2>1 DEF Others
<1>6. CASE Take(r)
  <2>1. pc[r] = "take"
    BY <1>6 DEF Take
  <2>2. CASE active = Nil
    BY <1>1, <1>6, <2>1, <2>2 DEF Take, Others
  <2>3. CASE active # Nil
    BY <1>6, <2>1, <2>3 DEF Take
  <2> QED
    BY <2>2, <2>3
<1>7. CASE Test(r)
  <2>1. pc[r] = "test"
    BY <1>7 DEF Test
  <2>2. PICK v \in Answers(heap[took[r]], r) : Decide(r, v)
    BY <1>7 DEF Test
  <2> QED
    BY <1>2, <2>1, <2>2 DEF Others
<1> QED
  BY <1>3, <1>5, <1>6, <1>7 DEF Handler

\* Who may change what: a matcher that is filled is the one of before, or it is
\* new; every step is remembered; a request that is over stays as it is.
LEMMA StepShape ==
  ASSUME IInv, Next
  PROVE  /\ DOMAIN heap \subseteq DOMAIN heap' /\ toggler' = toggler /\ Remember
         /\ loader'.pc # "clear" /\ loading' # Nil =>
              (loading' = loading /\ loader.pc # "clear") \/ loading' \notin DOMAIN heap
         /\ \/ UNCHANGED <<pc, took, verdict>>
            \/ UNCHANGED matchers /\ \E r \in Request : Handler(r)
<1>0. /\ TypeOK /\ Linked
      /\ DOMAIN heap \subseteq Ref /\ Len(heap) + 1 \notin DOMAIN heap
      /\ loading \in DOMAIN heap \union {Nil}
  BY Positions DEF IInv, Linked
<1> DEFINE Grows == DOMAIN heap \subseteq DOMAIN heap'
           Fresh == loader'.pc # "clear" /\ loading' # Nil =>
                      (loading' = loading /\ loader.pc # "clear") \/ loading' \notin DOMAIN heap
<1>1. ASSUME NEW m, \/ heap' = [heap EXCEPT ![active] = m]
                    \/ heap' = [heap EXCEPT ![loading] = m]
                    \/ heap' = Append(heap, m)
                    \/ heap' = heap
      PROVE  Grows
  BY <1>0, <1>1 DEF TypeOK
<1>2. ASSUME UNCHANGED loading, loader.pc # "clear" PROVE Fresh
  BY <1>2
<1> HIDE DEF Grows, Fresh
<1>3. ASSUME RequestsGoOn
      PROVE  UNCHANGED <<toggler, pc, took, verdict>> /\ Remember
  BY <1>3 DEF RequestsGoOn, requests
<1>4. CASE Initialize
  BY <1>0, <1>1, <1>3, <1>4 DEF Initialize, Fresh
<1>5. ASSUME NEW f \in File, ParseRuleFile(f) PROVE Grows /\ Fresh /\ RequestsGoOn
  BY <1>1, <1>2, <1>5 DEF ParseRuleFile
<1>6. CASE ParseLine
  BY <1>1, <1>2, <1>3, <1>6 DEF ParseLine, Grows, Fresh
<1>7. CASE CopyBypass
  <2>1. Grows
    BY <1>1, <1>7 DEF CopyBypass
  <2> QED
    BY <1>2, <1>3, <1>7, <2>1 DEF CopyBypass, Grows, Fresh
<1>8. CASE Publish
  BY <1>1, <1>2, <1>3, <1>8 DEF Publish, Grows, Fresh
<1>9. CASE ClearLoading
  BY <1>1, <1>3, <1>9 DEF ClearLoading, Grows, Fresh
<1>10. CASE Save
  BY <1>1, <1>2, <1>3, <1>10 DEF Save, Grows, Fresh
<1>11. CASE Load
  BY <1>1, <1>2, <1>3, <1>11 DEF Load, Grows, Fresh
<1>12. ASSUME NEW setting \in {"on", "off"}, SetBypass(setting)
       PROVE  Grows /\ Fresh /\ RequestsGoOn
  <2>1. Grows
    BY <1>1, <1>12 DEF SetBypass
  <2>2. Fresh
    BY <1>12 DEF SetBypass, Fresh
  <2> QED
    BY <1>12, <2>1, <2>2 DEF SetBypass
<1>13. CASE \E r \in Request : Handler(r)
  BY <1>0, <1>13, HandlerStep DEF matchers
<1> QED
  BY <1>3, <1>4, <1>5, <1>6, <1>7, <1>8, <1>9, <1>10, <1>11, <1>12, <1>13
     DEF Next, Embedder, Grows, Fresh

Running(r) == pc[r] \notin {"new", "done", "crashed"}

\* A request that runs has the present moment among its moments.  None of its
\* moments is that of a matcher that is still filled, and the lists it tests with
\* are those of one of its moments, with a bypass setting that was right for it
\* when it was last written.
Moments ==
  \A r \in Request :
    /\ Running(r) => <<active, wanted>> \in inForce[r]
    /\ \A now \in inForce[r] :
         /\ now[1] \in DOMAIN heap \union {Nil}
         /\ loader.pc # "clear" /\ loading # Nil => now[1] # loading
    /\ pc[r] \notin {"test", "done"} => took[r] = Nil
    /\ pc[r] = "test" =>
         /\ took[r] # Nil
         /\ \E now \in inForce[r] : now[1] = took[r] /\ heap[took[r]].bypassOn \in Settings(now[2])

\* The past of a request is not rewritten, and the present joins it.
LEMMA PastStays ==
  ASSUME IInv, IInv', Moments, Next, NEW r \in Request
  PROVE  /\ inForce[r] \subseteq inForce'[r]
         /\ pc[r] = "done" => inForce'[r] = inForce[r]
         /\ pc'[r] \notin {"new", "crashed"} /\ pc[r] \notin {"done", "crashed"} =>
              <<active', wanted'>> \in inForce'[r]
         /\ \A now \in inForce'[r] :
              /\ now[1] \in DOMAIN heap' \union {Nil}
              /\ loader'.pc # "clear" /\ loading' # Nil => now[1] # loading'
         /\ \A now \in inForce[r] : now[1] # Nil =>
              heap'[now[1]].cats = heap[now[1]].cats /\ heap'[now[1]].fed = heap[now[1]].fed
<1>1. /\ DOMAIN heap \subseteq DOMAIN heap' /\ Remember
      /\ loader'.pc # "clear" /\ loading' # Nil =>
           (loading' = loading /\ loader.pc # "clear") \/ loading' \notin DOMAIN heap
  BY StepShape
<1>2. TypeOK /\ Linked' /\ TypeOK' /\ Nil \notin DOMAIN heap
  BY Positions DEF IInv
<1>3. inForce'[r] = IF pc'[r] = "new" \/ pc[r] \in {"done", "crashed"} THEN inForce[r]
                    ELSE inForce[r] \union {<<active', wanted'>>}
  BY <1>1 DEF Remember
<1>4. ASSUME NEW now \in inForce[r]
      PROVE  /\ now[1] \in DOMAIN heap' \union {Nil}
             /\ loader'.pc # "clear" /\ loading' # Nil => now[1] # loading'
             /\ now[1] # Nil =>
                  heap'[now[1]].cats = heap[now[1]].cats /\ heap'[now[1]].fed = heap[now[1]].fed
  <2>1. /\ now[1] \in DOMAIN heap \union {Nil}
        /\ loader.pc # "clear" /\ loading # Nil => now[1] # loading
    BY DEF Moments
  <2>2. ASSUME now[1] # Nil
        PROVE  heap'[now[1]].cats = heap[now[1]].cats /\ heap'[now[1]].fed = heap[now[1]].fed
    BY <2>1, <2>2, HeapChange
  <2> QED
    BY <1>1, <2>1, <2>2
<1>5. /\ active' \in DOMAIN heap' \union {Nil}
      /\ loader'.pc # "clear" /\ loading' # Nil => active' # loading'
  BY <1>2 DEF Linked
<1>6. <<active', wanted'>>[1] = active'
  OBVIOUS
<1> QED
  BY <1>3, <1>4, <1>5, <1>6

\* Whether an answer is correct is a matter of the rules alone.
LEMMA CorrectStays ==
  ASSUME NEW m, NEW n, n.fed = m.fed, NEW b, NEW r, NEW v, Correct(m, b, r, v)
  PROVE  Correct(n, b, r, v)
<1>1. \A s : Hits(n, s, r) = Hits(m, s, r)
  BY DEF Hits
<1> QED
  BY <1>1 DEF Correct

\* While a request tests, its bypass setting stays that of one of its moments.
LEMMA TestedSettingStays ==
  ASSUME IInv, IInv', Moments, Next, NEW r \in Request, pc[r] = "test", pc'[r] = "test",
         took'[r] = took[r]
  PROVE  \E now \in inForce'[r] :
           now[1] = took[r] /\ heap'[took[r]].bypassOn \in Settings(now[2])
<1>1. PICK now \in inForce[r] : now[1] = took[r] /\ heap[took[r]].bypassOn \in Settings(now[2])
  BY DEF Moments
<1>2. TypeOK /\ TypeOK' /\ took[r] \in DOMAIN heap /\ toggler' = toggler
      /\ (loader.pc # "clear" /\ loading # Nil => took[r] # loading)
  BY StepShape DEF IInv, Linked, Moments
<1>3. now \in inForce'[r] /\ <<active', wanted'>> \in inForce'[r]
  BY <1>1, PastStays
<1>4. CASE heap'[took[r]].bypassOn = heap[took[r]].bypassOn
  BY <1>1, <1>3, <1>4
<1>5. CASE CopyBypass /\ took[r] = loading
  BY <1>2, <1>5 DEF CopyBypass
<1>6. ASSUME NEW setting \in {"on", "off"}, SetBypass(setting), took[r] = active
      PROVE  <<active', wanted'>>[1] = took[r]
             /\ heap'[took[r]].bypassOn \in Settings(<<active', wanted'>>[2])
  <2> DEFINE b == setting = "on"
             m == [heap[active] EXCEPT !.bypassOn = b]
  <2>1. active' = active /\ wanted' = setting
    BY <1>6 DEF SetBypass
  <2>2. heap' = [heap EXCEPT ![active] = m]
    BY <1>6 DEF SetBypass
  <2>3. b \in BOOLEAN
    OBVIOUS
  <2> HIDE DEF b
  <2>4. m \in Matcher /\ m.bypassOn = b
    BY <1>2, <1>6, <2>3, Positions, BypassEdited
  <2> HIDE DEF m
  <2>5. heap'[active].bypassOn = b
    BY <1>2, <1>6, <2>2, <2>4, HeapEdit
  <2>6. b \in Settings(<<active', wanted'>>[2])
    BY <2>1, <2>3 DEF Settings, b
  <2> QED
    BY <1>6, <2>1, <2>5, <2>6
<1> QED
  BY <1>2, <1>3, <1>4, <1>5, <1>6, HeapChange

LEMMA NextKeepsMoments == IInv /\ SettingKept /\ Moments /\ [Next]_vars => Moments'
<1> SUFFICES ASSUME IInv, SettingKept, Moments, [Next]_vars
             PROVE  Moments'
  OBVIOUS
<1>1. CASE UNCHANGED vars
  BY <1>1 DEF Moments, Running, Settings, vars, matchers, requests
<1>2. ASSUME Next PROVE Moments'
  <2>1. IInv'
    BY NextInv
  <2>2. TypeOK /\ TypeOK' /\ Linked
    BY <2>1 DEF IInv
  <2> SUFFICES ASSUME NEW r \in Request
               PROVE  /\ Running(r)' => <<active', wanted'>> \in inForce'[r]
                      /\ pc'[r] \notin {"test", "done"} => took'[r] = Nil
                      /\ pc'[r] = "test" =>
                           /\ took'[r] # Nil
                           /\ \E now \in inForce'[r] :
                                now[1] = took'[r] /\ heap'[took'[r]].bypassOn \in Settings(now[2])
    BY <1>2, <2>1, PastStays, StepShape DEF Moments, Settings
  <2>3. /\ pc'[r] \notin {"new", "crashed"} /\ pc[r] \notin {"done", "crashed"} =>
             <<active', wanted'>> \in inForce'[r]
        /\ inForce[r] \subseteq inForce'[r]
    BY <1>2, <2>1, PastStays
  <2>4. /\ pc[r] \notin {"test", "done"} => took[r] = Nil
        /\ pc[r] = "test" => took[r] # Nil
    BY DEF Moments
  <2>5. CASE pc'[r] = pc[r] /\ took'[r] = took[r]
    BY <1>2, <2>1, <2>3, <2>4, <2>5, TestedSettingStays DEF Running
  <2>6. CASE UNCHANGED matchers /\ Handler(r)
    <3>1. /\ pc[r] \notin {"done", "crashed"}
          /\ \/ pc[r] # "test" /\ pc'[r] \notin {"new", "test", "done"} /\ took'[r] = took[r]
             \/ pc'[r] = "done"
             \/ pc[r] # "test" /\ pc'[r] = "test" /\ took'[r] = active /\ active # Nil
      BY <2>2, <2>6, HandlerCases
    <3>2. CASE pc'[r] = "test" /\ took'[r] = active /\ active # Nil
      <4>1. <<active, wanted>> \in inForce'[r] /\ UNCHANGED <<heap, active, wanted, toggler>>
        BY <2>2, <2>3, <2>6, <3>1, <3>2, HandlerStep DEF matchers
      <4>2. heap[active] \in Matcher
        BY <2>2, <3>2, Positions DEF Linked
      <4>3. heap[active].bypassOn \in Settings(wanted)
        <5>1. heap[active].bypassOn \in BOOLEAN
          BY <4>2, MatcherParts
        <5> QED
          BY <2>2, <3>2, <5>1 DEF Settings, SettingKept, TypeOK
      <4>4. <<active, wanted>>[1] = active /\ <<active, wanted>>[2] = wanted
        OBVIOUS
      <4> QED
        BY <2>3, <3>1, <3>2, <4>1, <4>3, <4>4 DEF Running
    <3> QED
      BY <2>3, <2>4, <3>1, <3>2 DEF Running
  <2>7. CASE \E q \in Request : q # r /\ Handler(q)
    BY <2>2, <2>5, <2>7, HandlerCases
  <2> QED
    BY <1>2, <2>5, <2>6, <2>7, StepShape
<1> QED
  BY <1>1, <1>2

\* DecisionHasItsMoment, of one request and one of its moments.
Decided(r, now) ==
  IF took[r] # Nil
  THEN now[1] = took[r]
       /\ \E b \in Settings(now[2]) : Correct(heap[took[r]], b, r, verdict[r])
  ELSE \/ verdict[r] = "white" /\ r \in Localhost /\ now[1] # Nil
       \/ verdict[r] = "none"
          /\ (now[1] = Nil \/ \E s \in Sections : heap[now[1]].cats[s] = << >>)

\* A decision keeps its moment whatever is loaded and published afterwards.
LEMMA DecisionStays ==
  ASSUME IInv, IInv', Moments, Next, NEW r \in Request, pc[r] = "done", took'[r] = took[r],
         verdict'[r] = verdict[r], \E now \in inForce[r] : Decided(r, now)
  PROVE  \E now \in inForce'[r] : Decided(r, now)'
<1>1. PICK now \in inForce[r] : Decided(r, now)
  OBVIOUS
<1>2. /\ now \in inForce'[r] /\ toggler' = toggler
      /\ now[1] # Nil =>
           heap'[now[1]].cats = heap[now[1]].cats /\ heap'[now[1]].fed = heap[now[1]].fed
  BY PastStays, StepShape
<1>3. \A w : (w = "any" \/ toggler' = "other") <=> (w = "any" \/ toggler = "other")
  BY <1>2
<1>4. CASE took[r] # Nil
  <2>1. PICK b \in Settings(now[2]) : Correct(heap[took[r]], b, r, verdict[r])
    BY <1>1, <1>4 DEF Decided
  <2>2. now[1] = took[r]
    BY <1>1, <1>4 DEF Decided
  <2>3. Correct(heap'[took[r]], b, r, verdict[r])
    BY <1>2, <1>4, <2>1, <2>2, CorrectStays
  <2> QED
    BY <1>2, <1>4, <2>1, <2>2, <2>3 DEF Decided, Settings
<1>5. CASE took[r] = Nil
  <2>1. \/ verdict[r] = "white" /\ r \in Localhost /\ now[1] # Nil
        \/ /\ verdict[r] = "none"
           /\ now[1] = Nil \/ \E s \in Sections : heap[now[1]].cats[s] = << >>
    BY <1>1, <1>5 DEF Decided
  <2>2. \/ verdict'[r] = "white" /\ r \in Localhost /\ now[1] # Nil
        \/ /\ verdict'[r] = "none"
           /\ now[1] = Nil \/ \E s \in Sections : heap'[now[1]].cats[s] = << >>
    BY <1>2, <2>1
  <2> QED
    BY <1>2, <1>5, <2>2 DEF Decided
<1> QED
  BY <1>4, <1>5

LEMMA NextKeepsDecision ==
  IInv /\ SettingKept /\ AllFaithful /\ Moments /\ DecisionHasItsMoment /\ [Next]_vars
    => DecisionHasItsMoment'
<1> SUFFICES ASSUME IInv, SettingKept, AllFaithful, Moments, DecisionHasItsMoment, [Next]_vars
             PROVE  DecisionHasItsMoment'
  OBVIOUS
<1>1. CASE UNCHANGED vars
  BY <1>1 DEF DecisionHasItsMoment, Settings, vars, matchers, requests
<1>2. ASSUME Next, NEW r \in Request, pc'[r] = "done"
      PROVE  \E now \in inForce'[r] : Decided(r, now)'
  <2>1. IInv' /\ TypeOK /\ TypeOK' /\ Linked
    BY NextInv DEF IInv
  <2>2. pc[r] = "done" => \E now \in inForce[r] : Decided(r, now)
    BY DEF DecisionHasItsMoment, Decided
  <2>3. CASE pc'[r] = pc[r] /\ took'[r] = took[r] /\ verdict'[r] = verdict[r]
    BY <1>2, <2>1, <2>2, <2>3, DecisionStays
  <2>4. CASE UNCHANGED matchers /\ Handler(r)
    <3>1. /\ pc[r] \notin {"done", "crashed"}
          /\ \/ /\ pc[r] # "test" /\ took'[r] = took[r]
                /\ \/ verdict'[r] = "white" /\ r \in Localhost /\ active # Nil
                   \/ /\ verdict'[r] = "none"
                      /\ active = Nil \/ \E s \in Sections : heap[active].cats[s] = << >>
             \/ /\ pc[r] = "test" /\ took'[r] = took[r]
                /\ verdict'[r] \in Answers(heap[took[r]], r)
      BY <1>2, <2>1, <2>4, HandlerCases
    <3>2. /\ UNCHANGED <<heap, active, wanted, toggler>>
          /\ inForce[r] \subseteq inForce'[r] /\ <<active, wanted>> \in inForce'[r]
      BY <1>2, <2>1, <2>4, <3>1, PastStays, HandlerStep DEF matchers
    <3>3. CASE pc[r] = "test"
      <4>1. PICK now \in inForce[r] :
              now[1] = took[r] /\ heap[took[r]].bypassOn \in Settings(now[2])
        BY <3>3 DEF Moments
      <4>2. took[r] # Nil /\ took[r] \in DOMAIN heap
        BY <2>1, <3>3 DEF Moments, Linked
      <4>3. heap[took[r]] \in Matcher /\ Sorted(heap[took[r]])
        BY <2>1, <4>2, Positions DEF AllFaithful, Faithful
      <4>4. took'[r] = took[r] /\ verdict'[r] \in Answers(heap[took[r]], r)
        BY <3>1, <3>3
      <4>5. Correct(heap[took[r]], heap[took[r]].bypassOn, r, verdict'[r])
        BY <4>3, <4>4, AnswersCorrect
      <4>6. now \in inForce'[r]
        BY <3>2
      <4>7. Settings(now[2]) = IF now[2] = "any" \/ toggler' = "other" THEN BOOLEAN
                               ELSE {now[2] = "on"}
        BY <3>2 DEF Settings
      <4> QED
        BY <3>2, <4>1, <4>2, <4>4, <4>5, <4>6, <4>7 DEF Decided, Settings
    <3>4. CASE pc[r] # "test"
      <4>1. took'[r] = Nil
        BY <3>1, <3>4 DEF Moments
      <4>2. <<active, wanted>>[1] = active
        OBVIOUS
      <4>3. \/ verdict'[r] = "white" /\ r \in Localhost /\ active # Nil
            \/ /\ verdict'[r] = "none"
               /\ active = Nil \/ \E s \in Sections : heap'[active].cats[s] = << >>
        BY <3>1, <3>2, <3>4
      <4> QED
        BY <3>2, <4>1, <4>2, <4>3 DEF Decided
    <3> QED
      BY <3>3, <3>4
  <2>5. CASE \E q \in Request : q # r /\ Handler(q)
    BY <2>1, <2>3, <2>5, HandlerCases
  <2> QED
    BY <1>2, <2>3, <2>4, <2>5, StepShape
<1> QED
  BY <1>1, <1>2 DEF DecisionHasItsMoment, Decided

\* Whatever is loaded, published or set while a handler runs, its decision is the
\* one that the rules themselves and the bypass setting call for at one moment of
\* the handler's run.
THEOREM DecidedRightly == Spec => []DecisionHasItsMoment
<1>1. Init => SettingKept
  BY DEF Init, SettingKept
<1>2. Init => Moments /\ DecisionHasItsMoment
  BY DEF Init, Moments, Running, DecisionHasItsMoment
<1> QED
  BY <1>1, <1>2, Invariant, NextKeepsSetting, InitFaithful, NextKeepsFaithful, NextKeepsMoments,
     NextKeepsDecision, PTL DEF Spec

=============================================================================
