--------------------------- MODULE AdBlockMatcher ---------------------------
(***************************************************************************)
(* The filter lists: goproxy/adblock.go, adblock_import.go and             *)
(* adblock_interop.go.  The embedder builds a matcher from rule files      *)
(* (Initialize, ParseRuleFile, LoadingFinished) or from a saved one (Load) *)
(* while the handlers of requests, in goroutines of their own, consult the *)
(* published one (main.go: the request filter, and IsDomainWhitelisted for *)
(* CONNECT and the early TLS path).  Publishing is an assignment to the    *)
(* variable adBlockMatcher; nothing is locked, and a handler reads that    *)
(* variable up to six times.                                               *)
(*                                                                         *)
(* A rule stands for one line of a file: Broken if adblock.ParseRule does  *)
(* not accept it, a plain domain rule, or a pattern.  Matching a pattern   *)
(* is the library's business: Accepts says which rules accept a request.   *)
(***************************************************************************)
EXTENDS Naturals, Sequences, SequencesExt

CONSTANTS
  Request,              \* one handler's question to the lists
  Early,                \* those that only ask IsDomainWhitelisted
  Localhost,            \* those among them for the host "localhost"
  Rule, Broken, Exception,
  Domain, DomainOf,     \* the domain of a plain domain rule, NoDomain otherwise
  NoDomain,
  Accepts,              \* the pattern rules that accept a request
  HostSuffixes,             \* the host's suffixes of two and more labels, shortest first
  File, Lines, IdOf,    \* a rule file: its lines and its category
  CategoryId, ListOf,   \* the list type of a category
  MaxRulesPerMatcher,   \* adblock.go: MAX_RULES_PER_MATCHER
  MaxLists, MaxFiles,   \* bounds: matchers made, files parsed in all
  MaxAsked,             \* bound: questions asked
  Nil

ListTypes == {"Blacklist", "Whitelist", "BypassList"}

ASSUME ConstantsOK ==
  /\ Localhost \subseteq Early /\ Early \subseteq Request
  /\ Broken \subseteq Rule /\ Exception \subseteq Rule
  /\ NoDomain \notin Domain /\ DomainOf \in [Rule -> Domain \union {NoDomain}]
  /\ Accepts \in [Request -> SUBSET Rule] /\ HostSuffixes \in [Request -> Seq(Domain)]
  /\ Lines \in [File -> Seq(Rule)] /\ IdOf \in [File -> CategoryId]
  /\ ListOf \in [CategoryId -> ListTypes]
  /\ MaxRulesPerMatcher \in Nat \ {0} /\ MaxLists \in Nat /\ MaxFiles \in Nat /\ MaxAsked \in Nat
  /\ Nil \notin 1..MaxLists /\ Nil \notin File

VARIABLES
  heap,      \* every AdBlockMatcher made so far
  active,    \* adBlockMatcher: the one requests consult
  loading,   \* adBlockMatcherNew: the one being filled
  saved,     \* what the saved file holds
  loader,    \* the embedder's thread that fills and publishes
  toggler,   \* the thread that calls EnableBypass: "same" or "other"
  pc,        \* where the handler of each request is
  took,      \* the matcher it tests with
  verdict,
  wanted,    \* history: the bypass setting last asked for, "any" after Load
  inForce,   \* history: the <<active, wanted>> pairs during each request
  emptied    \* history: a Load has left adBlockMatcher nil

matchers == <<heap, active, loading, saved>>
requests == <<pc, took, verdict>>
vars == <<matchers, loader, toggler, requests, wanted, inForce, emptied>>

-----------------------------------------------------------------------------
(* An AdBlockMatcher.  Its categories are in two lists; lastMatcher is     *)
(* always the last matcher of lastCategory, so only the latter is kept.    *)

Sections == {"ordinary", "bypass"}
Section(list) == IF list = "BypassList" THEN "bypass" ELSE "ordinary"

IsDomainRule(rule) == DomainOf[rule] # NoDomain
Type(rule) == IF rule \in Exception THEN "excluded" ELSE "included"

Category ==
  [id : CategoryId, list : ListTypes, matchers : Seq(Seq(Rule)),
   blocked : [Domain -> {"absent", "included", "excluded"}]]

Matcher ==
  [cats : [Sections -> Seq(Category)],
   last : Sections \X Nat,        \* lastCategory; position 0 is nil
   rules : Nat,                   \* RulesCnt
   bypassOn : BOOLEAN,            \* bypassEnabled
   fed : [CategoryId -> Seq(Rule)]]  \* history: the rules it was given

\* CreateMatcher
EmptyMatcher(bypassOn) ==
  [cats |-> [s \in Sections |-> << >>], last |-> <<"ordinary", 0>>, rules |-> 0,
   bypassOn |-> bypassOn, fed |-> [id \in CategoryId |-> << >>]]

NewCategory(id) ==
  [id |-> id, list |-> ListOf[id], matchers |-> << << >> >>,
   blocked |-> [d \in Domain |-> "absent"]]

WithCategory(m, s, i, c) ==
  [m EXCEPT !.cats[s][i] = c, !.last = <<s, i>>]

NewLastCategory(m, id) ==
  LET s == Section(ListOf[id])
  IN  [m EXCEPT !.cats[s] = Append(@, NewCategory(id)),
                !.last = <<s, Len(m.cats[s]) + 1>>]

\* Mutant: the category is not looked for at all.
AddMatcherAlwaysNew(m, id) == NewLastCategory(m, id)

\* addMatcher: a new matcher for category id.  The category is looked for among
\* the ordinary ones only.
AddMatcher(m, id) ==
  LET ordinary == m.cats["ordinary"]
      found == {i \in DOMAIN ordinary : ordinary[i].id = id}
      at == CHOOSE i \in found : \A j \in found : i <= j
  IN  IF found = {}
      THEN NewLastCategory(m, id)
      ELSE WithCategory(m, "ordinary", at,
             [ordinary[at] EXCEPT !.matchers = Append(@, << >>)])

\* Into lastCategory: a plain domain by name, anything else into lastMatcher.
PutRule(c, rule) ==
  IF IsDomainRule(rule)
  THEN [c EXCEPT !.blocked[DomainOf[rule]] = Type(rule)]
  ELSE [c EXCEPT !.matchers[Len(c.matchers)] = Append(@, rule)]

IntoLast(m, id, rule) ==
  LET s == m.last[1] i == m.last[2]
  IN  [WithCategory(m, s, i, PutRule(m.cats[s][i], rule)) EXCEPT
         !.rules = @ + 1, !.fed[id] = Append(@, rule)]

\* Mutant: the first full matcher is missed.
FullLate(m) == m.rules > MaxRulesPerMatcher /\ m.rules % MaxRulesPerMatcher = 0

Full(m) == m.rules > 0 /\ m.rules % MaxRulesPerMatcher = 0

\* AddRule, for a line of a file of category id.
AddRule(m, id, rule) ==
  IF rule \in Broken THEN m
  ELSE IntoLast(IF Full(m) THEN AddMatcher(m, id) ELSE m, id, rule)

-----------------------------------------------------------------------------
(* What the lists say of a request.                                        *)

Accepting(rules, r) == {rules[k] : k \in DOMAIN rules} \intersect Accepts[r]

\* matchDomain tries the shortest suffix first.
DomainTypes(c, r) ==
  LET known == {k \in DOMAIN HostSuffixes[r] : c.blocked[HostSuffixes[r][k]] # "absent"}
  IN  {c.blocked[HostSuffixes[r][k]] : k \in {j \in known : \A i \in known : j <= i}}

\* The type a category's match can have; none if it does not match.  The first
\* matcher with an accepting rule decides, with which of them is up to the library.
MatchTypes(c, r) ==
  LET hits == {k \in DOMAIN c.matchers : Accepting(c.matchers[k], r) # {}}
      first == CHOOSE k \in hits : \A j \in hits : k <= j
  IN  IF hits = {} THEN DomainTypes(c, r)
      ELSE {Type(rule) : rule \in Accepting(c.matchers[first], r)}

\* matchRulesCategories, and what its two callers make of its result.
Matched(cats, r) == {k \in DOMAIN cats : MatchTypes(cats[k], r) # {}}

\* Mutant: the first category decides.
VerdictsOfFirst(cats, r) ==
  LET hits == Matched(cats, r)
      c == cats[CHOOSE k \in hits : \A j \in hits : k <= j]
  IN  IF hits = {} \/ r \in Early THEN {"none"}
      ELSE IF c.list = "Whitelist" THEN {"white"} ELSE {"black"}

Verdicts(cats, r) ==
  LET hits == Matched(cats, r)
      white == \E k \in hits :
                 cats[k].list = "Whitelist" \/ "excluded" \in MatchTypes(cats[k], r)
      black == \A k \in hits :
                 cats[k].list # "Whitelist" /\ "included" \in MatchTypes(cats[k], r)
  IN  IF hits = {} THEN {"none"}
      ELSE (IF white THEN {"white"} ELSE {})
           \union (IF ~black THEN {} ELSE IF r \in Early THEN {"none"} ELSE {"black"})

\* TestUrlBlockedWithMatcherCategories
Answers(m, r) ==
  IF Matched(m.cats["ordinary"], r) # {} THEN Verdicts(m.cats["ordinary"], r)
  ELSE IF m.bypassOn THEN {"none"}
  ELSE Verdicts(m.cats["bypass"], r)

-----------------------------------------------------------------------------
Ref == 1..MaxLists
Saved == [state : {"none", "damaged", "good"}, matcher : Matcher]
LoaderLabels == {"idle", "parsing", "publish", "clear"}
HandlerLabels == {"new", "ordinaryNil", "bypassNil", "ordinaryLen", "bypassLen",
                  "take", "test", "done", "crashed"}

\* lastCategory and lastMatcher, which AddRule dereferences, are not nil.
LastExists(m) ==
  /\ m.last[2] \in DOMAIN m.cats[m.last[1]]
  /\ m.cats[m.last[1]][m.last[2]].matchers # << >>

TypeOK ==
  /\ heap \in Seq(Matcher) /\ Len(heap) <= MaxLists
  /\ active \in Ref \union {Nil} /\ loading \in Ref \union {Nil}
  /\ saved \in Saved
  /\ loader \in [pc : LoaderLabels, file : File \union {Nil}, line : Nat, opened : 0..MaxFiles]
  /\ toggler \in {"same", "other"}
  /\ pc \in [Request -> HandlerLabels]
  /\ took \in [Request -> Ref \union {Nil}]
  /\ verdict \in [Request -> {"none", "white", "black"}]
  /\ wanted \in {"on", "off", "any"}
  /\ inForce \in [Request -> SUBSET ((Ref \union {Nil}) \X {"on", "off", "any"})]
  /\ emptied \in BOOLEAN
  /\ loader.pc = "parsing" => LastExists(heap[loading])

Init ==
  /\ heap = << >> /\ active = Nil /\ loading = Nil
  /\ saved = [state |-> "none", matcher |-> EmptyMatcher(FALSE)]
  /\ loader = [pc |-> "idle", file |-> Nil, line |-> 0, opened |-> 0]
  /\ toggler \in {"same", "other"}
  /\ pc = [r \in Request |-> "new"]
  /\ took = [r \in Request |-> Nil]
  /\ verdict = [r \in Request |-> "none"]
  /\ wanted = "off"
  /\ inForce = [r \in Request |-> {}]
  /\ emptied = FALSE

-----------------------------------------------------------------------------
(* The embedder's calls.                                                   *)

\* Every request that is running sees the lists and the setting of the new state.
Remember ==
  inForce' = [r \in Request |->
    IF pc'[r] = "new" \/ pc[r] \in {"done", "crashed"} THEN inForce[r]
    ELSE inForce[r] \union {<<active', wanted'>>}]

RequestsGoOn == UNCHANGED <<toggler, requests>> /\ Remember

\* AdBlockMatcherInitialize; a matcher that was being filled is dropped.
Initialize ==
  /\ loader.pc = "idle" /\ Len(heap) < MaxLists
  /\ heap' = Append(heap, EmptyMatcher(active # Nil /\ heap[active].bypassOn))
  /\ loading' = Len(heap) + 1
  /\ UNCHANGED <<active, saved, loader, wanted, emptied>> /\ RequestsGoOn

\* Mutant: the file's first matcher is left to AddRule.
ParseRuleFileBare(f) ==
  /\ loader.pc = "idle" /\ loading # Nil /\ loader.opened < MaxFiles
  /\ loader' = [pc |-> "parsing", file |-> f, line |-> 1, opened |-> loader.opened + 1]
  /\ UNCHANGED <<matchers, wanted, emptied>> /\ RequestsGoOn

\* ParseRuleFile up to its loop over the lines.
ParseRuleFile(f) ==
  /\ loader.pc = "idle" /\ loading # Nil /\ loader.opened < MaxFiles
  /\ heap' = [heap EXCEPT ![loading] = AddMatcher(@, IdOf[f])]
  /\ loader' = [pc |-> "parsing", file |-> f, line |-> 1, opened |-> loader.opened + 1]
  /\ UNCHANGED <<active, loading, saved, wanted, emptied>> /\ RequestsGoOn

\* One turn of addRulesFromScanner, or its end.
ParseLine ==
  /\ loader.pc = "parsing"
  /\ LET f == loader.file IN
     \/ /\ loader.line <= Len(Lines[f])
        /\ heap' = [heap EXCEPT ![loading] = AddRule(@, IdOf[f], Lines[f][loader.line])]
        /\ loader' = [loader EXCEPT !.line = @ + 1]
     \/ /\ loader.line > Len(Lines[f])
        /\ loader' = [loader EXCEPT !.pc = "idle"]
        /\ UNCHANGED heap
  /\ UNCHANGED <<active, loading, saved, wanted, emptied>> /\ RequestsGoOn

\* Mutant: what the embedder asked for while the lists were read is forgotten.
CopyBypassSkipped ==
  /\ loader.pc = "idle" /\ loading # Nil
  /\ loader' = [loader EXCEPT !.pc = "publish"]
  /\ UNCHANGED <<matchers, wanted, emptied>> /\ RequestsGoOn

\* AdblockMatcherLoadingFinished: bypassEnabled of the old matcher is copied ...
CopyBypass ==
  /\ loader.pc = "idle" /\ loading # Nil
  /\ heap' = [heap EXCEPT ![loading].bypassOn =
                 IF active # Nil THEN heap[active].bypassOn ELSE @]
  /\ loader' = [loader EXCEPT !.pc = "publish"]
  /\ UNCHANGED <<active, loading, saved, wanted, emptied>> /\ RequestsGoOn

\* ... the new one is published ...
Publish ==
  /\ loader.pc = "publish"
  /\ active' = loading
  /\ loader' = [loader EXCEPT !.pc = "clear"]
  /\ UNCHANGED <<heap, loading, saved, wanted, emptied>> /\ RequestsGoOn

\* Mutant: the published matcher can still be filled.
ClearLoadingForgotten ==
  /\ loader.pc = "clear"
  /\ loader' = [loader EXCEPT !.pc = "idle"]
  /\ UNCHANGED <<matchers, wanted, emptied>> /\ RequestsGoOn

\* ... and is no longer the one being filled.
ClearLoading ==
  /\ loader.pc = "clear"
  /\ loading' = Nil
  /\ loader' = [loader EXCEPT !.pc = "idle"]
  /\ UNCHANGED <<heap, active, saved, wanted, emptied>> /\ RequestsGoOn

\* SaveToFile: the exported fields only.  Encode fails or it works; a Create that
\* fails changes nothing.
Save ==
  /\ loader.pc = "idle" /\ active # Nil
  /\ \/ saved' = [state |-> "damaged", matcher |-> EmptyMatcher(FALSE)]
     \/ saved' = [state |-> "good", matcher |->
                    [heap[active] EXCEPT !.bypassOn = FALSE, !.last = <<"ordinary", 0>>]]
  /\ UNCHANGED <<heap, active, loading, loader, wanted, emptied>> /\ RequestsGoOn

\* LoadMatcherFromFile: nil if the file cannot be read, an empty matcher if it
\* cannot be decoded.  The result is published at once.
Load ==
  /\ loader.pc = "idle"
  /\ \/ /\ saved.state # "good"
        /\ active' = Nil /\ emptied' = (emptied \/ active # Nil)
        /\ UNCHANGED heap
     \/ /\ saved.state # "none" /\ Len(heap) < MaxLists
        /\ heap' = Append(heap, saved.matcher)
        /\ active' = Len(heap) + 1
        /\ UNCHANGED emptied
  /\ wanted' = "any"
  /\ UNCHANGED <<loading, saved, loader>> /\ RequestsGoOn

\* AdBlockMatcherEnableBypass, AdBlockMatcherDisableBypass; the embedder may have
\* a thread of its own for them.
SetBypass(setting) ==
  /\ active # Nil
  /\ toggler = "same" => loader.pc = "idle"
  /\ heap' = [heap EXCEPT ![active].bypassOn = (setting = "on")]
  /\ wanted' = setting
  /\ UNCHANGED <<active, loading, saved, loader, emptied>> /\ RequestsGoOn

Embedder ==
  \/ Initialize
  \/ \E f \in File : ParseRuleFile(f)
  \/ ParseLine
  \/ CopyBypass \/ Publish \/ ClearLoading
  \/ Save \/ Load
  \/ \E setting \in {"on", "off"} : SetBypass(setting)

-----------------------------------------------------------------------------
(* A handler's question.  Every read of the variable adBlockMatcher is a   *)
(* step, since the embedder may assign to it between any two.  (A compiler *)
(* may merge the reads of AreListsLoaded; then nothing comes in between.)  *)

ListsStay ==
  UNCHANGED <<matchers, loader, toggler, wanted, emptied>> /\ Remember

Goto(r, label) ==
  /\ pc' = [pc EXCEPT ![r] = label]
  /\ UNCHANGED <<took, verdict>> /\ ListsStay

Decide(r, v) ==
  /\ pc' = [pc EXCEPT ![r] = "done"]
  /\ verdict' = [verdict EXCEPT ![r] = v]
  /\ UNCHANGED took /\ ListsStay

Asked == {r \in Request : pc[r] # "new"}

\* Mutant: the check is left out.
AskUnchecked(r) ==
  /\ pc[r] = "new" /\ Cardinality(Asked) < MaxAsked
  /\ Goto(r, IF r \in Early THEN "take" ELSE "ordinaryNil")

\* The nil check of AreListsLoaded and of IsDomainWhitelisted.
Ask(r) ==
  /\ pc[r] = "new" /\ Cardinality(Asked) < MaxAsked
  /\ IF active = Nil THEN Decide(r, "none")
     ELSE IF r \in Localhost THEN Decide(r, "white")
     ELSE Goto(r, IF r \in Early THEN "take" ELSE "ordinaryNil")

\* One further read in AreListsLoaded, of a list of the matcher found.
Look(r, at, s, ifEmpty, otherwise) ==
  /\ pc[r] = at
  /\ IF active = Nil THEN Goto(r, "crashed")
     ELSE IF heap[active].cats[s] # << >> THEN Goto(r, otherwise)
     ELSE IF ifEmpty = "done" THEN Decide(r, "none")
     ELSE Goto(r, ifEmpty)

AreListsLoaded(r) ==
  \/ Look(r, "ordinaryNil", "ordinary", "bypassNil", "ordinaryLen")
  \/ Look(r, "bypassNil", "bypass", "done", "ordinaryLen")
  \/ Look(r, "ordinaryLen", "ordinary", "bypassLen", "take")
  \/ Look(r, "bypassLen", "bypass", "done", "take")

\* The receiver of TestUrlBlockedWithMatcherCategories is read ...
Take(r) ==
  /\ pc[r] = "take"
  /\ IF active = Nil THEN Goto(r, "crashed")
     ELSE /\ took' = [took EXCEPT ![r] = active]
          /\ pc' = [pc EXCEPT ![r] = "test"]
          /\ UNCHANGED verdict /\ ListsStay

\* ... and used.  Its lists do not change any more, so that only the moment at
\* which bypassEnabled is read counts.
Test(r) ==
  /\ pc[r] = "test"
  /\ \E v \in Answers(heap[took[r]], r) : Decide(r, v)

Handler(r) == Ask(r) \/ AreListsLoaded(r) \/ Take(r) \/ Test(r)

-----------------------------------------------------------------------------
Next == Embedder \/ \E r \in Request : Handler(r)

Spec == Init /\ [][Next]_vars

-----------------------------------------------------------------------------
(* Properties.                                                             *)

\* addMatcher starts a new RuleMatcher whenever RulesCnt is a multiple of the
\* limit, and at every file, but plain domain rules count as well and a file may
\* continue in a category begun earlier: still no RuleMatcher exceeds the limit.
MatchersBounded ==
  \A o \in DOMAIN heap : \A s \in Sections : \A i \in DOMAIN heap[o].cats[s] :
    \A k \in DOMAIN heap[o].cats[s][i].matchers :
      Len(heap[o].cats[s][i].matchers[k]) <= MaxRulesPerMatcher

\* The patterns among rules, and those in the matchers of the categories id of a
\* list, in order.
PatternsOf(rules) ==
  FlattenSeq([k \in DOMAIN rules |-> IF IsDomainRule(rules[k]) THEN << >> ELSE <<rules[k]>>])
PatternsIn(cats, id) ==
  FlattenSeq([i \in DOMAIN cats |->
    IF cats[i].id = id THEN FlattenSeq(cats[i].matchers) ELSE << >>])

\* What one category of m ought to hold after the rules it was fed: every pattern
\* once and in order, over however many matchers and duplicate categories, and
\* for every domain the type its last rule gave it.
Imported(m, id) ==
  LET s == Section(ListOf[id])
      own == {i \in DOMAIN m.cats[s] : m.cats[s][i].id = id}
      about(d) == {k \in DOMAIN m.fed[id] : DomainOf[m.fed[id][k]] = d}
      knowing(d) == {i \in own : m.cats[s][i].blocked[d] # "absent"}
  IN  /\ PatternsIn(m.cats[s], id) = PatternsOf(m.fed[id])
      /\ \A d \in Domain :
           IF about(d) = {} THEN knowing(d) = {}
           ELSE \E i \in knowing(d), k \in about(d) :
                  /\ \A j \in knowing(d) : j <= i
                  /\ \A j \in about(d) : j <= k
                  /\ m.cats[s][i].blocked[d] = Type(m.fed[id][k])
      /\ s = "ordinary" => \A i, j \in own : i = j

\* ParseRuleFile and AddRule put every rule where its own category's lookups find
\* it, wherever the matcher limit falls in a file and in whatever order the files
\* of several categories come; an ordinary category is never split in two.
ImportFaithful ==
  \A o \in DOMAIN heap : \A id \in CategoryId : Imported(heap[o], id)

\* A matcher that requests may be using is read without a lock, so its categories,
\* which are Go maps and slices, must not be written any more: by no ParseRuleFile
\* that follows, and by no call for the next lists.
PublishedIsFrozen ==
  [][\A o \in ({active} \union {took[r] : r \in Request}) \ {Nil} :
       heap'[o].cats = heap[o].cats]_vars

\* The bypass setting the embedder asked for last holds in the matcher requests
\* consult, also when the lists were replaced since, or while it was asked for.
\* (Load starts without it, and a second thread may lose against LoadingFinished.)
BypassKept ==
  toggler = "same" /\ active # Nil /\ wanted # "any"
    => (heap[active].bypassOn <=> wanted = "on")

\* Handlers panic on a nil adBlockMatcher only if a Load that failed took away the
\* lists between their reads of the variable; replacing lists never does it.
OnlyFailedLoadCrashes == (\E r \in Request : pc[r] = "crashed") => emptied

\* The reference: the rules themselves, with no matchers, domains or order.
Says(rule, r) ==
  IF IsDomainRule(rule)
  THEN \E k \in DOMAIN HostSuffixes[r] : HostSuffixes[r][k] = DomainOf[rule]
  ELSE rule \in Accepts[r]

Hits(m, s, r) ==
  {h \in CategoryId \X Rule :
     /\ Section(ListOf[h[1]]) = s
     /\ \E k \in DOMAIN m.fed[h[1]] : m.fed[h[1]][k] = h[2]
     /\ Says(h[2], r)}

\* A page is let through only for a white list or an exception, blocked only for a
\* rule that blocks and if no white list speaks for it.
Warranted(hits, r, v) ==
  \/ /\ v = "white"
     /\ \E h \in hits : ListOf[h[1]] = "Whitelist" \/ h[2] \in Exception
  \/ /\ v = "black" /\ r \notin Early
     /\ \A h \in hits : ListOf[h[1]] # "Whitelist"
     /\ \E h \in hits : h[2] \notin Exception
  \/ /\ v = "none"
     /\ IF r \in Early
        THEN \A h \in hits : ListOf[h[1]] # "Whitelist"
        ELSE hits = {}

Correct(m, bypassOn, r, v) ==
  IF Hits(m, "ordinary", r) # {} THEN Warranted(Hits(m, "ordinary", r), r, v)
  ELSE IF bypassOn THEN v = "none"
  ELSE Warranted(Hits(m, "bypass", r), r, v)

Settings(w) ==
  IF w = "any" \/ toggler = "other" THEN BOOLEAN ELSE {w = "on"}

\* Lists and bypass may change at every step of a handler; still its decision is
\* the right one for the lists and the setting in force at one moment while it
\* ran, and it goes without lists only if at some moment one kind was missing.
DecisionHasItsMoment ==
  \A r \in Request : pc[r] = "done" => \E now \in inForce[r] :
    IF took[r] # Nil
    THEN now[1] = took[r]
         /\ \E b \in Settings(now[2]) : Correct(heap[took[r]], b, r, verdict[r])
    ELSE \/ verdict[r] = "white" /\ r \in Localhost /\ now[1] # Nil
         \/ verdict[r] = "none"
            /\ (now[1] = Nil \/ \E s \in Sections : heap[now[1]].cats[s] = << >>)
=============================================================================
