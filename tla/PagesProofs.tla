----------------------------- MODULE PagesProofs -----------------------------
(* Proofs about Pages, for any characters and any limits of events. *)
EXTENDS Pages, WellFoundedInduction, TLAPS

----------------------------------------------------------------------------
(* What the goroutines may be, may do and may have read *)

Versions == (0..MaxEvents) \cup {None}
Views(p) ==
    [rows : IF p \in DOMAIN CrossPages THEN [Characters -> Versions] ELSE Copies, copy : Copies]
Refreshes == ({"page"} \X Relevant) \cup {<<"reload", "reload">>}
Cross == <<"cross", None>>
Opener == <<"open", None>>
Names ==
    ({"section"} \X {c \in Characters : source \in Sections})
    \cup ({"mail"} \X {c \in Characters : source = "read mail"})
    \cup ({"general"} \X GeneralSections)
    \cup ({"go", "page", "mail page"} \X Relevant) \cup {User, Opener}
Steps ==
    ({"update", "ask", "ask again", "mark", "load", "deleted", "added", "open"} \X Characters)
    \cup ({"update general"} \X GeneralSections) \cup Refreshes \cup {Cross}
Readings == {None} \cup Copies \cup UNION {Views(p) : p \in Relevant}
Routines == [todo : Seq(Steps), read : Readings, late : BOOLEAN]

\* The steps that goroutine g may have to do later, and now.
MayDoLater(g, s) ==
    \/ g[1] \in {"section", "general", "mail"} /\ s \in Refreshes
    \/ g[1] = "section" /\ s = <<"ask", g[2]>>
    \/ g[1] \in {"mail", "user"} /\ s = Cross
MayDo(g, s) ==
    \/ MayDoLater(g, s)
    \/ g[1] = "section" /\ s \in {<<"update", g[2]>>, <<"ask again", g[2]>>}
    \/ g[1] = "general" /\ s = <<"update general", g[2]>>
    \/ g[1] = "mail" /\ s = <<"mark", g[2]>>
    \/ g[1] = "user" /\ s \in {"load", "deleted", "added"} \X Characters
    \/ g[1] = "open" /\ s \in {"open"} \X Characters
    \/ g[1] \in {"go", "page", "mail page"} /\ s = <<"page", g[2]>>
Plans(g, todo) ==
    /\ todo \in Seq(Steps) /\ todo # <<>> /\ MayDo(g, todo[1])
    /\ \A i \in 2..Len(todo) : MayDoLater(g, todo[i])
MayHaveRead(s, r) ==
    \/ r = None
    \/ s[1] = "page" /\ r \in Views(s[2])
    \/ s[1] = "reload" /\ r \in Copies
    \/ s[1] \in {"load", "open"} /\ r \in Copies /\ r.id = s[2]
At(g) == work[g].todo[1]
WorkOK ==
    /\ work \in [DOMAIN work -> Routines]
    /\ \A g \in DOMAIN work : /\ g \in Names
                              /\ Plans(g, work[g].todo)
                              /\ MayHaveRead(At(g), work[g].read)

ValuesOK ==
    /\ source \in Sources
    /\ data \in [Characters -> Versions]
    /\ current \in Copies /\ opened \in Copies
    /\ \A p \in Relevant : shown[p] \in Views(p)
    /\ events \in 0..MaxEvents
    /\ chosen \in Characters \cup {None}
    /\ excuse \subseteq Relevant \cup {"current", "list"}
TypeInv == ValuesOK /\ WorkOK
\* What the pages were told of matters to no step.
ToldOK == told \in [Characters -> Versions]

\* What the proofs say of types is at least what the runs check.
LEMMA TypeInvIsType == TypeInv /\ ToldOK => TypeOK
  BY DEF TypeInv, ToldOK, TypeOK, ValuesOK, WorkOK, Plans, Views, Versions

\* The limit of every source is a natural number.
LEMMA Bounds == source \in Sources => MaxEvents \in Nat
  BY LimitAssumption DEF MaxEvents

----------------------------------------------------------------------------
(* The operators on goroutines *)

\* Goroutine h of w goes on in v as it was, but perhaps late.
GoesOn(w, v, h) ==
    /\ h \in DOMAIN w /\ h \in DOMAIN v
    /\ v[h].todo = w[h].todo /\ v[h].read = w[h].read
    /\ w[h].late => v[h].late

\* A goroutine that begins a list has read nothing and is not late.
LEMMA DoingFacts ==
    ASSUME NEW todo \in Seq(Steps)
    PROVE  /\ Doing(todo) \in Routines
           /\ Doing(todo).todo = todo /\ Doing(todo).read = None /\ Doing(todo).late = FALSE
  BY DEF Doing, Routines, Readings

\* Only goroutine g is changed by Continue, and it ends when nothing is left.
LEMMA ContinueFacts ==
    ASSUME NEW g \in DOMAIN work, NEW todo
    PROVE  /\ DOMAIN Continue(g, todo) =
                (DOMAIN work \ {g}) \cup (IF todo = <<>> THEN {} ELSE {g})
           /\ \A h \in DOMAIN work \ {g} : Continue(g, todo)[h] = work[h]
           /\ todo # <<>> => Continue(g, todo)[g] = Doing(todo)
  BY DEF Continue

\* Overtake changes nothing but that those that overlap are late.
LEMMA OvertakeFacts ==
    ASSUME NEW w, w \in [DOMAIN w -> Routines], NEW op, NEW X
    PROVE  /\ Overtake(w, op, X) \in [DOMAIN w -> Routines]
           /\ \A h \in DOMAIN w : GoesOn(w, Overtake(w, op, X), h)
           /\ \A h \in DOMAIN w :
                w[h].todo[1][1] = op /\ w[h].todo[1][2] \in X /\ w[h].read # None
                  => Overtake(w, op, X)[h].late
<1>1. ASSUME NEW t \in Routines
      PROVE  /\ [t EXCEPT !.late = TRUE] \in Routines
             /\ [t EXCEPT !.late = TRUE].todo = t.todo
             /\ [t EXCEPT !.late = TRUE].read = t.read
             /\ [t EXCEPT !.late = TRUE].late
  BY DEF Routines
<1>2. ASSUME NEW h \in DOMAIN w
      PROVE  /\ w[h] \in Routines
             /\ Overtake(w, op, X)[h] =
                  IF w[h].todo[1][1] = op /\ w[h].todo[1][2] \in X /\ w[h].read # None
                  THEN [w[h] EXCEPT !.late = TRUE] ELSE w[h]
  BY <1>2 DEF Overtake
<1>3. DOMAIN Overtake(w, op, X) = DOMAIN w
  BY DEF Overtake
<1>4. ASSUME NEW h \in DOMAIN w
      PROVE  /\ Overtake(w, op, X)[h] \in Routines
             /\ GoesOn(w, Overtake(w, op, X), h)
             /\ w[h].todo[1][1] = op /\ w[h].todo[1][2] \in X /\ w[h].read # None
                  => Overtake(w, op, X)[h].late
  <2>1. CASE w[h].todo[1][1] = op /\ w[h].todo[1][2] \in X /\ w[h].read # None
    BY <1>1, <1>2, <1>3, <1>4, <2>1 DEF GoesOn
  <2>2. CASE ~(w[h].todo[1][1] = op /\ w[h].todo[1][2] \in X /\ w[h].read # None)
    BY <1>2, <1>3, <1>4, <2>2 DEF GoesOn
  <2>. QED
    BY <2>1, <2>2
<1>5. Overtake(w, op, X) = [h \in DOMAIN w |-> Overtake(w, op, X)[h]]
  BY DEF Overtake
<1>. QED
  BY <1>4, <1>5

\* Beside is the union of two functions in which the second one wins.
LEMMA BesideFacts ==
    ASSUME NEW w, NEW new
    PROVE  /\ DOMAIN Beside(w, new) = DOMAIN w \cup DOMAIN new
           /\ \A h \in DOMAIN new : Beside(w, new)[h] = new[h]
           /\ \A h \in DOMAIN w \ DOMAIN new : Beside(w, new)[h] = w[h]
           /\ Beside(w, new) = [h \in DOMAIN w \cup DOMAIN new |-> Beside(w, new)[h]]
  BY DEF Beside

\* Refreshing starts one goroutine for each page that can be seen.
LEMMA RefreshingFacts ==
    ASSUME NEW name, NEW P
    PROVE  /\ DOMAIN Refreshing(name, P) = {name} \X (P \cap Relevant)
           /\ \A g \in {name} \X (P \cap Relevant) :
                Refreshing(name, P)[g] = Doing(<<<<"page", g[2]>>>>)
           /\ \A g \in {name} \X (P \cap Relevant) : g = <<name, g[2]>> /\ g[2] \in Relevant
           /\ \A p \in Relevant : <<<<"page", p>>>> \in Seq(Steps)
<1>1. ASSUME NEW g \in {name} \X (P \cap Relevant)
      PROVE  g = <<name, g[2]>> /\ g[2] \in Relevant
  <2>1. PICK p \in P \cap Relevant : g = <<name, p>>
    BY <1>1
  <2>. QED
    BY <2>1
<1>2. ASSUME NEW p \in Relevant PROVE <<<<"page", p>>>> \in Seq(Steps)
  <2>1. <<"page", p>> \in Steps
    BY DEF Steps, Refreshes
  <2>. QED
    BY <2>1
<1>. QED
  BY <1>1, <1>2 DEF Refreshing

----------------------------------------------------------------------------
(* Type correctness *)

\* Nothing happens to the goroutines but that those of N end, start or go on with
\* their next step.  Only what counts as an event makes a change due.
Dues == {"update", "mark", "update general"}
Calm(todo) == events' = events => todo[1][1] \notin Dues
MovesTo(v, N) ==
    /\ v \in [DOMAIN v -> Routines]
    /\ \A h \in DOMAIN v \cap N :
         h \in Names /\ Plans(h, v[h].todo) /\ v[h].read = None /\ Calm(v[h].todo)
    /\ \A h \in (DOMAIN v \cup DOMAIN work) \ N : GoesOn(work, v, h)
Moves(N) == MovesTo(work', N)
\* ... but that goroutine g reads.
Looks(g) ==
    /\ work' \in [DOMAIN work' -> Routines]
    /\ DOMAIN work' = DOMAIN work /\ g \in DOMAIN work
    /\ work'[g].todo = work[g].todo /\ (work[g].late => work'[g].late)
    /\ MayHaveRead(At(g), work'[g].read)
    /\ \A h \in DOMAIN work \ {g} : GoesOn(work, work', h)

Frame == source' = source /\ DOMAIN shown' = DOMAIN shown

\* The sets that depend on the source and on the pages alone stay the same.
LEMMA SameSets ==
    ASSUME Frame
    PROVE  /\ MaxEvents' = MaxEvents /\ Relevant' = Relevant /\ RelevantLists' = RelevantLists
           /\ Versions' = Versions /\ Copies' = Copies /\ Names' = Names /\ Routines' = Routines
           /\ NoCharacter' = NoCharacter /\ Refreshes' = Refreshes
           /\ \A p : Views(p)' = Views(p)
           /\ \A g, todo : Plans(g, todo)' = Plans(g, todo)
           /\ \A s, r : MayHaveRead(s, r)' = MayHaveRead(s, r)
<1>1. MaxEvents' = MaxEvents /\ Relevant' = Relevant /\ NoCharacter' = NoCharacter
  BY DEF Frame, MaxEvents, Relevant, NoCharacter
<1>2. Versions' = Versions /\ Copies' = Copies /\ Refreshes' = Refreshes
  BY <1>1 DEF Versions, Copies, Refreshes
<1>3. Names' = Names /\ RelevantLists' = RelevantLists
  BY <1>1 DEF Frame, Names, RelevantLists, User, Opener
<1>4. \A p : Views(p)' = Views(p)
  BY <1>2 DEF Views
<1>5. Steps' = Steps
  BY <1>2 DEF Steps, Cross
<1>6. Routines' = Routines
  <2>1. Readings' = Readings
    BY <1>1, <1>2, <1>4 DEF Readings
  <2>. QED
    BY <1>5, <2>1 DEF Routines
<1>7. \A g, todo : Plans(g, todo)' = Plans(g, todo)
  BY <1>2, <1>5 DEF Plans, MayDo, MayDoLater, Cross
<1>8. \A s, r : MayHaveRead(s, r)' = MayHaveRead(s, r)
  BY <1>2, <1>4 DEF MayHaveRead
<1>. QED
  BY <1>1, <1>2, <1>3, <1>4, <1>6, <1>7, <1>8

\* When goroutines start, end or go on, what each may do and have read is kept.
LEMMA MovesWork ==
    ASSUME WorkOK, Frame, NEW N, Moves(N)
    PROVE  WorkOK'
<1>1. work' \in [DOMAIN work' -> Routines']
  BY SameSets DEF Moves, MovesTo
<1>2. ASSUME NEW h \in DOMAIN work'
      PROVE  h \in Names /\ Plans(h, work'[h].todo) /\ MayHaveRead(work'[h].todo[1], work'[h].read)
  <2>1. CASE h \in N
    BY <1>2, <2>1 DEF Moves, MovesTo, MayHaveRead
  <2>2. CASE h \notin N
    BY <1>2, <2>2 DEF Moves, MovesTo, GoesOn, WorkOK, At
  <2>. QED
    BY <2>1, <2>2
<1>. QED
  BY <1>1, <1>2, SameSets DEF WorkOK, At

\* ... and when one reads.
LEMMA LooksWork ==
    ASSUME WorkOK, Frame, NEW g, Looks(g)
    PROVE  WorkOK'
<1>1. work' \in [DOMAIN work' -> Routines']
  BY SameSets DEF Looks
<1>2. ASSUME NEW h \in DOMAIN work'
      PROVE  h \in Names /\ Plans(h, work'[h].todo) /\ MayHaveRead(work'[h].todo[1], work'[h].read)
  <2>1. CASE h = g
    BY <1>2, <2>1 DEF Looks, WorkOK, At
  <2>2. CASE h # g
    BY <1>2, <2>2 DEF Looks, GoesOn, WorkOK, At
  <2>. QED
    BY <2>1, <2>2
<1>. QED
  BY <1>1, <1>2, SameSets DEF WorkOK, At

----------------------------------------------------------------------------
(* What is planned *)

\* The members of a set of positions can be put in order.
InOrder(K, f) ==
    /\ K = {f[k] : k \in DOMAIN f}
    /\ \A j, k \in DOMAIN f : j < k => f[j] < f[k]
HasOrder(n) == \A K \in SUBSET (1..n) : \E m \in 0..n : \E f \in [1..m -> K] : InOrder(K, f)

\* The empty set of numbers has an order,
LEMMA NoneHasOrder == HasOrder(0)
<1>1. ASSUME NEW K \in SUBSET (1..0)
      PROVE  \E m \in 0..0 : \E f \in [1..m -> K] : InOrder(K, f)
  <2>. DEFINE f == [k \in 1..0 |-> k]
  <2>1. K = {} /\ 1..0 = {}
    BY <1>1
  <2>2. f \in [1..0 -> K] /\ InOrder(K, f)
    BY <2>1 DEF InOrder
  <2>3. 0 \in 0..0
    OBVIOUS
  <2>. HIDE DEF f
  <2>. QED
    BY <2>2, <2>3
<1>. QED
  BY <1>1 DEF HasOrder

\* the set with one more greatest number has one if the rest has,
LEMMA OneMoreHasOrder ==
    ASSUME NEW n \in Nat, HasOrder(n)
    PROVE  HasOrder(n + 1)
<1>1. ASSUME NEW K \in SUBSET (1..(n + 1))
      PROVE  \E m \in 0..(n + 1) : \E f \in [1..m -> K] : InOrder(K, f)
  <2>1. PICK m \in 0..n : \E f \in [1..m -> K \ {n + 1}] : InOrder(K \ {n + 1}, f)
    <3>1. K \ {n + 1} \in SUBSET (1..n)
      BY <1>1
    <3>. QED
      BY <3>1 DEF HasOrder
  <2>2. PICK f \in [1..m -> K \ {n + 1}] : InOrder(K \ {n + 1}, f)
    BY <2>1
  <2>3. \A k \in 1..m : f[k] \in K /\ f[k] \in Int /\ f[k] < n + 1
    <3>1. \A x \in K \ {n + 1} : x \in Int /\ x < n + 1
      BY <1>1
    <3>. QED
      BY <3>1
  <2>4. CASE n + 1 \notin K
    <3>1. K \ {n + 1} = K /\ m \in 0..(n + 1)
      BY <2>4
    <3>2. f \in [1..m -> K] /\ InOrder(K, f)
      BY <2>2, <3>1
    <3>. QED
      BY <3>1, <3>2
  <2>5. CASE n + 1 \in K
    <3>. DEFINE e == [k \in 1..(m + 1) |-> IF k = m + 1 THEN n + 1 ELSE f[k]]
    <3>1. /\ DOMAIN e = 1..(m + 1) /\ e[m + 1] = n + 1
          /\ \A k \in 1..m : e[k] = f[k] /\ k \in 1..(m + 1)
          /\ \A k \in 1..(m + 1) : k = m + 1 \/ k \in 1..m
          /\ m + 1 \in 1..(m + 1) /\ m + 1 \in 0..(n + 1)
      OBVIOUS
    <3>2. e \in [1..(m + 1) -> K]
      <4>1. \A k \in 1..(m + 1) : e[k] \in K
        BY <2>3, <2>5, <3>1
      <4>. QED
        BY <4>1
    <3>. HIDE DEF e
    <3>3. K = {e[k] : k \in DOMAIN e}
      <4>1. ASSUME NEW x \in K PROVE \E k \in DOMAIN e : x = e[k]
        <5>1. CASE x = n + 1
          BY <3>1, <5>1
        <5>2. CASE x # n + 1
          <6>1. PICK k \in 1..m : x = f[k]
            BY <2>2, <4>1, <5>2 DEF InOrder
          <6>. QED
            BY <3>1, <6>1
        <5>. QED
          BY <5>1, <5>2
      <4>. QED
        BY <3>1, <3>2, <4>1
    <3>4. ASSUME NEW j \in 1..(m + 1), NEW k \in 1..(m + 1), j < k PROVE e[j] < e[k]
      <4>1. j \in 1..m
        BY <3>4
      <4>2. CASE k = m + 1
        BY <2>3, <3>1, <4>1, <4>2
      <4>3. CASE k \in 1..m
        BY <2>2, <3>1, <3>4, <4>1, <4>3 DEF InOrder
      <4>. QED
        BY <3>1, <4>2, <4>3
    <3>. QED
      BY <3>1, <3>2, <3>3, <3>4 DEF InOrder
  <2>. QED
    BY <2>4, <2>5
<1>. QED
  BY <1>1 DEF HasOrder

\* and so has every set of numbers up to n: Pages always finds one.
LEMMA OrderExists == \A n \in Nat : HasOrder(n)
<1>. DEFINE T == {n \in Nat : ~HasOrder(n)}
<1>1. SUFFICES ASSUME T # {} PROVE FALSE
  OBVIOUS
<1>2. PICK n \in T : \A k \in T : ~(<<k, n>> \in OpToRel(<, Nat))
  <2>1. T \subseteq Nat
    OBVIOUS
  <2>. HIDE DEF T
  <2>. QED
    BY <1>1, <2>1, NatLessThanWellFounded, WFMin, Zenon
<1>3. n \in Nat /\ ~HasOrder(n)
  OBVIOUS
<1>4. n # 0
  BY <1>3, NoneHasOrder
<1>5. n - 1 \in Nat /\ n - 1 < n /\ (n - 1) + 1 = n
  BY <1>3, <1>4
<1>6. HasOrder(n - 1)
  <2>1. <<n - 1, n>> \in OpToRel(<, Nat)
    BY <1>3, <1>5 DEF OpToRel
  <2>. QED
    BY <1>2, <1>5, <2>1
<1>7. HasOrder((n - 1) + 1)
  BY <1>5, <1>6, OneMoreHasOrder
<1>. QED
  BY <1>3, <1>5, <1>7

\* What Pages makes of any list is a list of refreshes.
LEMMA PagesPlan ==
    ASSUME NEW S, NEW seq \in Seq(S)
    PROVE  Pages(seq) \in Seq(Refreshes)
<1>. DEFINE kept == {i \in DOMAIN seq : seq[i] \in Relevant \cup {"reload"}}
            order == CHOOSE f \in UNION {[1..n -> kept] : n \in 0..Len(seq)} :
                       /\ kept = {f[k] : k \in DOMAIN f}
                       /\ \A j, k \in DOMAIN f : j < k => f[j] < f[k]
            Named(p) == <<IF p = "reload" THEN "reload" ELSE "page", p>>
<1>1. Pages(seq) = [k \in DOMAIN order |-> Named(seq[order[k]])]
  BY DEF Pages
<1>2. \A p \in Relevant \cup {"reload"} : Named(p) \in Refreshes
  BY DEF Refreshes
<1>3. PICK m \in 0..Len(seq) : \E f \in [1..m -> kept] : InOrder(kept, f)
  <2>1. Len(seq) \in Nat /\ kept \in SUBSET (1..Len(seq))
    OBVIOUS
  <2>2. HasOrder(Len(seq))
    BY <2>1, OrderExists
  <2>. QED
    BY <2>1, <2>2 DEF HasOrder
<1>4. \E f \in UNION {[1..n -> kept] : n \in 0..Len(seq)} :
         /\ kept = {f[k] : k \in DOMAIN f}
         /\ \A j, k \in DOMAIN f : j < k => f[j] < f[k]
  <2>1. PICK f \in [1..m -> kept] : InOrder(kept, f)
    BY <1>3
  <2>2. f \in UNION {[1..n -> kept] : n \in 0..Len(seq)}
    BY <1>3, <2>1
  <2>. HIDE DEF kept
  <2>. QED
    BY <2>1, <2>2 DEF InOrder
<1>5. order \in UNION {[1..n -> kept] : n \in 0..Len(seq)}
  <2>. HIDE DEF kept
  <2>. QED
    BY <1>4
<1>6. PICK n \in 0..Len(seq) : order \in [1..n -> kept]
  <2>. HIDE DEF order, kept
  <2>. QED
    BY <1>5
<1>7. \A i \in kept : seq[i] \in Relevant \cup {"reload"}
  OBVIOUS
<1>. HIDE DEF order, kept, Named
<1>8. n \in Nat
  BY <1>6
<1>9. [k \in DOMAIN order |-> Named(seq[order[k]])] \in [1..n -> Refreshes]
  BY <1>2, <1>6, <1>7
<1>. QED
  BY <1>1, <1>8, <1>9

\* The lists of refreshes are lists.
Labels == AllPages \cup {"reload"}
\* The names in the refresh lists of the sections are pages or the reload.
LEMMA SomeLabels ==
    /\ {"reload", "overviewAssets", "overviewCharacters", "overviewClones", "overviewColonies",
        "overviewLocations", "overviewTraining", "overviewWealth"} \subseteq Labels
    /\ {"characterAssets", "characterSheet", "characterAttributes", "characterContracts",
        "characterImplants", "characterJumpClones", "characterPlanets", "characterMail",
        "characterCommunications", "characterSkillCatalogue", "characterShips",
        "characterSkillQueue", "characterWalletJournal", "characterWalletTransaction"}
       \subseteq Labels
  BY DEF Labels, AllPages, CharacterPages, CrossPages

\* ... in both lists of each section,
LEMMA RefreshLists ==
    ASSUME NEW s \in Sections
    PROVE  Refresh(s).all \in Seq(Labels) /\ Refresh(s).shown \in Seq(Labels)
<1>1. CASE s = "assets"
  <2>1. /\ Refresh(s).all = <<"overviewAssets", "overviewWealth">>
        /\ Refresh(s).shown = <<"reload", "characterAssets", "characterSheet">>
    BY <1>1 DEF Refresh
  <2>. QED
    BY <2>1, SomeLabels
<1>2. CASE s = "attributes"
  <2>1. /\ Refresh(s).all = <<>>
        /\ Refresh(s).shown = <<"characterAttributes">>
    BY <1>2 DEF Refresh
  <2>. QED
    BY <2>1, SomeLabels
<1>3. CASE s = "contracts"
  <2>1. /\ Refresh(s).all = <<>>
        /\ Refresh(s).shown = <<"characterContracts">>
    BY <1>3 DEF Refresh
  <2>. QED
    BY <2>1, SomeLabels
<1>4. CASE s = "implants"
  <2>1. /\ Refresh(s).all = <<>>
        /\ Refresh(s).shown = <<"characterImplants">>
    BY <1>4 DEF Refresh
  <2>. QED
    BY <2>1, SomeLabels
<1>5. CASE s = "jump clones"
  <2>1. /\ Refresh(s).all = <<"overviewCharacters", "overviewClones">>
        /\ Refresh(s).shown = <<"reload", "characterJumpClones">>
    BY <1>5 DEF Refresh
  <2>. QED
    BY <2>1, SomeLabels
<1>6. CASE s \in {"location", "online", "ship"}
  <2>1. /\ Refresh(s).all = <<"overviewLocations">>
        /\ Refresh(s).shown = <<"reload">>
    BY <1>6 DEF Refresh
  <2>. QED
    BY <2>1, SomeLabels
<1>7. CASE s = "planets"
  <2>1. /\ Refresh(s).all = <<"overviewColonies">>
        /\ Refresh(s).shown = <<"characterPlanets">>
    BY <1>7 DEF Refresh
  <2>. QED
    BY <2>1, SomeLabels
<1>8. CASE s \in {"mail labels", "mail lists"}
  <2>1. /\ Refresh(s).all = <<"overviewCharacters">>
        /\ Refresh(s).shown = <<"characterMail">>
    BY <1>8 DEF Refresh
  <2>. QED
    BY <2>1, SomeLabels
<1>9. CASE s = "mails"
  <2>1. /\ Refresh(s).all = <<>>
        /\ Refresh(s).shown = <<"characterMail">>
    BY <1>9 DEF Refresh
  <2>. QED
    BY <2>1, SomeLabels
<1>10. CASE s = "notifications"
  <2>1. /\ Refresh(s).all = <<>>
        /\ Refresh(s).shown = <<"characterCommunications">>
    BY <1>10 DEF Refresh
  <2>. QED
    BY <2>1, SomeLabels
<1>11. CASE s = "skills"
  <2>1. /\ Refresh(s).all = <<"overviewTraining">>
        /\ Refresh(s).shown = <<"reload", "characterSkillCatalogue", "characterShips",
                                "characterPlanets">>
    BY <1>11 DEF Refresh
  <2>. QED
    BY <2>1, SomeLabels
<1>12. CASE s = "skillqueue"
  <2>1. /\ Refresh(s).all = <<"overviewTraining">>
        /\ Refresh(s).shown = <<"characterSkillQueue">>
    BY <1>12 DEF Refresh
  <2>. QED
    BY <2>1, SomeLabels
<1>13. CASE s = "wallet balance"
  <2>1. /\ Refresh(s).all = <<"overviewCharacters", "overviewWealth">>
        /\ Refresh(s).shown = <<"reload", "characterAssets">>
    BY <1>13 DEF Refresh
  <2>. QED
    BY <2>1, SomeLabels
<1>14. CASE s = "wallet journal"
  <2>1. /\ Refresh(s).all = <<>>
        /\ Refresh(s).shown = <<"characterWalletJournal">>
    BY <1>14 DEF Refresh
  <2>. QED
    BY <2>1, SomeLabels
<1>15. CASE s = "wallet transactions"
  <2>1. /\ Refresh(s).all = <<>>
        /\ Refresh(s).shown = <<"characterWalletTransaction">>
    BY <1>15 DEF Refresh
  <2>. QED
    BY <2>1, SomeLabels
<1>. QED
  BY <1>1, <1>2, <1>3, <1>4, <1>5, <1>6, <1>7, <1>8, <1>9,
     <1>10, <1>11, <1>12, <1>13, <1>14, <1>15 DEF Sections

\* ... and in the list of each general section.
LEMMA GeneralLists ==
    ASSUME NEW s \in GeneralSections
    PROVE  RefreshGeneral(s) \in Seq(Labels)
<1>1. CASE s = "eve categories"
  <2>1. RefreshGeneral(s) = <<"characterShips", "characterSkillCatalogue">>
    BY <1>1 DEF RefreshGeneral
  <2>. QED
    BY <2>1, SomeLabels
<1>2. CASE s = "eve characters"
  <2>1. RefreshGeneral(s) = <<"reload", "overviewCharacters">>
    BY <1>2 DEF RefreshGeneral
  <2>. QED
    BY <2>1, SomeLabels
<1>3. CASE s = "market prices"
  <2>1. RefreshGeneral(s) =
          <<"characterAssets", "overviewCharacters", "overviewAssets", "reload">>
    BY <1>3 DEF RefreshGeneral
  <2>. QED
    BY <2>1, SomeLabels
<1>. QED
  BY <1>1, <1>2, <1>3 DEF GeneralSections

\* What an update of a section refreshes is a list of refreshes.
LEMMA RefreshPlan ==
    ASSUME source \in Sections, NEW isShown, NEW needsRefresh
    PROVE  RefreshOf(isShown, needsRefresh) \in Seq(Refreshes)
<1>. DEFINE all == IF needsRefresh THEN Refresh(source).all ELSE <<>>
            one == IF isShown /\ (needsRefresh \/ source = "skillqueue")
                   THEN Refresh(source).shown ELSE <<>>
<1>1. Refresh(source).all \in Seq(Labels) /\ Refresh(source).shown \in Seq(Labels)
  BY RefreshLists
<1>2. all \in Seq(Labels) /\ one \in Seq(Labels)
  <2>1. <<>> \in Seq(Labels)
    OBVIOUS
  <2>. QED
    BY <1>1, <2>1
<1>. HIDE DEF all, one
<1>3. one \o all \in Seq(Labels) /\ all \o one \in Seq(Labels)
  BY <1>2
<1>4. RefreshOf(isShown, needsRefresh) =
        Pages(IF source = "skillqueue" THEN one \o all ELSE all \o one)
  BY DEF RefreshOf, all, one
<1>. QED
  BY <1>3, <1>4, PagesPlan

\* What is left of a plan is a plan, and has only what may be done later.
LEMMA TailPlan ==
    ASSUME NEW g, NEW todo, Plans(g, todo)
    PROVE  /\ Tail(todo) = <<>> \/ (Plans(g, Tail(todo)) /\ MayDoLater(g, Tail(todo)[1]))
           /\ \A i \in 1..Len(Tail(todo)) : MayDoLater(g, Tail(todo)[i])
<1>1. /\ todo \in Seq(Steps) /\ todo # <<>>
      /\ \A i \in 2..Len(todo) : MayDoLater(g, todo[i])
  BY DEF Plans
<1>2. /\ Tail(todo) \in Seq(Steps) /\ Len(Tail(todo)) = Len(todo) - 1 /\ Len(todo) \in Nat
      /\ \A i \in 1..Len(Tail(todo)) : Tail(todo)[i] = todo[i + 1]
  BY <1>1
<1>3. \A i \in 1..Len(Tail(todo)) : MayDoLater(g, Tail(todo)[i])
  BY <1>1, <1>2
<1>4. CASE Tail(todo) # <<>>
  <2>1. 1 \in 1..Len(Tail(todo)) /\ \A i \in 2..Len(Tail(todo)) : i \in 1..Len(Tail(todo))
    BY <1>2, <1>4
  <2>. QED
    BY <1>2, <1>3, <2>1 DEF Plans, MayDo
<1>. QED
  BY <1>1, <1>2, <1>3, <1>4

\* A list of refreshes is a plan of an update.
LEMMA ListPlan ==
    ASSUME NEW g, g[1] \in {"section", "general", "mail"}, NEW todo \in Seq(Refreshes)
    PROVE  todo = <<>> \/ Plans(g, todo)
<1>1. \A i \in 1..Len(todo) : MayDoLater(g, todo[i])
  BY DEF MayDoLater
<1>2. todo \in Seq(Steps)
  <2>1. Refreshes \subseteq Steps
    BY DEF Steps
  <2>. QED
    BY <2>1
<1>3. CASE todo # <<>>
  <2>1. 1 \in 1..Len(todo) /\ \A i \in 2..Len(todo) : i \in 1..Len(todo)
    BY <1>2, <1>3
  <2>. QED
    BY <1>1, <1>2, <1>3, <2>1 DEF Plans, MayDo
<1>. QED
  BY <1>3

\* A plan with one step,
LEMMA SinglePlan ==
    ASSUME NEW g, NEW s \in Steps, MayDo(g, s)
    PROVE  Plans(g, <<s>>)
  BY DEF Plans

\* ... with two steps,
LEMMA PairPlan ==
    ASSUME NEW g, NEW s \in Steps, MayDo(g, s), NEW t \in Steps, MayDoLater(g, t)
    PROVE  Plans(g, <<s, t>>)
<1>1. <<s, t>> \in Seq(Steps) /\ Len(<<s, t>>) = 2 /\ <<s, t>>[1] = s /\ <<s, t>>[2] = t
  OBVIOUS
<1>2. \A i \in 2..Len(<<s, t>>) : i = 2
  BY <1>1
<1>. QED
  BY <1>1, <1>2 DEF Plans

\* ... and with a step before those of another one.
LEMMA ConsPlan ==
    ASSUME NEW g, NEW s \in Steps, MayDo(g, s), NEW rest \in Seq(Steps),
           \A i \in 1..Len(rest) : MayDoLater(g, rest[i])
    PROVE  Plans(g, <<s>> \o rest)
<1>1. /\ <<s>> \o rest \in Seq(Steps) /\ Len(<<s>> \o rest) = Len(rest) + 1 /\ Len(rest) \in Nat
      /\ (<<s>> \o rest)[1] = s
      /\ \A i \in 2..(Len(rest) + 1) : (<<s>> \o rest)[i] = rest[i - 1] /\ i - 1 \in 1..Len(rest)
  OBVIOUS
<1>. QED
  BY <1>1 DEF Plans

----------------------------------------------------------------------------
(* Goroutines that end, start or go on with their next step *)

\* A goroutine that goes on with a plan is the only one that moves.
LEMMA ContinueMoves ==
    ASSUME WorkOK, NEW g \in DOMAIN work, NEW todo, todo = <<>> \/ (Plans(g, todo) /\ Calm(todo))
    PROVE  MovesTo(Continue(g, todo), {g})
<1>1. \A h \in DOMAIN work : h \in Names /\ work[h] \in Routines
  BY DEF WorkOK
<1>2. ASSUME NEW h \in DOMAIN work \ {g} PROVE GoesOn(work, Continue(g, todo), h)
  BY <1>2 DEF Continue, GoesOn
<1>3. CASE todo = <<>>
  <2>1. DOMAIN Continue(g, todo) = DOMAIN work \ {g}
    BY <1>3, ContinueFacts
  <2>2. Continue(g, todo) \in [DOMAIN work \ {g} -> Routines]
    BY <1>1, <1>3 DEF Continue
  <2>. QED
    BY <1>2, <2>1, <2>2 DEF MovesTo
<1>4. CASE todo # <<>>
  <2>1. Plans(g, todo) /\ todo \in Seq(Steps) /\ Calm(todo)
    BY <1>4 DEF Plans
  <2>2. /\ Doing(todo) \in Routines /\ Doing(todo).todo = todo /\ Doing(todo).read = None
    BY <2>1, DoingFacts
  <2>3. DOMAIN Continue(g, todo) = DOMAIN work /\ Continue(g, todo)[g] = Doing(todo)
    <3>1. DOMAIN Continue(g, todo) = (DOMAIN work \ {g}) \cup {g}
      BY <1>4, ContinueFacts
    <3>. QED
      BY <1>4, <3>1, ContinueFacts
  <2>4. Continue(g, todo) \in [DOMAIN work -> Routines]
    BY <1>1, <2>2, <1>4 DEF Continue
  <2>. QED
    BY <1>1, <1>2, <2>1, <2>2, <2>3, <2>4 DEF MovesTo
<1>. QED
  BY <1>3, <1>4

\* A refresh is of a page that is followed or the reload.
LEMMA RefreshKinds ==
    ASSUME NEW s, s \in Refreshes
    PROVE  (s[1] = "page" /\ s[2] \in Relevant) \/ s = <<"reload", "reload">>
  BY DEF Refreshes

\* The names of steps and goroutines, which the provers need to see.
LEMMA FirstOf ==
    Cross[1] = "cross" /\ User[1] = "user" /\ Opener[1] = "open"
    /\ <<"reload", "reload">>[1] = "reload" /\ \A p : <<"page", p>>[1] = "page"
  BY DEF Cross, User, Opener

\* What may be done later never changes the database,
LEMMA LaterIsCalm ==
    ASSUME NEW g, NEW todo, MayDoLater(g, todo[1])
    PROVE  Calm(todo)
<1>1. CASE todo[1] \in Refreshes
  <2>1. todo[1][1] = "page" \/ todo[1][1] = "reload"
    BY <1>1, RefreshKinds, FirstOf
  <2>. QED
    BY <2>1 DEF Calm, Dues
<1>2. CASE todo[1] = <<"ask", g[2]>>
  BY <1>2 DEF Calm, Dues
<1>3. CASE todo[1] = Cross
  BY <1>3, FirstOf DEF Calm, Dues
<1>. QED
  BY <1>1, <1>2, <1>3 DEF MayDoLater

\* ... and what starts with an event may.
LEMMA EventIsCalm ==
    ASSUME ValuesOK, Happens, NEW todo
    PROVE  Calm(todo)
  BY DEF ValuesOK, Happens, Calm

\* What is next of a list of refreshes.
LEMMA ListIsCalm ==
    ASSUME NEW todo \in Seq(Refreshes)
    PROVE  todo = <<>> \/ Calm(todo)
<1>1. CASE todo # <<>>
  <2>1. todo[1] \in Refreshes
    BY <1>1
  <2>2. MayDoLater(<<"general", None>>, todo[1])
    BY <2>1 DEF MayDoLater
  <2>. QED
    BY <2>2, LaterIsCalm
<1>. QED
  BY <1>1

\* Going on with the rest of the list moves only this goroutine,
LEMMA RestMoves ==
    ASSUME WorkOK, NEW g \in DOMAIN work
    PROVE  MovesTo(Continue(g, Tail(work[g].todo)), {g})
<1>1. Plans(g, work[g].todo)
  BY DEF WorkOK
<1>2. \/ Tail(work[g].todo) = <<>>
      \/ Plans(g, Tail(work[g].todo)) /\ MayDoLater(g, Tail(work[g].todo)[1])
  BY <1>1, TailPlan
<1>3. \/ Tail(work[g].todo) = <<>>
      \/ Plans(g, Tail(work[g].todo)) /\ Calm(Tail(work[g].todo))
  BY <1>2, LaterIsCalm
<1>. QED
  BY <1>3, ContinueMoves

\* ... as ending it does.
LEMMA EndMoves ==
    ASSUME WorkOK, NEW g \in DOMAIN work
    PROVE  MovesTo(Continue(g, <<>>), {g})
  BY ContinueMoves

\* Nothing moves when nothing happens.
LEMMA NoMoves == ASSUME WorkOK PROVE MovesTo(work, {})
  BY DEF WorkOK, MovesTo, GoesOn

\* To be late is no move.
LEMMA OvertakeMoves ==
    ASSUME NEW v, NEW N, MovesTo(v, N), NEW op, NEW X
    PROVE  MovesTo(Overtake(v, op, X), N)
<1>. DEFINE u == Overtake(v, op, X)
<1>1. /\ u \in [DOMAIN v -> Routines] /\ DOMAIN u = DOMAIN v
      /\ \A h \in DOMAIN v : GoesOn(v, u, h)
  <2>1. v \in [DOMAIN v -> Routines]
    BY DEF MovesTo
  <2>. QED
    BY <2>1, OvertakeFacts
<1>. HIDE DEF u
<1>2. u \in [DOMAIN u -> Routines]
  BY <1>1
<1>3. \A h \in DOMAIN u \cap N :
         h \in Names /\ Plans(h, u[h].todo) /\ u[h].read = None /\ Calm(u[h].todo)
  BY <1>1 DEF MovesTo, GoesOn
<1>4. \A h \in (DOMAIN u \cup DOMAIN work) \ N : GoesOn(work, u, h)
  BY <1>1 DEF MovesTo, GoesOn
<1>. QED
  BY <1>2, <1>3, <1>4 DEF MovesTo, u

\* Goroutines that start with a plan move, the others do not.
LEMMA BesideMoves ==
    ASSUME NEW v, NEW N, MovesTo(v, N), NEW new,
           \A h \in DOMAIN new : /\ new[h] \in Routines /\ new[h].read = None
                                 /\ h \in Names /\ Plans(h, new[h].todo) /\ Calm(new[h].todo)
    PROVE  MovesTo(Beside(v, new), N \cup DOMAIN new)
<1>. DEFINE u == Beside(v, new)
<1>1. /\ DOMAIN u = DOMAIN v \cup DOMAIN new
      /\ \A h \in DOMAIN new : u[h] = new[h]
      /\ \A h \in DOMAIN v \ DOMAIN new : u[h] = v[h]
      /\ u = [h \in DOMAIN u |-> u[h]]
  <2>1. u = [h \in DOMAIN v \cup DOMAIN new |-> u[h]] /\ DOMAIN u = DOMAIN v \cup DOMAIN new
    BY BesideFacts
  <2>2. \A h \in DOMAIN new : u[h] = new[h]
    BY DEF Beside
  <2>3. \A h \in DOMAIN v \ DOMAIN new : u[h] = v[h]
    BY DEF Beside
  <2>. HIDE DEF u
  <2>. QED
    BY <2>1, <2>2, <2>3
<1>. HIDE DEF u
<1>2. \A h \in DOMAIN u : u[h] \in Routines
  BY <1>1 DEF MovesTo
<1>3. u \in [DOMAIN u -> Routines]
  BY <1>1, <1>2
<1>4. ASSUME NEW h \in DOMAIN u \cap (N \cup DOMAIN new)
      PROVE  h \in Names /\ Plans(h, u[h].todo) /\ u[h].read = None /\ Calm(u[h].todo)
  <2>1. CASE h \in DOMAIN new
    BY <1>1, <2>1
  <2>2. CASE h \notin DOMAIN new
    BY <1>1, <1>4, <2>2 DEF MovesTo
  <2>. QED
    BY <2>1, <2>2
<1>5. \A h \in (DOMAIN u \cup DOMAIN work) \ (N \cup DOMAIN new) : GoesOn(work, u, h)
  BY <1>1 DEF MovesTo, GoesOn
<1>. QED
  BY <1>3, <1>4, <1>5 DEF MovesTo, u

\* The same for a single goroutine,
LEMMA StartMoves ==
    ASSUME WorkOK, NEW g \in Names, NEW todo, Plans(g, todo), Calm(todo)
    PROVE  MovesTo(Beside(work, Starting(g, todo)), {g})
<1>1. /\ DOMAIN Starting(g, todo) = {g} /\ Starting(g, todo)[g] = Doing(todo)
  BY DEF Starting
<1>2. /\ Doing(todo) \in Routines /\ Doing(todo).todo = todo /\ Doing(todo).read = None
  BY DoingFacts DEF Plans
<1>3. MovesTo(Beside(work, Starting(g, todo)), {} \cup {g})
  BY <1>1, <1>2, NoMoves, BesideMoves
<1>. QED
  BY <1>3

\* ... and for those that refresh one page each.
LEMMA RefreshingMoves ==
    ASSUME NEW v, NEW N, MovesTo(v, N), NEW name, NEW P,
           \A p \in Relevant : /\ <<name, p>> \in Names
                               /\ Plans(<<name, p>>, <<<<"page", p>>>>)
    PROVE  MovesTo(Beside(v, Refreshing(name, P)), N \cup ({name} \X (P \cap Relevant)))
<1>1. DOMAIN Refreshing(name, P) = {name} \X (P \cap Relevant)
  BY RefreshingFacts
<1>2. ASSUME NEW g \in {name} \X (P \cap Relevant)
      PROVE  /\ Refreshing(name, P)[g] \in Routines /\ Refreshing(name, P)[g].read = None
             /\ g \in Names /\ Plans(g, Refreshing(name, P)[g].todo)
             /\ Calm(Refreshing(name, P)[g].todo)
  <2>1. Refreshing(name, P)[g] = Doing(<<<<"page", g[2]>>>>)
    BY <1>2 DEF Refreshing
  <2>2. /\ g = <<name, g[2]>> /\ g[2] \in Relevant /\ <<<<"page", g[2]>>>> \in Seq(Steps)
    BY <1>2, RefreshingFacts
  <2>3. g \in Names /\ Plans(g, <<<<"page", g[2]>>>>) /\ Calm(<<<<"page", g[2]>>>>)
    BY <2>2 DEF Calm, Dues
  <2>. QED
    BY <2>1, <2>2, <2>3, DoingFacts
<1>. QED
  BY <1>1, <1>2, BesideMoves

\* The goroutines that refresh one page have a plan.
LEMMA PagePlans ==
    ASSUME NEW p \in Relevant
    PROVE  /\ <<"go", p>> \in Names /\ Plans(<<"go", p>>, <<<<"page", p>>>>)
           /\ <<"page", p>> \in Names /\ Plans(<<"page", p>>, <<<<"page", p>>>>)
           /\ <<"mail page", p>> \in Names /\ Plans(<<"mail page", p>>, <<<<"page", p>>>>)
<1>1. <<"page", p>> \in Steps
  BY DEF Steps, Refreshes
<1>2. /\ MayDo(<<"go", p>>, <<"page", p>>) /\ MayDo(<<"page", p>>, <<"page", p>>)
      /\ MayDo(<<"mail page", p>>, <<"page", p>>)
  BY DEF MayDo
<1>3. <<"go", p>> \in Names /\ <<"page", p>> \in Names /\ <<"mail page", p>> \in Names
  BY DEF Names
<1>. QED
  BY <1>1, <1>2, <1>3, SinglePlan

\* Who does what.
LEMMA PairKinds ==
    ASSUME NEW a, NEW S, NEW g, g \in {a} \X S
    PROVE  g[1] = a /\ g[2] \in S /\ g = <<a, g[2]>>
  OBVIOUS

\* The kinds of goroutines, told apart by their names.
LEMMA NameKinds ==
    ASSUME NEW g, g \in Names
    PROVE  \/ g[1] = "section" /\ g[2] \in Characters /\ source \in Sections /\ g = <<"section", g[2]>>
           \/ g[1] = "mail" /\ g[2] \in Characters /\ source = "read mail" /\ g = <<"mail", g[2]>>
           \/ g[1] = "general" /\ g[2] \in GeneralSections /\ g = <<"general", g[2]>>
           \/ g[1] \in {"go", "page", "mail page"} /\ g[2] \in Relevant
           \/ g[1] = "user" /\ g = User
           \/ g[1] = "open" /\ g = Opener
<1>1. CASE g \in {"section"} \X {c \in Characters : source \in Sections}
  <2>1. g[1] = "section" /\ g[2] \in Characters /\ source \in Sections /\ g = <<"section", g[2]>>
    BY <1>1
  <2>. QED
    BY <2>1
<1>2. CASE g \in {"mail"} \X {c \in Characters : source = "read mail"}
  <2>1. g[1] = "mail" /\ g[2] \in {c \in Characters : source = "read mail"}
        /\ g = <<"mail", g[2]>>
    BY <1>2, PairKinds, Zenon
  <2>2. g[2] \in Characters /\ source = "read mail"
    BY <2>1
  <2>. QED
    BY <2>1, <2>2
<1>3. CASE g \in {"general"} \X GeneralSections
  <2>1. g[1] = "general" /\ g[2] \in GeneralSections /\ g = <<"general", g[2]>>
    BY <1>3
  <2>. QED
    BY <2>1
<1>4. CASE g \in {"go", "page", "mail page"} \X Relevant
  BY <1>4
<1>5. CASE g \in {User, Opener}
  <2>1. (g[1] = "user" /\ g = User) \/ (g[1] = "open" /\ g = Opener)
    BY <1>5 DEF User, Opener
  <2>. QED
    BY <2>1
<1>. QED
  BY <1>1, <1>2, <1>3, <1>4, <1>5 DEF Names

\* Who may do what: the step tells the goroutine.
LEMMA WhoMay ==
    ASSUME NEW g, g \in Names, NEW s, MayDo(g, s)
    PROVE  \/ g[1] \in {"section", "general", "mail"} /\ s[1] = "page" /\ s[2] \in Relevant
           \/ g[1] \in {"section", "general", "mail"} /\ s[1] = "reload" /\ s = <<"reload", "reload">>
           \/ /\ g[1] = "section" /\ s[1] \in {"update", "ask", "ask again"} /\ s[2] = g[2]
              /\ g = <<"section", s[2]>> /\ s[2] \in Characters /\ source \in Sections
           \/ /\ g[1] = "general" /\ s[1] = "update general" /\ s[2] = g[2]
              /\ g = <<"general", s[2]>> /\ s[2] \in GeneralSections
           \/ /\ g[1] = "mail" /\ s[1] = "mark" /\ s[2] = g[2]
              /\ g = <<"mail", s[2]>> /\ s[2] \in Characters /\ source = "read mail"
           \/ g[1] = "mail" /\ s[1] = "cross" /\ s = Cross
           \/ g[1] = "user" /\ g = User /\ s[1] = "cross" /\ s = Cross
           \/ g[1] = "user" /\ g = User /\ s[1] \in {"load", "deleted", "added"} /\ s[2] \in Characters
           \/ g[1] = "open" /\ g = Opener /\ s[1] = "open" /\ s[2] \in Characters
           \/ /\ g[1] \in {"go", "page", "mail page"} /\ s[1] = "page" /\ s[2] \in Relevant
              /\ s = <<"page", g[2]>>
<1>1. CASE g[1] \in {"section", "general", "mail"} /\ s \in Refreshes
  BY <1>1, RefreshKinds, FirstOf
<1>2. CASE g[1] = "section" /\ s \in {<<"update", g[2]>>, <<"ask", g[2]>>, <<"ask again", g[2]>>}
  <2>1. g[2] \in Characters /\ source \in Sections /\ g = <<"section", g[2]>>
    BY <1>2, NameKinds
  <2>2. s = <<"update", g[2]>> \/ s = <<"ask", g[2]>> \/ s = <<"ask again", g[2]>>
    BY <1>2
  <2>3. s[1] \in {"update", "ask", "ask again"} /\ s[2] = g[2]
    <3>1. CASE s = <<"update", g[2]>>
      BY <3>1
    <3>2. CASE s = <<"ask", g[2]>>
      BY <3>2
    <3>3. CASE s = <<"ask again", g[2]>>
      BY <3>3
    <3>. QED
      BY <2>2, <3>1, <3>2, <3>3
  <2>. QED
    BY <1>2, <2>1, <2>3
<1>3. CASE g[1] = "general" /\ s = <<"update general", g[2]>>
  BY <1>3, NameKinds
<1>4. CASE g[1] = "mail" /\ s = <<"mark", g[2]>>
  BY <1>4, NameKinds
<1>5. CASE g[1] \in {"mail", "user"} /\ s = Cross
  <2>1. g[1] = "user" => g = User
    BY NameKinds
  <2>. QED
    BY <1>5, <2>1, FirstOf
<1>6. CASE g[1] = "user" /\ s \in {"load", "deleted", "added"} \X Characters
  <2>1. g = User
    BY <1>6, NameKinds
  <2>2. s[1] \in {"load", "deleted", "added"} /\ s[2] \in Characters
    BY <1>6
  <2>. QED
    BY <1>6, <2>1, <2>2
<1>7. CASE g[1] = "open" /\ s \in {"open"} \X Characters
  <2>1. g = Opener
    BY <1>7, NameKinds
  <2>2. s[1] = "open" /\ s[2] \in Characters
    BY <1>7
  <2>. QED
    BY <1>7, <2>1, <2>2
<1>8. CASE g[1] \in {"go", "page", "mail page"} /\ s = <<"page", g[2]>>
  <2>1. g[2] \in Relevant
    BY <1>8, NameKinds
  <2>2. s[1] = "page" /\ s[2] = g[2]
    BY <1>8
  <2>. QED
    BY <1>8, <2>1, <2>2
<1>. QED
  BY <1>1, <1>2, <1>3, <1>4, <1>5, <1>6, <1>7, <1>8 DEF MayDo, MayDoLater

\* What is known of a goroutine that is at work.
LEMMA Doer ==
    ASSUME WorkOK, NEW g, g \in DOMAIN work
    PROVE  /\ g \in Names /\ work[g] \in Routines
           /\ Plans(g, work[g].todo) /\ MayDo(g, At(g)) /\ MayHaveRead(At(g), work[g].read)
           /\ Its(g) = At(g)[2]
  BY DEF WorkOK, Plans, At, Its

\* Only the goroutine of the section updates and asks,
LEMMA SectionDoes ==
    ASSUME WorkOK, NEW g, Does(g, "update") \/ Does(g, "ask") \/ Does(g, "ask again")
    PROVE  /\ g \in DOMAIN work /\ g = <<"section", Its(g)>> /\ Its(g) \in Characters
           /\ source \in Sections
<1>1. g \in DOMAIN work /\ At(g)[1] \in {"update", "ask", "ask again"}
  BY DEF Does, At
<1>2. g \in Names /\ MayDo(g, At(g)) /\ Its(g) = At(g)[2]
  BY <1>1, Doer
<1>. QED
  BY <1>1, <1>2, WhoMay, FirstOf

\* ... only that of a general section updates it,
LEMMA GeneralDoes ==
    ASSUME WorkOK, NEW g, Does(g, "update general")
    PROVE  /\ g \in DOMAIN work /\ g = <<"general", Its(g)>> /\ Its(g) \in GeneralSections
<1>1. g \in DOMAIN work /\ At(g)[1] = "update general"
  BY DEF Does, At
<1>2. g \in Names /\ MayDo(g, At(g)) /\ Its(g) = At(g)[2]
  BY <1>1, Doer
<1>. QED
  BY <1>1, <1>2, WhoMay, FirstOf

\* ... only that of a mail marks it,
LEMMA MailDoes ==
    ASSUME WorkOK, NEW g, Does(g, "mark")
    PROVE  /\ g \in DOMAIN work /\ g = <<"mail", Its(g)>> /\ Its(g) \in Characters
           /\ source = "read mail"
<1>1. g \in DOMAIN work /\ At(g)[1] = "mark"
  BY DEF Does, At
<1>2. g \in Names /\ MayDo(g, At(g)) /\ Its(g) = At(g)[2]
  BY <1>1, Doer
<1>. QED
  BY <1>1, <1>2, WhoMay, FirstOf

\* ... only the user loads, deletes and adds,
LEMMA UserDoes ==
    ASSUME WorkOK, NEW g, Does(g, "load") \/ Does(g, "deleted") \/ Does(g, "added")
    PROVE  g \in DOMAIN work /\ g = User /\ Its(g) \in Characters
<1>1. g \in DOMAIN work /\ At(g)[1] \in {"load", "deleted", "added"}
  BY DEF Does, At
<1>2. g \in Names /\ MayDo(g, At(g)) /\ Its(g) = At(g)[2]
  BY <1>1, Doer
<1>. QED
  BY <1>1, <1>2, WhoMay, FirstOf

\* ... only one goroutine opens a list.
LEMMA OpenerDoes ==
    ASSUME WorkOK, NEW g, Does(g, "open")
    PROVE  g \in DOMAIN work /\ g = Opener /\ Its(g) \in Characters
<1>1. g \in DOMAIN work /\ At(g)[1] = "open"
  BY DEF Does, At
<1>2. g \in Names /\ MayDo(g, At(g)) /\ Its(g) = At(g)[2]
  BY <1>1, Doer
<1>. QED
  BY <1>1, <1>2, WhoMay, FirstOf

\* Six kinds of goroutines refresh pages,
LEMMA PageDoes ==
    ASSUME WorkOK, NEW g, Does(g, "page")
    PROVE  /\ g \in DOMAIN work /\ Its(g) \in Relevant
           /\ g[1] \in {"section", "general", "mail", "go", "page", "mail page"}
<1>1. g \in DOMAIN work /\ At(g)[1] = "page"
  BY DEF Does, At
<1>2. g \in Names /\ MayDo(g, At(g)) /\ Its(g) = At(g)[2]
  BY <1>1, Doer
<1>3. At(g)[2] \in Relevant
  BY <1>1, <1>2, WhoMay
<1>4. g[1] \in {"section", "general", "mail"} \/ g[1] \in {"go", "page", "mail page"}
  BY <1>1, <1>2, WhoMay
<1>. QED
  BY <1>1, <1>2, <1>3, <1>4

\* ... three reload the current character,
LEMMA ReloadDoes ==
    ASSUME WorkOK, NEW g, Does(g, "reload")
    PROVE  /\ g \in DOMAIN work /\ At(g) = <<"reload", "reload">>
           /\ g[1] \in {"section", "general", "mail"}
<1>1. g \in DOMAIN work /\ At(g)[1] = "reload"
  BY DEF Does, At
<1>2. g \in Names /\ MayDo(g, At(g)) /\ Its(g) = At(g)[2]
  BY <1>1, Doer
<1>. QED
  BY <1>1, <1>2, WhoMay, FirstOf

\* ... two refresh the pages about all characters.
LEMMA CrossDoes ==
    ASSUME WorkOK, NEW g, Does(g, "cross")
    PROVE  /\ g \in DOMAIN work /\ At(g) = Cross
           /\ g[1] = "mail" \/ g = User
<1>1. g \in DOMAIN work /\ At(g)[1] = "cross"
  BY DEF Does, At
<1>2. g \in Names /\ MayDo(g, At(g)) /\ Its(g) = At(g)[2]
  BY <1>1, Doer
<1>. QED
  BY <1>1, <1>2, WhoMay, FirstOf

\* What the goroutines of the user, of a list and of a page do.
LEMMA NamedDo ==
    ASSUME WorkOK
    PROVE  /\ User \in DOMAIN work => \/ At(User) = Cross
                                      \/ /\ At(User)[1] \in {"load", "deleted", "added"}
                                         /\ At(User)[2] \in Characters
           /\ Opener \in DOMAIN work => At(Opener)[1] = "open" /\ At(Opener)[2] \in Characters
           /\ \A p : <<"page", p>> \in DOMAIN work => At(<<"page", p>>) = <<"page", p>>
<1>1. ASSUME User \in DOMAIN work
      PROVE  \/ At(User) = Cross
             \/ At(User)[1] \in {"load", "deleted", "added"} /\ At(User)[2] \in Characters
  <2>1. User[1] = "user"
    BY DEF User
  <2>. QED
    BY <1>1, <2>1, Doer, WhoMay
<1>2. ASSUME Opener \in DOMAIN work
      PROVE  At(Opener)[1] = "open" /\ At(Opener)[2] \in Characters
  <2>1. Opener[1] = "open"
    BY DEF Opener
  <2>. QED
    BY <1>2, <2>1, Doer, WhoMay
<1>3. ASSUME NEW p, <<"page", p>> \in DOMAIN work
      PROVE  At(<<"page", p>>) = <<"page", p>>
  <2>1. <<"page", p>>[1] = "page" /\ <<"page", p>>[2] = p
    OBVIOUS
  <2>. QED
    BY <1>3, <2>1, Doer, WhoMay
<1>. QED
  BY <1>1, <1>2, <1>3

----------------------------------------------------------------------------
(* How each action moves the goroutines *)

\* The steps of a goroutine for a character are steps.
LEMMA SectionSteps ==
    ASSUME NEW c \in Characters
    PROVE  /\ <<"update", c>> \in Steps /\ <<"ask", c>> \in Steps /\ <<"ask again", c>> \in Steps
           /\ <<"mark", c>> \in Steps /\ <<"load", c>> \in Steps /\ <<"deleted", c>> \in Steps
           /\ <<"added", c>> \in Steps /\ <<"open", c>> \in Steps /\ Cross \in Steps
  BY DEF Steps

\* An update of a section starts.
LEMMA CheckMoves ==
    ASSUME ValuesOK, WorkOK, NEW c \in Characters, Check(c)
    PROVE  Moves({<<"section", c>>})
<1>. DEFINE g == <<"section", c>>
<1>1. source \in Sections /\ work' = Beside(work, Starting(g, <<<<"update", c>>, <<"ask", c>>>>))
  BY DEF Check
<1>2. g \in Names
  BY <1>1 DEF Names
<1>3. MayDo(g, <<"update", c>>) /\ MayDoLater(g, <<"ask", c>>)
  BY DEF MayDo, MayDoLater
<1>. HIDE DEF g
<1>4. Plans(g, <<<<"update", c>>, <<"ask", c>>>>)
  BY <1>3, SectionSteps, PairPlan
<1>5. Calm(<<<<"update", c>>, <<"ask", c>>>>)
  BY EventIsCalm DEF Check
<1>. QED
  BY <1>1, <1>2, <1>4, <1>5, StartMoves DEF Moves, g

\* An update of a general section starts.
LEMMA CheckGeneralMoves ==
    ASSUME ValuesOK, WorkOK, NEW s \in GeneralSections, CheckGeneral(s)
    PROVE  Moves({<<"general", s>>})
<1>. DEFINE g == <<"general", s>>
<1>1. work' = Beside(work, Starting(g, <<<<"update general", s>>>>))
  BY DEF CheckGeneral
<1>2. g \in Names /\ <<"update general", s>> \in Steps
  BY DEF Names, Steps
<1>3. MayDo(g, <<"update general", s>>)
  BY DEF MayDo
<1>. HIDE DEF g
<1>4. Plans(g, <<<<"update general", s>>>>)
  BY <1>2, <1>3, SinglePlan
<1>5. Calm(<<<<"update general", s>>>>)
  BY EventIsCalm DEF CheckGeneral
<1>. QED
  BY <1>1, <1>2, <1>4, <1>5, StartMoves DEF Moves, g

\* An update of a section goes on or ends.
LEMMA UpdateMoves ==
    ASSUME WorkOK, NEW g, Update(g)
    PROVE  Moves({g})
<1>1. Does(g, "update")
  BY DEF Update
<1>2. /\ g \in DOMAIN work /\ g = <<"section", Its(g)>> /\ Its(g) \in Characters
  BY <1>1, SectionDoes
<1>3. CASE work' = Overtake(Continue(g, Tail(work[g].todo)), "load", {Its(g)})
  BY <1>2, <1>3, RestMoves, OvertakeMoves DEF Moves
<1>4. CASE work' = Continue(g, <<<<"ask again", Its(g)>>>>)
  <2>1. MayDo(g, <<"ask again", Its(g)>>)
    <3>1. g[1] = "section" /\ g[2] = Its(g)
      BY <1>2
    <3>. QED
      BY <3>1 DEF MayDo
  <2>2. Plans(g, <<<<"ask again", Its(g)>>>>)
    BY <1>2, <2>1, SectionSteps, SinglePlan
  <2>3. Calm(<<<<"ask again", Its(g)>>>>)
    BY DEF Calm, Dues
  <2>. QED
    BY <1>2, <1>4, <2>2, <2>3, ContinueMoves DEF Moves
<1>5. CASE work' = Continue(g, <<>>)
  BY <1>2, <1>5, EndMoves DEF Moves
<1>. QED
  BY <1>3, <1>4, <1>5 DEF Update

\* A mail has been marked.
LEMMA MarkMoves ==
    ASSUME WorkOK, NEW g, Mark(g)
    PROVE  Moves({g})
<1>1. g \in DOMAIN work
  BY MailDoes DEF Mark
<1>2. CASE work' = Overtake(Continue(g, Tail(work[g].todo)), "load", {Its(g)})
  BY <1>1, <1>2, RestMoves, OvertakeMoves DEF Moves
<1>3. CASE work' = Continue(g, <<>>)
  BY <1>1, <1>3, EndMoves DEF Moves
<1>. QED
  BY <1>2, <1>3 DEF Mark

\* An update goes on with its refreshes and starts others beside it.
LEMMA AskMoves ==
    ASSUME WorkOK, NEW g, Ask(g)
    PROVE  \E P : Moves({g} \cup ({"go"} \X (P \cap Relevant)))
<1>1. Does(g, "ask") \/ Does(g, "ask again")
  BY DEF Ask
<1>2. /\ g \in DOMAIN work /\ g = <<"section", Its(g)>> /\ Its(g) \in Characters
      /\ source \in Sections
  BY <1>1, SectionDoes
<1>. DEFINE new == Does(g, "ask")
            todo == RefreshOf(current.id = Its(g), new)
            P == IF new THEN Refresh(source).go ELSE {}
<1>3. work' = Beside(Continue(g, todo), Refreshing("go", P))
  BY DEF Ask
<1>4. todo \in Seq(Refreshes)
  BY <1>2, RefreshPlan
<1>. HIDE DEF todo, P
<1>5. g[1] = "section"
  BY <1>2
<1>6. todo = <<>> \/ (Plans(g, todo) /\ Calm(todo))
  BY <1>4, <1>5, ListPlan, ListIsCalm
<1>7. MovesTo(Continue(g, todo), {g})
  BY <1>2, <1>6, ContinueMoves
<1>8. MovesTo(Beside(Continue(g, todo), Refreshing("go", P)), {g} \cup ({"go"} \X (P \cap Relevant)))
  BY <1>7, PagePlans, RefreshingMoves
<1>. QED
  BY <1>3, <1>8 DEF Moves

\* An update of a general section goes on or ends.
LEMMA UpdateGeneralMoves ==
    ASSUME WorkOK, NEW g, UpdateGeneral(g)
    PROVE  Moves({g})
<1>1. Does(g, "update general")
  BY DEF UpdateGeneral
<1>2. /\ g \in DOMAIN work /\ g = <<"general", Its(g)>> /\ Its(g) \in GeneralSections
  BY <1>1, GeneralDoes
<1>. DEFINE next == Pages(RefreshGeneral(Its(g)))
<1>3. next \in Seq(Refreshes) /\ <<>> \in Seq(Refreshes)
  BY <1>2, GeneralLists, PagesPlan
<1>4. \/ \E X : work' = Overtake(Continue(g, next), "load", X)
      \/ work' = Continue(g, next)
      \/ work' = Continue(g, <<>>)
  BY Zenon DEF UpdateGeneral
<1>. HIDE DEF next
<1>5. g[1] = "general"
  BY <1>2
<1>6. MovesTo(Continue(g, next), {g})
  BY <1>2, <1>3, <1>5, ListPlan, ListIsCalm, ContinueMoves
<1>7. MovesTo(Continue(g, <<>>), {g})
  BY <1>2, EndMoves
<1>. QED
  BY <1>4, <1>6, <1>7, OvertakeMoves DEF Moves

\* The pages about all characters are refreshed beside what the user does next.
LEMMA UpdateCrossMoves ==
    ASSUME WorkOK, NEW g, UpdateCrossPages(g)
    PROVE  \E name \in {"page", "mail page"} :
             /\ name = "page" => g = User
             /\ Moves({g} \cup ({name} \X (DOMAIN CrossPages \cap Relevant)))
<1>1. g \in DOMAIN work
  BY CrossDoes DEF UpdateCrossPages
<1>. DEFINE name == IF g = User THEN "page" ELSE "mail page"
<1>2. work' = Beside(Continue(g, <<>>), Refreshing(name, DOMAIN CrossPages))
  BY DEF UpdateCrossPages
<1>3. MovesTo(Continue(g, <<>>), {g})
  BY <1>1, EndMoves
<1>4. \A p \in Relevant : <<name, p>> \in Names /\ Plans(<<name, p>>, <<<<"page", p>>>>)
  BY PagePlans
<1>5. name \in {"page", "mail page"} /\ (name = "page" => g = User)
  OBVIOUS
<1>. HIDE DEF name
<1>6. Moves({g} \cup ({name} \X (DOMAIN CrossPages \cap Relevant)))
  BY <1>2, <1>3, <1>4, RefreshingMoves DEF Moves
<1>. QED
  BY <1>5, <1>6

\* The pages of a character and the pages about all characters.
Tree == "characterAssets"
\* The pages of the two kinds, and that the tree of assets always shows what was read.
LEMMA PageSets ==
    /\ DOMAIN CrossPages = {"overviewAssets", "overviewCharacters", "overviewClones",
         "overviewColonies", "overviewLocations", "overviewTraining", "overviewWealth"}
    /\ DOMAIN CharacterPages = {"characterAssets", "characterAttributes", "characterBiography",
         "characterCommunications", "characterContracts", "characterImplants",
         "characterJumpClones", "characterMail", "characterPlanets", "characterSheet",
         "characterShips", "characterSkillCatalogue", "characterSkillQueue",
         "characterWalletJournal", "characterWalletTransaction"}
    /\ DOMAIN CrossPages \cap DOMAIN CharacterPages = {}
    /\ Tree \in DOMAIN CharacterPages /\ Tree \notin DOMAIN CrossPages
    /\ Tree \notin KeepRows /\ Tree \notin KeepCopy
<1>1. DOMAIN CrossPages = {"overviewAssets", "overviewCharacters", "overviewClones",
         "overviewColonies", "overviewLocations", "overviewTraining", "overviewWealth"}
  BY DEF CrossPages
<1>2. DOMAIN CharacterPages = {"characterAssets", "characterAttributes", "characterBiography",
         "characterCommunications", "characterContracts", "characterImplants",
         "characterJumpClones", "characterMail", "characterPlanets", "characterSheet",
         "characterShips", "characterSkillCatalogue", "characterSkillQueue",
         "characterWalletJournal", "characterWalletTransaction"}
  BY DEF CharacterPages
<1>. QED
  BY <1>1, <1>2 DEF Tree, KeepRows, KeepCopy

\* Only pages about one character have lists.
LEMMA ListPages ==
    ASSUME source \in Sources
    PROVE  /\ RelevantLists \subseteq DOMAIN CharacterPages \cap Relevant
           /\ RelevantLists \cap DOMAIN CrossPages = {}
<1>1. Lists[source] \subseteq DOMAIN CharacterPages
  BY DEF Lists
<1>. QED
  BY <1>1, PageSets DEF RelevantLists

\* The user and the opening of a list are goroutines.
LEMMA UserNamed == User \in Names /\ Opener \in Names
  BY DEF Names

\* What the user starts with is a plan.
LEMMA UserPlans ==
    ASSUME NEW c \in Characters
    PROVE  /\ Plans(User, <<<<"load", c>>>>)
           /\ Plans(User, <<<<"deleted", c>>, Cross>>) /\ Plans(User, <<<<"added", c>>, Cross>>)
<1>1. /\ MayDo(User, <<"load", c>>) /\ MayDo(User, <<"deleted", c>>)
      /\ MayDo(User, <<"added", c>>)
  <2>1. User[1] = "user"
    BY FirstOf
  <2>2. {<<"load", c>>, <<"deleted", c>>, <<"added", c>>}
          \subseteq {"load", "deleted", "added"} \X Characters
    OBVIOUS
  <2>. QED
    BY <2>1, <2>2 DEF MayDo
<1>2. MayDoLater(User, Cross)
  BY FirstOf DEF MayDoLater
<1>. QED
  BY <1>1, <1>2, SectionSteps, SinglePlan, PairPlan

\* The user switches to another character,
LEMMA SwitchMoves ==
    ASSUME ValuesOK, WorkOK, NEW c \in Characters, Switch(c)
    PROVE  Moves({User})
  BY UserNamed, UserPlans, StartMoves, EventIsCalm DEF Switch, Moves

\* ... deletes one,
LEMMA DeleteMoves ==
    ASSUME ValuesOK, WorkOK, NEW c \in Characters, Delete(c)
    PROVE  Moves({User})
  BY UserNamed, UserPlans, StartMoves, EventIsCalm DEF Delete, Moves, Cross

\* ... adds one.
LEMMA AddMoves ==
    ASSUME ValuesOK, WorkOK, NEW c \in Characters, Add(c)
    PROVE  Moves({User})
<1>1. CASE work' = Beside(work, Starting(User, <<<<"added", c>>, <<"cross", None>>>>))
  BY <1>1, UserNamed, UserPlans, StartMoves, EventIsCalm DEF Add, Moves, Cross
<1>2. CASE work' = work
  <2>1. User \notin DOMAIN work
    BY DEF Add, Free
  <2>2. MovesTo(work, {})
    BY NoMoves
  <2>. QED
    BY <1>2, <2>1, <2>2 DEF Moves, MovesTo
<1>. QED
  BY <1>1, <1>2 DEF Add

\* A list that opens is of a character.
LEMMA OwnerOfList ==
    ASSUME ValuesOK, NEW p \in RelevantLists, ListOwner(p) # None
    PROVE  ListOwner(p) \in Characters
<1>1. \A copy \in Copies : copy.id \in Characters \cup {None}
  BY DEF Copies
<1>2. CASE p = "characterAssets"
  <2>1. p \notin DOMAIN CrossPages /\ p \in Relevant
    BY ListPages DEF ValuesOK
  <2>2. shown[p].rows \in Copies
    BY <2>1 DEF ValuesOK, Views
  <2>. QED
    BY <1>1, <1>2, <2>2 DEF ListOwner
<1>3. CASE p # "characterAssets"
  BY <1>1, <1>3 DEF ValuesOK, ListOwner
<1>. QED
  BY <1>2, <1>3

\* A list begins to open, late if its page or the current character is excused.
LEMMA OpenMoves ==
    ASSUME ValuesOK, WorkOK, NEW p \in RelevantLists, Open(p)
    PROVE  /\ Moves({Opener})
           /\ Opener \in DOMAIN work' /\ At(Opener)' = <<"open", ListOwner(p)>>
           /\ work'[Opener].late = (excuse \cap {p, "current"} # {})
<1>1. ListOwner(p) \in Characters
  BY OwnerOfList DEF Open
<1>. DEFINE owner == ListOwner(p)
            todo == <<<<"open", owner>>>>
            late == excuse \cap {p, "current"} # {}
            first == [Doing(todo) EXCEPT !.late = late]
            new == [h \in {Opener} |-> first]
<1>2. work' = Beside(work, new)
  BY DEF Open, Opener
<1>. HIDE DEF owner, late
<1>3. Plans(Opener, todo)
  <2>1. MayDo(Opener, <<"open", owner>>)
    <3>1. Opener[1] = "open" /\ <<"open", owner>> \in {"open"} \X Characters
      BY <1>1, FirstOf DEF owner
    <3>. QED
      BY <3>1 DEF MayDo
  <2>. QED
    BY <1>1, <2>1, SectionSteps, SinglePlan DEF owner
<1>4. todo \in Seq(Steps) /\ todo[1] = <<"open", owner>> /\ late \in BOOLEAN
  BY <1>3 DEF Plans, late
<1>5. /\ first \in Routines /\ first.todo = todo /\ first.read = None /\ first.late = late
  <2>1. Doing(todo) \in Routines /\ Doing(todo).todo = todo /\ Doing(todo).read = None
    BY <1>4, DoingFacts
  <2>. HIDE DEF todo
  <2>. QED
    BY <1>4, <2>1 DEF Routines
<1>. HIDE DEF first
<1>6. DOMAIN new = {Opener} /\ new[Opener] = first
  OBVIOUS
<1>. HIDE DEF new
<1>7. Calm(todo)
  BY <1>4 DEF Calm, Dues
<1>8. MovesTo(Beside(work, new), {} \cup {Opener})
  BY <1>3, <1>5, <1>6, <1>7, NoMoves, UserNamed, BesideMoves
<1>9. Opener \in DOMAIN work' /\ work'[Opener] = first
  BY <1>2, <1>6, BesideFacts DEF Beside
<1>. QED
  BY <1>2, <1>4, <1>5, <1>8, <1>9 DEF Moves, At, owner, late

\* A mail of the current character is to be marked.
LEMMA ReadMailMoves ==
    ASSUME ValuesOK, WorkOK, ReadMail
    PROVE  /\ Moves({<<"mail", current.id>>}) /\ current.id \in Characters
           /\ current.id \in Here
<1>. DEFINE c == current.id
            g == <<"mail", c>>
            rest == Pages(<<"characterMail">>) \o <<<<"cross", None>>>>
<1>1. /\ source = "read mail" /\ c \in Here
      /\ work' = Beside(work, Starting(g, <<<<"mark", c>>>> \o Pages(<<"characterMail">>)
                                          \o <<<<"cross", None>>>>))
  BY DEF ReadMail
<1>2. c \in Characters
  BY <1>1 DEF Here
<1>3. Pages(<<"characterMail">>) \in Seq(Refreshes)
  <2>1. <<"characterMail">> \in Seq({"characterMail"})
    OBVIOUS
  <2>. QED
    BY <2>1, PagesPlan
<1>4. Pages(<<"characterMail">>) \in Seq(Steps) /\ Cross \in Steps
  <2>1. Refreshes \subseteq Steps
    BY DEF Steps
  <2>2. \A list \in Seq(Refreshes) : list \in Seq(Steps)
    BY <2>1
  <2>. QED
    BY <1>2, <1>3, <2>2, SectionSteps
<1>5. g \in Names /\ g[1] = "mail" /\ g[2] = c
  BY <1>1, <1>2 DEF Names
<1>6. MayDo(g, <<"mark", c>>)
  BY DEF MayDo
<1>7. rest \in Seq(Steps) /\ \A i \in 1..Len(rest) : rest[i] \in Refreshes \/ rest[i] = Cross
  <2>. DEFINE list == Pages(<<"characterMail">>)
  <2>1. list \in Seq(Steps) /\ \A i \in 1..Len(list) : list[i] \in Refreshes
    BY <1>3, <1>4
  <2>. HIDE DEF list
  <2>2. list \o <<Cross>> \in Seq(Steps)
    BY <1>4, <2>1
  <2>3. \A i \in 1..Len(list \o <<Cross>>) :
           (list \o <<Cross>>)[i] \in Refreshes \/ (list \o <<Cross>>)[i] = Cross
    BY <2>1
  <2>. QED
    BY <2>2, <2>3 DEF list, Cross
<1>8. <<<<"mark", c>>>> \o Pages(<<"characterMail">>) \o <<<<"cross", None>>>>
        = <<<<"mark", c>>>> \o rest
  <2>. DEFINE list == Pages(<<"characterMail">>)
              one == <<<<"mark", c>>>>
              cross == <<<<"cross", None>>>>
  <2>1. list \in Seq(Steps) /\ one \in Seq(Steps) /\ cross \in Seq(Steps)
    <3>1. \A s \in Steps : <<s>> \in Seq(Steps)
      OBVIOUS
    <3>2. <<"mark", c>> \in Steps /\ <<"cross", None>> \in Steps
      BY <1>2, SectionSteps DEF Cross
    <3>. QED
      BY <1>4, <3>1, <3>2
  <2>. HIDE DEF list, one, cross
  <2>2. (one \o list) \o cross = one \o (list \o cross)
    BY <2>1
  <2>. QED
    BY <2>2 DEF list, one, cross
<1>. HIDE DEF rest, g
<1>9. \A i \in 1..Len(rest) : MayDoLater(g, rest[i])
  BY <1>5, <1>7 DEF MayDoLater
<1>10. Plans(g, <<<<"mark", c>>>> \o rest)
  BY <1>2, <1>6, <1>7, <1>9, SectionSteps, ConsPlan
<1>11. Moves({g})
  <2>1. Calm(<<<<"mark", c>>>> \o rest)
    BY EventIsCalm DEF ReadMail
  <2>. QED
    BY <1>1, <1>5, <1>8, <1>10, <2>1, StartMoves DEF Moves
<1>. QED
  BY <1>1, <1>2, <1>11 DEF g

\* The user may go on with loading a character.
LEMMA LoadNext ==
    ASSUME WorkOK, User \in DOMAIN work, NEW c \in Characters
    PROVE  /\ Plans(User, <<<<"load", c>>>> \o Tail(work[User].todo))
           /\ Calm(<<<<"load", c>>>> \o Tail(work[User].todo))
           /\ (<<<<"load", c>>>> \o Tail(work[User].todo))[1] = <<"load", c>>
<1>. DEFINE rest == Tail(work[User].todo)
<1>1. Plans(User, work[User].todo)
  BY DEF WorkOK
<1>2. rest \in Seq(Steps) /\ \A i \in 1..Len(rest) : MayDoLater(User, rest[i])
  <2>1. work[User].todo \in Seq(Steps) /\ work[User].todo # <<>>
    BY <1>1 DEF Plans
  <2>2. rest \in Seq(Steps)
    BY <2>1
  <2>3. \A i \in 1..Len(rest) : MayDoLater(User, rest[i])
    BY <1>1, TailPlan
  <2>. QED
    BY <2>2, <2>3
<1>3. MayDo(User, <<"load", c>>)
  BY UserPlans DEF Plans
<1>. HIDE DEF rest
<1>4. Plans(User, <<<<"load", c>>>> \o rest)
  BY <1>2, <1>3, SectionSteps, ConsPlan
<1>5. (<<<<"load", c>>>> \o rest)[1] = <<"load", c>>
  BY <1>2
<1>6. Calm(<<<<"load", c>>>> \o rest)
  BY <1>5 DEF Calm, Dues
<1>. QED
  BY <1>4, <1>5, <1>6 DEF rest

\* After a deletion the user goes on, and the pages are refreshed if nobody is left.
LEMMA AnyMoves ==
    ASSUME WorkOK, setAnyCharacter
    PROVE  \E P : Moves({User} \cup ({"page"} \X (P \cap Relevant)))
<1>1. User \in DOMAIN work
  BY DEF setAnyCharacter, Does
<1>2. MovesTo(Continue(User, Tail(work[User].todo)), {User})
  BY <1>1, RestMoves
<1>3. CASE work' = Beside(Overtake(Continue(User, Tail(work[User].todo)), "reload", {"reload"}),
                          Refreshing("page", DOMAIN CharacterPages))
  <2>1. MovesTo(work', {User} \cup ({"page"} \X (DOMAIN CharacterPages \cap Relevant)))
    BY <1>2, <1>3, OvertakeMoves, PagePlans, RefreshingMoves
  <2>. QED
    BY <2>1 DEF Moves
<1>4. CASE \/ \E c \in Here : work' = Continue(User, <<<<"load", c>>>> \o Tail(work[User].todo))
           \/ work' = Continue(User, Tail(work[User].todo))
  <2>1. \A c \in Here : MovesTo(Continue(User, <<<<"load", c>>>> \o Tail(work[User].todo)), {User})
    BY <1>1, LoadNext, ContinueMoves DEF Here
  <2>2. MovesTo(work', {User})
    BY <1>2, <1>4, <2>1
  <2>3. {User} \cup ({"page"} \X ({} \cap Relevant)) = {User}
    OBVIOUS
  <2>. QED
    BY <2>2, <2>3 DEF Moves
<1>. QED
  BY <1>3, <1>4, Zenon DEF setAnyCharacter

\* After an addition the user goes on, and loads the character if there is none.
LEMMA AddedMoves ==
    ASSUME WorkOK, HasCharacter
    PROVE  /\ Moves({User}) /\ User \in DOMAIN work
           /\ \/ work' = Continue(User, <<<<"load", Its(User)>>>> \o Tail(work[User].todo))
              \/ work' = Continue(User, Tail(work[User].todo))
<1>1. User \in DOMAIN work /\ Its(User) \in Characters
  BY UserDoes DEF HasCharacter
<1>. DEFINE rest == Tail(work[User].todo)
<1>2. rest \in Seq(Steps)
  <2>1. work[User].todo \in Seq(Steps) /\ work[User].todo # <<>>
    BY <1>1 DEF WorkOK, Plans
  <2>. QED
    BY <2>1
<1>3. \/ work' = Continue(User, <<<<"load", Its(User)>>>> \o rest)
      \/ work' = Continue(User, <<>> \o rest)
  BY DEF HasCharacter
<1>. HIDE DEF rest
<1>4. <<>> \o rest = rest
  BY <1>2
<1>5. /\ MovesTo(Continue(User, <<<<"load", Its(User)>>>> \o rest), {User})
      /\ MovesTo(Continue(User, rest), {User})
  BY <1>1, LoadNext, RestMoves, ContinueMoves DEF rest
<1>. QED
  BY <1>1, <1>3, <1>4, <1>5 DEF rest, Moves

\* A choice starts the refresh of all pages about one character.
LEMMA LoadMoves ==
    ASSUME WorkOK, NEW g, Load(g)
    PROVE  Moves({User} \cup ({"page"} \X (DOMAIN CharacterPages \cap Relevant)))
<1>1. g \in DOMAIN work /\ g = User
  BY UserDoes DEF Load
<1>2. work' = Beside(Overtake(Continue(User, Tail(work[User].todo)), "reload", {"reload"}),
                     Refreshing("page", DOMAIN CharacterPages))
  BY <1>1 DEF Load
<1>3. MovesTo(work', {User} \cup ({"page"} \X (DOMAIN CharacterPages \cap Relevant)))
  BY <1>1, <1>2, RestMoves, OvertakeMoves, PagePlans, RefreshingMoves
<1>. QED
  BY <1>3 DEF Moves

\* A refresh of a page ends.
LEMMA ShowMoves ==
    ASSUME WorkOK, NEW g, Show(g)
    PROVE  Moves({g})
<1>1. g \in DOMAIN work
  BY DEF Show, Does
<1>. QED
  BY <1>1, RestMoves, OvertakeMoves DEF Show, Moves

\* A list has opened.
LEMMA ShowListMoves ==
    ASSUME WorkOK, NEW g, ShowList(g)
    PROVE  Moves({g})
<1>1. g \in DOMAIN work
  BY DEF ShowList, Does
<1>. QED
  BY <1>1, EndMoves DEF ShowList, Moves

\* A reload ends.
LEMMA ReloadMoves ==
    ASSUME WorkOK, NEW g, Reload(g)
    PROVE  Moves({g})
<1>1. g \in DOMAIN work
  BY DEF Reload, Does
<1>. QED
  BY <1>1, RestMoves, OvertakeMoves DEF Reload, Moves

\* A goroutine reads something that it may read.
LEMMA ReadLooks ==
    ASSUME WorkOK, NEW g \in DOMAIN work, NEW r, MayHaveRead(At(g), r), r \in Readings,
           work' = [work EXCEPT ![g].read = r]
    PROVE  Looks(g) /\ work'[g].read = r /\ work'[g].late = work[g].late
<1>1. work[g] \in Routines /\ \A h \in DOMAIN work : work[h] \in Routines
  BY DEF WorkOK
<1>. DEFINE t == [work[g] EXCEPT !.read = r]
<1>2. t \in Routines /\ t.todo = work[g].todo /\ t.late = work[g].late /\ t.read = r
  BY <1>1 DEF Routines
<1>3. work' = [work EXCEPT ![g] = t]
  OBVIOUS
<1>. HIDE DEF t
<1>4. /\ DOMAIN work' = DOMAIN work /\ work'[g] = t
      /\ \A h \in DOMAIN work \ {g} : work'[h] = work[h]
  BY <1>3 DEF WorkOK
<1>5. work' \in [DOMAIN work' -> Routines]
  BY <1>1, <1>2, <1>3 DEF WorkOK
<1>. QED
  BY <1>2, <1>4, <1>5 DEF Looks, GoesOn

\* What is read of a character is of that character, or nothing when it is not there.
LEMMA CharacterRead ==
    ASSUME ValuesOK, NEW c \in Characters
    PROVE  /\ GetCharacter(c) \in Copies /\ [id |-> c, ver |-> data[c]] \in Copies
           /\ NoCharacter \in Copies
           /\ data[c] # None => GetCharacter(c).id = c
           /\ data[c] = None => GetCharacter(c) = NoCharacter
<1>1. data[c] \in Versions
  BY DEF ValuesOK
<1>2. [id |-> c, ver |-> data[c]] \in Copies /\ NoCharacter \in Copies
  BY <1>1 DEF Copies, Versions, NoCharacter
<1>3. CASE data[c] = None
  BY <1>2, <1>3 DEF GetCharacter
<1>4. CASE data[c] # None
  <2>1. GetCharacter(c) = [id |-> c, ver |-> data[c]]
    BY <1>4 DEF GetCharacter
  <2>2. GetCharacter(c).id = c
    BY <2>1
  <2>3. GetCharacter(c) \in Copies
    BY <1>2, <2>1
  <2>. QED
    BY <1>2, <1>4, <2>2, <2>3
<1>. QED
  BY <1>2, <1>3, <1>4

\* What a page reads about one character is of the current one.
LEMMA ViewRead ==
    ASSUME ValuesOK, NEW p \in Relevant
    PROVE  /\ View(p) \in Views(p) /\ View(p) \in Readings
           /\ View(p).copy = current
           /\ p \notin DOMAIN CrossPages => View(p).rows.id = current.id
<1>. DEFINE one == IF current.id = None THEN NoCharacter
                   ELSE [id |-> current.id, ver |-> data[current.id]]
            rows == IF p \in DOMAIN CrossPages THEN data ELSE one
            all == IF p \in DOMAIN CrossPages THEN [Characters -> Versions] ELSE Copies
<1>1. one \in Copies /\ one.id = current.id
  <2>1. CASE current.id = None
    BY <2>1 DEF NoCharacter, Copies
  <2>2. CASE current.id # None
    <3>1. current.id \in Characters
      BY <2>2 DEF ValuesOK, Copies
    <3>. QED
      BY <2>2, <3>1, CharacterRead
  <2>. QED
    BY <2>1, <2>2
<1>2. View(p) = [rows |-> rows, copy |-> current] /\ Views(p) = [rows : all, copy : Copies]
  BY DEF View, Views
<1>3. current \in Copies /\ data \in [Characters -> Versions]
  BY DEF ValuesOK
<1>. HIDE DEF one
<1>4. rows \in all /\ (p \notin DOMAIN CrossPages => rows.id = current.id)
  BY <1>1, <1>3
<1>. HIDE DEF rows, all
<1>5. View(p) \in Views(p) /\ View(p).copy = current /\ View(p).rows = rows
  BY <1>2, <1>3, <1>4
<1>. QED
  BY <1>4, <1>5 DEF Readings

\* A read of a character: a reload reads the current one, or that there is none.
LEMMA ReadReads ==
    ASSUME ValuesOK, WorkOK, NEW g, Read(g), Does(g, "load") => data[Its(g)] # None
    PROVE  /\ g \in DOMAIN work /\ Looks(g) /\ work'[g].late = work[g].late
           /\ Does(g, "load") \/ Does(g, "open") \/ Does(g, "reload")
           /\ Does(g, "reload") => work'[g].read.id = current.id \/ work'[g].read = NoCharacter
<1>1. g \in DOMAIN work /\ Its(g) = At(g)[2]
  BY Doer DEF Read, Does
<1>2. ASSUME NEW r \in Copies, MayHaveRead(At(g), r), work' = [work EXCEPT ![g].read = r]
      PROVE  Looks(g) /\ work'[g].read = r /\ work'[g].late = work[g].late
  <2>1. r \in Readings
    BY <1>2 DEF Readings
  <2>. QED
    BY <1>1, <1>2, <2>1, ReadLooks
<1>3. CASE Does(g, "reload") /\ current.id # None
  <2>1. current.id \in Characters
    BY <1>3 DEF ValuesOK, Copies
  <2>2. /\ GetCharacter(current.id) \in Copies
        /\ GetCharacter(current.id).id = current.id \/ GetCharacter(current.id) = NoCharacter
    BY <2>1, CharacterRead
  <2>3. At(g)[1] = "reload"
    BY <1>3 DEF Does, At
  <2>4. MayHaveRead(At(g), GetCharacter(current.id))
    BY <2>2, <2>3 DEF MayHaveRead
  <2>5. ~Does(g, "page") /\ ~Does(g, "load") /\ ~Does(g, "open")
    BY <2>3 DEF Does, At
  <2>6. work' = [work EXCEPT ![g].read = GetCharacter(current.id)]
    BY <1>3, <2>5 DEF Read, Reading
  <2>. QED
    BY <1>1, <1>2, <1>3, <2>2, <2>4, <2>6
<1>4. CASE Does(g, "load")
  <2>1. Its(g) \in Characters /\ At(g)[1] = "load"
    BY <1>4, UserDoes DEF Does, At
  <2>2. /\ GetCharacter(Its(g)) \in Copies /\ GetCharacter(Its(g)).id = Its(g)
    BY <1>4, <2>1, CharacterRead
  <2>3. MayHaveRead(At(g), GetCharacter(Its(g)))
    BY <1>1, <2>1, <2>2 DEF MayHaveRead
  <2>4. ~Does(g, "page") /\ ~Does(g, "reload") /\ ~Does(g, "open")
    BY <2>1 DEF Does, At
  <2>5. work' = [work EXCEPT ![g].read = GetCharacter(Its(g))]
    BY <1>4, <2>4 DEF Read, Reading
  <2>. QED
    BY <1>1, <1>2, <1>4, <2>2, <2>3, <2>4, <2>5
<1>5. CASE Does(g, "open")
  <2>. DEFINE r == [id |-> Its(g), ver |-> data[Its(g)]]
  <2>1. Its(g) \in Characters /\ At(g)[1] = "open"
    BY <1>5, OpenerDoes DEF Does, At
  <2>2. r \in Copies /\ r.id = Its(g)
    BY <2>1, CharacterRead
  <2>3. ~Does(g, "page") /\ ~Does(g, "reload") /\ ~Does(g, "load")
    BY <2>1 DEF Does, At
  <2>4. work' = [work EXCEPT ![g].read = r]
    BY <1>5, <2>3 DEF Read, Reading
  <2>. HIDE DEF r
  <2>5. MayHaveRead(At(g), r)
    BY <1>1, <2>1, <2>2 DEF MayHaveRead
  <2>. QED
    BY <1>1, <1>2, <1>5, <2>2, <2>3, <2>4, <2>5
<1>. QED
  BY <1>3, <1>4, <1>5 DEF Read

\* A page that reads has closed its list, and a list that is opening is late.
LEMMA ReadPageReads ==
    ASSUME ValuesOK, WorkOK, NEW g, ReadPage(g)
    PROVE  /\ g \in DOMAIN work /\ Looks(g) /\ Does(g, "page")
           /\ work'[g].read = View(Its(g))
           /\ Closes(g) /\ Opener \in DOMAIN work /\ work[Opener].read # None => work'[Opener].late
<1>1. /\ g \in DOMAIN work /\ At(g)[1] = "page" /\ Its(g) = At(g)[2] /\ Its(g) \in Relevant
  BY Doer, PageDoes DEF ReadPage, Does, At
<1>. DEFINE r == View(Its(g))
            w == [work EXCEPT ![g].read = r]
<1>2. r \in Views(Its(g)) /\ r \in Readings
  BY <1>1, ViewRead
<1>3. MayHaveRead(At(g), r)
  BY <1>1, <1>2 DEF MayHaveRead
<1>4. work' = IF Closes(g) THEN Overtake(w, "open", Characters) ELSE w
  BY DEF ReadPage
<1>5. work[g] \in Routines /\ \A h \in DOMAIN work : work[h] \in Routines
  BY <1>1 DEF WorkOK
<1>. DEFINE t == [work[g] EXCEPT !.read = r]
<1>6. t \in Routines /\ t.todo = work[g].todo /\ t.late = work[g].late /\ t.read = r
  <2>. HIDE DEF r
  <2>. QED
    BY <1>2, <1>5 DEF Routines
<1>7. w = [work EXCEPT ![g] = t]
  OBVIOUS
<1>. HIDE DEF t
<1>8. /\ DOMAIN w = DOMAIN work /\ w[g] = t /\ w \in [DOMAIN w -> Routines]
      /\ \A h \in DOMAIN work \ {g} : w[h] = work[h]
  <2>1. work \in [DOMAIN work -> Routines]
    BY DEF WorkOK
  <2>. QED
    BY <1>1, <1>6, <1>7, <2>1
<1>. HIDE DEF r, w
<1>9. /\ DOMAIN work' = DOMAIN w /\ work' \in [DOMAIN work' -> Routines]
      /\ \A h \in DOMAIN w : GoesOn(w, work', h)
  <2>1. CASE Closes(g)
    <3>1. Overtake(w, "open", Characters) \in [DOMAIN w -> Routines]
      BY <1>8, OvertakeFacts
    <3>2. \A h \in DOMAIN w : GoesOn(w, Overtake(w, "open", Characters), h)
      BY <1>8, OvertakeFacts
    <3>. QED
      BY <1>4, <2>1, <3>1, <3>2
  <2>2. CASE ~Closes(g)
    BY <1>4, <1>8, <2>2 DEF GoesOn
  <2>. QED
    BY <2>1, <2>2
<1>10. Looks(g) /\ work'[g].read = r
  BY <1>1, <1>3, <1>6, <1>8, <1>9 DEF Looks, GoesOn
<1>11. ASSUME Closes(g), Opener \in DOMAIN work, work[Opener].read # None
       PROVE  work'[Opener].late
  <2>1. At(Opener)[1] = "open" /\ At(Opener)[2] \in Characters /\ Opener # g
    BY <1>1, <1>11, NamedDo
  <2>2. /\ Opener \in DOMAIN w /\ w[Opener].todo[1][1] = "open"
        /\ w[Opener].todo[1][2] \in Characters /\ w[Opener].read # None
    BY <1>8, <1>11, <2>1 DEF At
  <2>3. Overtake(w, "open", Characters)[Opener].late
    BY <1>8, <2>2, OvertakeFacts
  <2>. QED
    BY <1>4, <1>11, <2>3
<1>. QED
  BY <1>1, <1>10, <1>11 DEF r, ReadPage

\* A failing read: a page goes on, a reload has lost the character, no list opens.
FailedPage(g) ==
    /\ Does(g, "page")
    /\ excuse' = excuse \cup {Its(g)}
    /\ work' = Overtake(Overtake(Continue(g, Tail(work[g].todo)), "page", {Its(g)}),
                        "open", IF Closes(g) THEN Characters ELSE {})
    /\ Close(g)
FailedReload(g) ==
    /\ Does(g, "reload") /\ current.id # None
    /\ work' = [work EXCEPT ![g].read = NoCharacter]
    /\ UNCHANGED <<opened, excuse>>
FailedOpen(g) ==
    /\ Does(g, "open")
    /\ opened' = IF "characterSkillCatalogue" \in Relevant THEN opened ELSE NoCharacter
    /\ work' = Continue(g, <<>>)
    /\ UNCHANGED excuse

\* The three kinds of failing reads.
LEMMA FailKinds ==
    ASSUME NEW g, Fail(g)
    PROVE  /\ FailedPage(g) \/ FailedReload(g) \/ FailedOpen(g)
           /\ Happens /\ NotYetRead(g) /\ UNCHANGED <<source, data, current, shown, chosen>>
  BY DEF Fail, FailedPage, FailedReload, FailedOpen

\* How each of them moves.
LEMMA FailedMoves ==
    ASSUME WorkOK, NEW g
    PROVE  /\ FailedPage(g) => Moves({g})
           /\ FailedOpen(g) => Moves({g})
           /\ FailedReload(g) => Looks(g) /\ work'[g].read = NoCharacter
<1>1. ASSUME FailedPage(g) PROVE Moves({g})
  <2>1. g \in DOMAIN work
    BY <1>1 DEF FailedPage, Does
  <2>. QED
    BY <1>1, <2>1, RestMoves, OvertakeMoves DEF FailedPage, Moves
<1>2. ASSUME FailedOpen(g) PROVE Moves({g})
  <2>1. g \in DOMAIN work
    BY <1>2 DEF FailedOpen, Does
  <2>. QED
    BY <1>2, <2>1, EndMoves DEF FailedOpen, Moves
<1>3. ASSUME FailedReload(g) PROVE Looks(g) /\ work'[g].read = NoCharacter
  <2>1. g \in DOMAIN work /\ At(g)[1] = "reload"
    BY <1>3 DEF FailedReload, Does, At
  <2>2. NoCharacter \in Copies
    BY DEF NoCharacter, Copies
  <2>3. MayHaveRead(At(g), NoCharacter) /\ NoCharacter \in Readings
    BY <2>1, <2>2 DEF MayHaveRead, Readings
  <2>. QED
    BY <1>3, <2>1, <2>3, ReadLooks DEF FailedReload
<1>. QED
  BY <1>1, <1>2, <1>3

----------------------------------------------------------------------------
(* The versions in the database *)

\* Goroutine g is about to change the data of c.
IsDue(g, c) ==
    \/ At(g)[1] \in {"update", "mark"} /\ At(g)[2] = c
    \/ At(g)[1] = "update general" /\ At(g)[2] = source
Due(c) == \E g \in DOMAIN work : IsDue(g, c)
Changer(c) ==
    IF source \in Sections THEN <<"section", c>>
    ELSE IF source = "read mail" THEN <<"mail", c>> ELSE <<"general", source>>
\* No version is beyond the events, and one event is left for a change that is due.
VersionsFit ==
    \A c \in Characters : data[c] # None => data[c] <= events /\ (Due(c) => data[c] < events)

\* The three kinds of sources have different names.
LEMMA SourceKinds ==
    /\ \A s \in Sections : s # "read mail" /\ s # "re-add" /\ s \notin GeneralSections
    /\ "read mail" \notin GeneralSections /\ "re-add" \notin GeneralSections
    /\ "re-add" \notin Sections /\ "read mail" # "re-add"
  BY DEF Sections, GeneralSections

\* What is about to change a character is one goroutine, which its source names.
LEMMA DueByChanger ==
    ASSUME WorkOK, NEW g \in DOMAIN work, NEW c, IsDue(g, c)
    PROVE  g = Changer(c) /\ source # "re-add" /\ At(g)[1] \in Dues
<1>1. Its(g) = At(g)[2]
  BY Doer
<1>2. CASE At(g)[1] = "update" /\ At(g)[2] = c
  <2>1. Does(g, "update")
    BY <1>2 DEF Does, At
  <2>2. g = <<"section", c>> /\ source \in Sections
    BY <1>1, <1>2, <2>1, SectionDoes
  <2>. QED
    BY <1>2, <2>2, SourceKinds DEF Changer, Dues
<1>3. CASE At(g)[1] = "mark" /\ At(g)[2] = c
  <2>1. Does(g, "mark")
    BY <1>3 DEF Does, At
  <2>2. g = <<"mail", c>> /\ source = "read mail"
    BY <1>1, <1>3, <2>1, MailDoes
  <2>. QED
    BY <1>3, <2>2, SourceKinds DEF Changer, Dues
<1>4. CASE At(g)[1] = "update general" /\ At(g)[2] = source
  <2>1. Does(g, "update general")
    BY <1>4 DEF Does, At
  <2>2. g = <<"general", source>> /\ source \in GeneralSections
    BY <1>1, <1>4, <2>1, GeneralDoes
  <2>. QED
    BY <1>4, <2>2, SourceKinds DEF Changer, Dues
<1>. QED
  BY <1>2, <1>3, <1>4 DEF IsDue

\* Without an event nothing becomes due, and who has moved is not due,
LEMMA MovesDue ==
    ASSUME WorkOK, Frame, NEW N, Moves(N), events' = events, NEW c, Due(c)'
    PROVE  Due(c) /\ Changer(c) \notin N
<1>1. PICK h \in DOMAIN work' : IsDue(h, c)'
  BY DEF Due
<1>2. At(h)'[1] \in Dues
  BY <1>1 DEF IsDue, Dues
<1>3. h \notin N
  BY <1>1, <1>2 DEF Moves, MovesTo, Calm, At
<1>4. h \in DOMAIN work /\ At(h)' = At(h)
  BY <1>1, <1>3 DEF Moves, MovesTo, GoesOn, At
<1>5. IsDue(h, c)
  BY <1>1, <1>4 DEF IsDue, Frame
<1>. QED
  BY <1>3, <1>4, <1>5, DueByChanger DEF Due

\* ... nor does it when somebody reads.
LEMMA LooksDue ==
    ASSUME Frame, NEW g, Looks(g), NEW c, Due(c)'
    PROVE  Due(c)
<1>1. PICK h \in DOMAIN work' : IsDue(h, c)'
  BY DEF Due
<1>2. h \in DOMAIN work /\ At(h)' = At(h)
  BY <1>1 DEF Looks, GoesOn, At
<1>3. IsDue(h, c)
  BY <1>1, <1>2 DEF IsDue, Frame
<1>. QED
  BY <1>2, <1>3 DEF Due

\* The versions still fit when nothing is written.
LEMMA SameFit ==
    ASSUME WorkOK, VersionsFit, Frame, data' = data, events' = events,
           (\E N : Moves(N)) \/ (\E g : Looks(g))
    PROVE  VersionsFit'
<1>1. \A c : Due(c)' => Due(c)
  BY MovesDue, LooksDue
<1>. QED
  BY <1>1 DEF VersionsFit

\* ... and when an event is counted.
LEMMA EventFits ==
    ASSUME ValuesOK, VersionsFit, Frame, Happens,
           \A c \in Characters : data'[c] \in {data[c], 0, None}
    PROVE  VersionsFit'
<1>1. events \in Nat /\ events' = events + 1
  <2>1. MaxEvents \in Nat
    BY Bounds DEF ValuesOK
  <2>. QED
    BY <2>1 DEF ValuesOK, Happens
<1>2. ASSUME NEW c \in Characters, data'[c] # None PROVE data'[c] \in Int /\ data'[c] <= events
  <2>1. CASE data'[c] = data[c]
    <3>1. data[c] \in 0..MaxEvents /\ data[c] <= events
      BY <1>2, <2>1 DEF ValuesOK, Versions, VersionsFit
    <3>. QED
      BY <2>1, <3>1
  <2>2. CASE data'[c] = 0
    BY <1>1, <2>2
  <2>. QED
    BY <1>2, <2>1, <2>2
<1>. QED
  BY <1>1, <1>2 DEF VersionsFit

\* A goroutine of N writes the change that was due.
Changes(N) ==
    /\ data' = [c \in Characters |-> data'[c]]
    /\ \A c \in Characters :
         \/ data'[c] = data[c]
         \/ data[c] # None /\ Due(c) /\ Changer(c) \in N /\ data'[c] = data[c] + 1

\* A change by the one who was due leaves no version beyond the events.
LEMMA ChangeFits ==
    ASSUME ValuesOK, WorkOK, VersionsFit, Frame, events' = events, NEW N, Moves(N), Changes(N)
    PROVE  VersionsFit' /\ data' \in [Characters -> Versions]
<1>1. events \in 0..MaxEvents /\ MaxEvents \in Nat
  BY Bounds DEF ValuesOK
<1>2. ASSUME NEW c \in Characters
      PROVE  /\ data'[c] \in Versions
             /\ data'[c] # None => data'[c] <= events /\ (Due(c)' => data'[c] < events)
  <2>1. CASE data'[c] = data[c]
    BY <1>2, <2>1, MovesDue DEF ValuesOK, VersionsFit
  <2>2. CASE data[c] # None /\ Due(c) /\ Changer(c) \in N /\ data'[c] = data[c] + 1
    <3>1. data[c] \in 0..MaxEvents /\ data[c] < events
      BY <1>2, <2>2 DEF ValuesOK, Versions, VersionsFit
    <3>2. ~Due(c)'
      BY <2>2, MovesDue
    <3>. QED
      BY <1>1, <2>2, <3>1, <3>2 DEF Versions
  <2>. QED
    BY <1>2, <2>1, <2>2 DEF Changes
<1>3. data' \in [Characters -> Versions]
  BY <1>2 DEF Changes
<1>. QED
  BY <1>1, <1>2, <1>3 DEF VersionsFit

\* An update changes what it was due to change,
LEMMA UpdateChanges ==
    ASSUME ValuesOK, WorkOK, NEW g, Update(g)
    PROVE  Changes({g}) /\ \A c \in Characters : data'[c] \in {data[c], data[c] + 1}
<1>1. /\ g \in DOMAIN work /\ g = <<"section", Its(g)>> /\ Its(g) \in Characters
      /\ source \in Sections
  BY SectionDoes DEF Update
<1>2. data \in [Characters -> Versions]
  BY DEF ValuesOK
<1>3. CASE data' = data
  BY <1>2, <1>3 DEF Changes
<1>4. CASE data[Its(g)] # None /\ data' = [data EXCEPT ![Its(g)] = @ + 1]
  <2>1. At(g)[1] = "update" /\ Its(g) = At(g)[2]
    BY Doer, <1>1 DEF Update, Does, At
  <2>2. Due(Its(g)) /\ Changer(Its(g)) = g
    BY <1>1, <2>1 DEF IsDue, Due, Changer
  <2>. QED
    BY <1>1, <1>2, <1>4, <2>2 DEF Changes
<1>. QED
  BY <1>3, <1>4 DEF Update, WritesOrNot

\* ... as marking a mail does,
LEMMA MarkChanges ==
    ASSUME ValuesOK, WorkOK, NEW g, Mark(g)
    PROVE  Changes({g}) /\ \A c \in Characters : data'[c] \in {data[c], data[c] + 1}
<1>1. /\ g \in DOMAIN work /\ g = <<"mail", Its(g)>> /\ Its(g) \in Characters
      /\ source = "read mail"
  BY MailDoes DEF Mark
<1>2. data \in [Characters -> Versions]
  BY DEF ValuesOK
<1>3. CASE data' = data
  BY <1>2, <1>3 DEF Changes
<1>4. CASE data[Its(g)] # None /\ data' = [data EXCEPT ![Its(g)] = @ + 1]
  <2>1. At(g)[1] = "mark" /\ Its(g) = At(g)[2]
    BY Doer, <1>1 DEF Mark, Does, At
  <2>2. Due(Its(g)) /\ Changer(Its(g)) = g
    BY <1>1, <2>1, SourceKinds DEF IsDue, Due, Changer
  <2>. QED
    BY <1>1, <1>2, <1>4, <2>2 DEF Changes
<1>. QED
  BY <1>3, <1>4 DEF Mark, WritesOrNot

\* ... and the update of a general section.
LEMMA UpdateGeneralChanges ==
    ASSUME ValuesOK, WorkOK, NEW g, UpdateGeneral(g)
    PROVE  Changes({g}) /\ \A c \in Characters : data'[c] \in {data[c], data[c] + 1}
<1>1. /\ g \in DOMAIN work /\ g = <<"general", Its(g)>> /\ Its(g) \in GeneralSections
  BY GeneralDoes DEF UpdateGeneral
<1>2. data \in [Characters -> Versions]
  BY DEF ValuesOK
<1>3. CASE data' = data
  BY <1>2, <1>3 DEF Changes
<1>4. ASSUME NEW S \in SUBSET Here,
             data' = [c \in Characters |-> IF c \in S /\ Its(g) = source THEN data[c] + 1
                                          ELSE data[c]]
      PROVE  Changes({g}) /\ \A c \in Characters : data'[c] \in {data[c], data[c] + 1}
  <2>1. At(g)[1] = "update general" /\ Its(g) = At(g)[2]
    BY Doer, <1>1 DEF UpdateGeneral, Does, At
  <2>2. ASSUME NEW c \in Characters, Its(g) = source
        PROVE  Due(c) /\ Changer(c) = g
    BY <1>1, <2>1, <2>2, SourceKinds DEF IsDue, Due, Changer
  <2>3. ASSUME NEW c \in Characters
        PROVE  \/ data'[c] = data[c]
               \/ data[c] # None /\ Its(g) = source /\ data'[c] = data[c] + 1
    BY <1>4 DEF Here
  <2>4. data' = [c \in Characters |-> data'[c]]
    BY <1>4
  <2>. QED
    BY <2>2, <2>3, <2>4 DEF Changes
<1>5. \/ data' = data
      \/ \E S \in SUBSET Here :
           data' = [c \in Characters |-> IF c \in S /\ Its(g) = source THEN data[c] + 1
                                        ELSE data[c]]
  <2>1. Here \in SUBSET Here
    OBVIOUS
  <2>. QED
    BY <2>1, Zenon DEF UpdateGeneral
<1>. QED
  BY <1>3, <1>4, <1>5

----------------------------------------------------------------------------
(* Every action keeps the types and the versions *)

Fits == TypeInv /\ VersionsFit
\* What the values of the other variables must be.
LEMMA ValuesKept ==
    ASSUME ValuesOK, Frame, data' \in [Characters -> Versions], current' \in Copies,
           opened' \in Copies, \A p \in Relevant : shown'[p] \in Views(p),
           events' \in 0..MaxEvents, chosen' \in Characters \cup {None},
           excuse' \subseteq Relevant \cup {"current", "list"}
    PROVE  ValuesOK'
<1>1. /\ Versions' = Versions /\ Copies' = Copies /\ MaxEvents' = MaxEvents
      /\ Relevant' = Relevant /\ \A p : Views(p)' = Views(p) /\ source' \in Sources
  BY SameSets DEF Frame, ValuesOK
<1>. QED
  BY <1>1 DEF ValuesOK

\* There are never more events than the limit.
LEMMA EventCounted ==
    ASSUME ValuesOK, Happens
    PROVE  events' \in 0..MaxEvents
  BY Bounds DEF ValuesOK, Happens

\* Actions of which only goroutines and events are changed.
LEMMA OnlyWork ==
    ASSUME Fits, UNCHANGED <<source, data, current, shown, opened, chosen, excuse>>,
           Happens \/ events' = events, (\E N : Moves(N)) \/ (\E g : Looks(g))
    PROVE  Fits' /\ Frame
<1>1. Frame
  BY DEF Frame
<1>2. WorkOK'
  BY <1>1, MovesWork, LooksWork DEF Fits, TypeInv
<1>3. events' \in 0..MaxEvents
  BY EventCounted DEF Fits, TypeInv, ValuesOK
<1>4. ValuesOK'
  BY <1>1, <1>3, ValuesKept DEF Fits, TypeInv, ValuesOK
<1>5. VersionsFit'
  BY <1>1, SameFit, EventFits DEF Fits, TypeInv
<1>. QED
  BY <1>1, <1>2, <1>4, <1>5 DEF Fits, TypeInv

\* Types and versions are kept by the start of an update,
LEMMA CheckFits ==
    ASSUME Fits, NEW c \in Characters, Check(c)
    PROVE  Fits' /\ Frame
  BY CheckMoves, OnlyWork DEF Check, Fits, TypeInv

\* ... of an update of a general section,
LEMMA CheckGeneralFits ==
    ASSUME Fits, NEW s \in GeneralSections, CheckGeneral(s)
    PROVE  Fits' /\ Frame
  BY CheckGeneralMoves, OnlyWork DEF CheckGeneral, Fits, TypeInv

\* ... of a choice,
LEMMA SwitchFits ==
    ASSUME Fits, NEW c \in Characters, Switch(c)
    PROVE  Fits' /\ Frame
  BY SwitchMoves, OnlyWork DEF Switch, Fits, TypeInv

\* ... of the opening of a list,
LEMMA OpenFits ==
    ASSUME Fits, NEW p \in RelevantLists, Open(p)
    PROVE  Fits' /\ Frame
  BY OpenMoves, OnlyWork DEF Open, Fits, TypeInv

\* ... of the reading of a mail;
LEMMA ReadMailFits ==
    ASSUME Fits, ReadMail
    PROVE  Fits' /\ Frame
  BY ReadMailMoves, OnlyWork DEF ReadMail, Fits, TypeInv

\* ... by the refreshes after an update,
LEMMA AskFits ==
    ASSUME Fits, NEW g, Ask(g)
    PROVE  Fits' /\ Frame
<1>1. \E N : Moves(N)
  BY AskMoves DEF Fits, TypeInv
<1>. QED
  BY <1>1, OnlyWork DEF Ask

\* ... by those of the pages about all characters,
LEMMA UpdateCrossFits ==
    ASSUME Fits, NEW g, UpdateCrossPages(g)
    PROVE  Fits' /\ Frame
<1>1. \E N : Moves(N)
  BY UpdateCrossMoves DEF Fits, TypeInv
<1>. QED
  BY <1>1, OnlyWork DEF UpdateCrossPages

\* ... by what follows an addition,
LEMMA AddedFits ==
    ASSUME Fits, HasCharacter
    PROVE  Fits' /\ Frame
<1>1. \E N : Moves(N)
  BY AddedMoves DEF Fits, TypeInv
<1>. QED
  BY <1>1, OnlyWork DEF HasCharacter

\* ... and by a read, of a character that is there.
LEMMA ReadFits ==
    ASSUME Fits, NEW g, Read(g), Does(g, "load") => data[Its(g)] # None
    PROVE  Fits' /\ Frame
<1>1. Looks(g)
  BY ReadReads DEF Fits, TypeInv
<1>. QED
  BY <1>1, OnlyWork DEF Read

\* A change of the database.
LEMMA ChangedData ==
    ASSUME Fits, UNCHANGED <<source, current, shown, opened, events, chosen, excuse>>,
           NEW N, Moves(N), Changes(N)
    PROVE  Fits' /\ Frame
<1>1. Frame
  BY DEF Frame
<1>2. VersionsFit' /\ data' \in [Characters -> Versions]
  BY <1>1, ChangeFits DEF Fits, TypeInv
<1>3. WorkOK'
  BY <1>1, MovesWork DEF Fits, TypeInv
<1>4. ValuesOK'
  BY <1>1, <1>2, ValuesKept DEF Fits, TypeInv, ValuesOK
<1>. QED
  BY <1>1, <1>2, <1>3, <1>4 DEF Fits, TypeInv

\* They are kept by an update, whose version is within the events,
LEMMA UpdateFits ==
    ASSUME Fits, NEW g, Update(g)
    PROVE  Fits' /\ Frame
  BY UpdateMoves, UpdateChanges, ChangedData DEF Update, Fits, TypeInv

\* ... by the mark of a mail,
LEMMA MarkFits ==
    ASSUME Fits, NEW g, Mark(g)
    PROVE  Fits' /\ Frame
  BY MarkMoves, MarkChanges, ChangedData DEF Mark, Fits, TypeInv

\* ... and by an update of a general section.
LEMMA UpdateGeneralFits ==
    ASSUME Fits, NEW g, UpdateGeneral(g)
    PROVE  Fits' /\ Frame
  BY UpdateGeneralMoves, UpdateGeneralChanges, ChangedData DEF UpdateGeneral, Fits, TypeInv

\* Actions that leave the database alone.
LEMMA SameData ==
    ASSUME Fits, Frame, data' = data, Happens \/ events' = events,
           (\E N : Moves(N)) \/ (\E g : Looks(g)),
           current' \in Copies, opened' \in Copies,
           \A p \in Relevant : shown'[p] \in Views(p),
           chosen' \in Characters \cup {None},
           excuse' \subseteq Relevant \cup {"current", "list"}
    PROVE  Fits'
<1>1. WorkOK'
  BY MovesWork, LooksWork DEF Fits, TypeInv
<1>2. events' \in 0..MaxEvents
  BY EventCounted DEF Fits, TypeInv, ValuesOK
<1>3. ValuesOK'
  BY <1>2, ValuesKept DEF Fits, TypeInv, ValuesOK
<1>4. VersionsFit'
  BY SameFit, EventFits DEF Fits, TypeInv
<1>. QED
  BY <1>1, <1>3, <1>4 DEF Fits, TypeInv

\* They are kept by a deletion, after which no version is left,
LEMMA DeleteFits ==
    ASSUME Fits, NEW c \in Characters, Delete(c)
    PROVE  Fits' /\ Frame
<1>1. Frame
  BY DEF Delete, Frame
<1>2. data' \in [Characters -> Versions] /\ \A d \in Characters : data'[d] \in {data[d], 0, None}
  BY DEF Delete, Fits, TypeInv, ValuesOK, Versions
<1>3. WorkOK'
  BY <1>1, DeleteMoves, MovesWork DEF Fits, TypeInv
<1>4. VersionsFit'
  BY <1>1, <1>2, EventFits DEF Delete, Fits, TypeInv
<1>5. events' \in 0..MaxEvents
  BY EventCounted DEF Delete, Fits, TypeInv
<1>6. ValuesOK'
  BY <1>1, <1>2, <1>5, ValuesKept DEF Delete, Fits, TypeInv, ValuesOK
<1>. QED
  BY <1>1, <1>3, <1>4, <1>6 DEF Fits, TypeInv

\* ... and by an addition, which is an event of its own.
LEMMA AddFits ==
    ASSUME Fits, NEW c \in Characters, Add(c)
    PROVE  Fits' /\ Frame
<1>1. Frame
  BY DEF Add, Frame
<1>2. data \in [Characters -> Versions] /\ events \in 0..MaxEvents /\ MaxEvents \in Nat
  BY Bounds DEF Fits, TypeInv, ValuesOK
<1>3. events' = events + 1 /\ events < MaxEvents
  BY DEF Add, Happens
<1>4. WorkOK'
  BY <1>1, AddMoves, MovesWork DEF Fits, TypeInv
<1>5. data' = [data EXCEPT ![c] = IF c \in Here THEN data[c] + 1 ELSE 0]
  BY <1>2 DEF Add
<1>6. c \in Here => data[c] \in 0..MaxEvents /\ data[c] <= events /\ source = "re-add"
  BY <1>2 DEF Here, Add, Fits, VersionsFit, Versions
<1>7. data' \in [Characters -> Versions]
  BY <1>2, <1>3, <1>5, <1>6 DEF Versions
<1>8. VersionsFit'
  <2>1. CASE c \in Here
    <3>1. \A d : ~Due(d)'
      <4>1. ASSUME NEW d, Due(d)' PROVE FALSE
        <5>1. PICK g \in DOMAIN work' : IsDue(g, d)'
          BY <4>1 DEF Due
        <5>2. CASE g = User
          <6>1. Plans(User, work'[User].todo)
            BY <5>1, <5>2, AddMoves DEF Fits, TypeInv, Moves, MovesTo
          <6>2. MayDo(User, At(User)')
            BY <6>1 DEF Plans, At
          <6>3. At(User)'[1] \notin Dues
            BY <6>2, UserNamed, WhoMay, FirstOf DEF Dues
          <6>. QED
            BY <5>1, <5>2, <6>3 DEF IsDue, Dues
        <5>3. CASE g # User
          <6>1. g \in DOMAIN work /\ At(g)' = At(g)
            BY <5>1, <5>3, AddMoves DEF Fits, TypeInv, Moves, MovesTo, GoesOn, At
          <6>2. IsDue(g, d)
            BY <1>1, <5>1, <6>1 DEF IsDue, Frame
          <6>. QED
            BY <1>6, <2>1, <6>1, <6>2, DueByChanger DEF Fits, TypeInv
        <5>. QED
          BY <5>2, <5>3
      <4>. QED
        BY <4>1
    <3>2. \A d \in Characters : data'[d] # None => data'[d] <= events'
      <4>1. ASSUME NEW d \in Characters, d # c, data[d] # None
            PROVE  data'[d] = data[d] /\ data[d] \in 0..MaxEvents /\ data[d] <= events
        BY <1>2, <1>5, <4>1 DEF Fits, VersionsFit, Versions
      <4>2. data'[c] = data[c] + 1
        BY <1>2, <1>5, <2>1
      <4>. QED
        BY <1>2, <1>3, <1>5, <1>6, <2>1, <4>1, <4>2
    <3>. QED
      BY <3>1, <3>2 DEF VersionsFit
  <2>2. CASE c \notin Here
    <3>1. \A d \in Characters : data'[d] \in {data[d], 0, None}
      BY <1>2, <1>5, <2>2
    <3>. QED
      BY <1>1, <3>1, EventFits DEF Add, Fits, TypeInv
  <2>. QED
    BY <2>1, <2>2
<1>9. events' \in 0..MaxEvents
  BY EventCounted DEF Add, Fits, TypeInv
<1>10. ValuesOK'
  BY <1>1, <1>7, <1>9, ValuesKept DEF Add, Fits, TypeInv, ValuesOK
<1>. QED
  BY <1>1, <1>4, <1>8, <1>10 DEF Fits, TypeInv

\* They are kept by what follows a deletion,
LEMMA AnyFits ==
    ASSUME Fits, setAnyCharacter
    PROVE  Fits' /\ Frame
<1>1. Frame /\ data' = data /\ events' = events /\ shown' = shown /\ opened' = opened
  BY DEF setAnyCharacter, Frame
<1>2. \E N : Moves(N)
  BY AnyMoves DEF Fits, TypeInv
<1>3. \/ current' = NoCharacter /\ chosen' = None /\ excuse' = excuse \ {"current"}
      \/ UNCHANGED <<current, chosen, excuse>>
  BY DEF setAnyCharacter
<1>4. NoCharacter \in Copies
  BY DEF NoCharacter, Copies
<1>. QED
  BY <1>1, <1>2, <1>3, <1>4, SameData DEF Fits, TypeInv, ValuesOK

\* ... by a choice,
LEMMA LoadFits ==
    ASSUME Fits, NEW g, Load(g)
    PROVE  Fits' /\ Frame
<1>1. Frame /\ data' = data /\ events' = events /\ shown' = shown /\ opened' = opened
  BY DEF Load, Frame
<1>2. \E N : Moves(N)
  BY LoadMoves DEF Fits, TypeInv
<1>3. g \in DOMAIN work /\ Its(g) \in Characters /\ At(g)[1] = "load"
  BY UserDoes DEF Load, Fits, TypeInv, Does, At
<1>4. work[g].read \in Copies
  BY <1>3, Doer DEF Load, NotYetRead, MayHaveRead, Fits, TypeInv
<1>5. current' = work[g].read /\ chosen' = Its(g) /\ excuse' \subseteq excuse \cup {"current"}
  BY DEF Load
<1>. QED
  BY <1>1, <1>2, <1>3, <1>4, <1>5, SameData DEF Fits, TypeInv, ValuesOK

\* ... by a reload,
LEMMA ReloadFits ==
    ASSUME Fits, NEW g, Reload(g)
    PROVE  Fits' /\ Frame
<1>1. Frame /\ data' = data /\ events' = events /\ shown' = shown /\ opened' = opened
      /\ chosen' = chosen
  BY DEF Reload, Frame
<1>2. \E N : Moves(N)
  BY ReloadMoves DEF Fits, TypeInv
<1>3. g \in DOMAIN work /\ At(g)[1] = "reload"
  BY DEF Reload, Does, At
<1>4. NotYetRead(g) \/ work[g].read \in Copies
  BY <1>3, Doer DEF NotYetRead, MayHaveRead, Fits, TypeInv
<1>5. /\ current' = current \/ (~NotYetRead(g) /\ current' = work[g].read)
      /\ excuse' \subseteq excuse \cup {"current"}
  BY DEF Reload
<1>. QED
  BY <1>1, <1>2, <1>4, <1>5, SameData DEF Fits, TypeInv, ValuesOK

\* ... by a list that opens,
LEMMA ShowListFits ==
    ASSUME Fits, NEW g, ShowList(g)
    PROVE  Fits' /\ Frame
<1>1. Frame /\ data' = data /\ events' = events /\ shown' = shown /\ current' = current
      /\ chosen' = chosen
  BY DEF ShowList, Frame
<1>2. \E N : Moves(N)
  BY ShowListMoves DEF Fits, TypeInv
<1>3. g \in DOMAIN work /\ At(g)[1] = "open"
  BY DEF ShowList, Does, At
<1>4. work[g].read \in Copies
  BY <1>3, Doer DEF ShowList, NotYetRead, MayHaveRead, Fits, TypeInv
<1>5. opened' = work[g].read /\ excuse' \subseteq excuse \cup {"list"}
  BY DEF ShowList
<1>. QED
  BY <1>1, <1>2, <1>4, <1>5, SameData DEF Fits, TypeInv, ValuesOK

\* What a page shows after a refresh: what was read, or what it keeps.
Empties(p, new) ==
    IF p \in DOMAIN CrossPages THEN \A c \in Characters : new.rows[c] = None
    ELSE new.copy.id = None
\* What a page shows after a refresh is what it has read, or keeps.
LEMMA ShowShows ==
    ASSUME ValuesOK, WorkOK, NEW g, Show(g)
    PROVE  /\ g \in DOMAIN work /\ Its(g) \in Relevant /\ work[g].read \in Views(Its(g))
           /\ shown' = [shown EXCEPT ![Its(g)] = shown'[Its(g)]]
           /\ shown'[Its(g)] \in Views(Its(g))
           /\ Its(g) \notin KeepRows => shown'[Its(g)].rows = work[g].read.rows
<1>1. g \in DOMAIN work /\ Its(g) \in Relevant /\ Its(g) = At(g)[2] /\ At(g)[1] = "page"
  BY PageDoes, Doer DEF Show, Does, At
<1>2. work[g].read \in Views(Its(g))
  BY <1>1, Doer DEF Show, NotYetRead, MayHaveRead
<1>. DEFINE p == Its(g)
            new == work[g].read
            empty == Empties(p, new)
            value == [rows |-> IF empty /\ p \in KeepRows THEN shown[p].rows ELSE new.rows,
                      copy |-> IF empty /\ p \in KeepCopy THEN shown[p].copy ELSE new.copy]
<1>3. shown' = [shown EXCEPT ![p] = value]
  BY DEF Show, Empties
<1>4. p \in DOMAIN shown
  BY <1>1 DEF Relevant
<1>5. shown[p] \in Views(p)
  BY <1>1 DEF ValuesOK
<1>. HIDE DEF p, new, empty
<1>6. value \in Views(p) /\ (p \notin KeepRows => value.rows = new.rows)
  BY <1>2, <1>5 DEF Views, p, new
<1>. HIDE DEF value
<1>7. shown'[p] = value
  BY <1>3, <1>4
<1>. QED
  BY <1>1, <1>2, <1>3, <1>6, <1>7 DEF p, new

\* ... by a page that shows what it has read,
LEMMA ShowFits ==
    ASSUME Fits, NEW g, Show(g)
    PROVE  Fits' /\ Frame
<1>1. data' = data /\ events' = events /\ opened' = opened /\ current' = current
      /\ chosen' = chosen /\ source' = source
  BY DEF Show
<1>2. \E N : Moves(N)
  BY ShowMoves DEF Fits, TypeInv
<1>3. /\ Its(g) \in Relevant /\ shown' = [shown EXCEPT ![Its(g)] = shown'[Its(g)]]
      /\ shown'[Its(g)] \in Views(Its(g))
  BY ShowShows DEF Fits, TypeInv
<1>4. DOMAIN shown' = DOMAIN shown /\ \A p \in Relevant : shown'[p] \in Views(p)
  <2>. DEFINE value == shown'[Its(g)]
  <2>1. shown' = [shown EXCEPT ![Its(g)] = value] /\ value \in Views(Its(g))
    BY <1>3
  <2>. HIDE DEF value
  <2>2. \A p \in Relevant : shown[p] \in Views(p)
    BY DEF Fits, TypeInv, ValuesOK
  <2>3. ASSUME NEW p \in Relevant PROVE shown'[p] \in Views(p)
    <3>1. CASE p = Its(g)
      BY <2>1, <2>3, <3>1 DEF Relevant
    <3>2. CASE p # Its(g)
      BY <2>1, <2>2, <2>3, <3>2 DEF Relevant
    <3>. QED
      BY <3>1, <3>2
  <2>. QED
    BY <2>1, <2>3
<1>5. excuse' \subseteq excuse \cup {Its(g)}
  BY DEF Show
<1>6. Frame
  BY <1>1, <1>4 DEF Frame
<1>. QED
  BY <1>1, <1>2, <1>3, <1>4, <1>5, <1>6, SameData DEF Fits, TypeInv, ValuesOK

\* ... by a page that reads,
LEMMA ReadPageFits ==
    ASSUME Fits, NEW g, ReadPage(g)
    PROVE  Fits' /\ Frame
<1>1. Looks(g)
  BY ReadPageReads DEF Fits, TypeInv
<1>2. Frame /\ UNCHANGED <<data, current, shown, events, chosen, excuse>>
  BY DEF ReadPage, Frame
<1>3. opened' \in Copies
  BY DEF ReadPage, Close, NoCharacter, Copies, Fits, TypeInv, ValuesOK
<1>. QED
  BY <1>1, <1>2, <1>3, SameData DEF Fits, TypeInv, ValuesOK

\* ... and by a read that fails.
LEMMA FailFits ==
    ASSUME Fits, NEW g, Fail(g)
    PROVE  Fits' /\ Frame
<1>1. Happens /\ Frame /\ UNCHANGED <<data, current, shown, chosen>>
  BY FailKinds DEF Frame
<1>2. NoCharacter \in Copies
  BY DEF NoCharacter, Copies
<1>3. /\ (\E N : Moves(N)) \/ (\E h : Looks(h))
      /\ opened' \in Copies
      /\ excuse' \subseteq Relevant \cup {"current", "list"}
  <2>1. CASE FailedPage(g)
    BY <1>2, <2>1, FailedMoves, PageDoes DEF FailedPage, Close, Fits, TypeInv, ValuesOK
  <2>2. CASE FailedReload(g)
    BY <1>2, <2>2, FailedMoves DEF FailedReload, Fits, TypeInv, ValuesOK
  <2>3. CASE FailedOpen(g)
    BY <1>2, <2>3, FailedMoves DEF FailedOpen, Fits, TypeInv, ValuesOK
  <2>. QED
    BY <2>1, <2>2, <2>3, FailKinds
<1>. QED
  BY <1>1, <1>3, SameData DEF Fits, TypeInv, ValuesOK

----------------------------------------------------------------------------
(* The inductive invariant *)

PagesOnly == Relevant \subseteq AllPages
\* While the user does something no list opens; no page is refreshed for a choice
\* before it is made, and a character that is shown next is there.
UserAlone ==
    User \in DOMAIN work =>
      /\ Opener \notin DOMAIN work
      /\ At(User)[1] # "cross" => \A g \in DOMAIN work : g[1] # "page"
      /\ At(User)[1] \in {"load", "added"} => data[At(User)[2]] # None
CurrentFollows == current.id = chosen \/ "current" \in excuse
\* What a reload has read is of the current character, unless it is late.
ReloadsFollow ==
    \A g \in DOMAIN work :
      At(g)[1] = "reload" /\ work[g].read \notin {None, NoCharacter} /\ ~work[g].late
        => work[g].read.id = current.id
ChosenIsThere ==
    \/ chosen \in Here \cup {None}
    \/ "current" \in excuse
    \/ User \in DOMAIN work /\ (At(User)[1] = "load" \/ At(User) = <<"deleted", chosen>>)
\* The tree of locations is of the chosen character, or is going to be.
TreeRoutine == <<"page", Tree>>
TreeFollows ==
    Tree \in Relevant => \/ shown[Tree].rows.id = chosen
                         \/ excuse \cap {Tree, "current"} # {}
                         \/ TreeRoutine \in DOMAIN work
TreeReads ==
    \A g \in DOMAIN work :
      At(g)[1] = "page" /\ At(g)[2] = Tree /\ work[g].read # None /\ ~work[g].late
        => \/ work[g].read.rows.id = chosen
           \/ "current" \in excuse
           \/ g # TreeRoutine /\ TreeRoutine \in DOMAIN work
\* An opened list is of the chosen character, or is going to be closed.
OpensFollow ==
    Opener \in DOMAIN work =>
      RelevantLists # {} /\ (work[Opener].late \/ At(Opener)[2] = chosen)
Closing ==
    \E q \in RelevantLists : <<"page", q>> \in DOMAIN work /\ work[<<"page", q>>].read = None
ListFollows ==
    opened # NoCharacter =>
      /\ RelevantLists # {}
      /\ opened.id = chosen \/ excuse \cap {"current", "list"} # {} \/ Closing
Follows == CurrentFollows /\ ReloadsFollow /\ TreeFollows /\ TreeReads /\ ListFollows
\* What else follows the user.
Others == PagesOnly /\ UserAlone /\ ChosenIsThere /\ OpensFollow
IInv == Fits /\ Others /\ Follows

\* The goroutines of the pages that were started for a choice go on.
PagesGoOn ==
    \A p : <<"page", p>> \in DOMAIN work =>
      /\ <<"page", p>> \in DOMAIN work'
      /\ work[<<"page", p>>].read = None => work'[<<"page", p>>].read = None

\* What is shown follows the choice as before when only goroutines move on.
LEMMA QuietFollows ==
    ASSUME Frame, Follows, UNCHANGED <<current, shown, opened, chosen, excuse>>, PagesGoOn,
           NEW N, Moves(N)
    PROVE  Follows'
<1>1. /\ Relevant' = Relevant /\ RelevantLists' = RelevantLists /\ NoCharacter' = NoCharacter
  BY SameSets
<1>2. CurrentFollows'
  BY DEF Follows, CurrentFollows
<1>3. ASSUME NEW h \in DOMAIN work', work'[h].read # None
      PROVE  h \in DOMAIN work /\ At(h)' = At(h) /\ work'[h].read = work[h].read
             /\ (work[h].late => work'[h].late)
  BY <1>3 DEF Moves, MovesTo, GoesOn, At
<1>4. ReloadsFollow'
  BY <1>1, <1>3 DEF Follows, ReloadsFollow
<1>5. TreeRoutine \in DOMAIN work => TreeRoutine \in DOMAIN work'
  BY DEF PagesGoOn, TreeRoutine
<1>6. TreeFollows'
  BY <1>1, <1>5 DEF Follows, TreeFollows
<1>7. TreeReads'
  BY <1>3, <1>5 DEF Follows, TreeReads
<1>8. Closing => Closing'
  BY <1>1 DEF Closing, PagesGoOn
<1>9. ListFollows'
  BY <1>1, <1>8 DEF Follows, ListFollows
<1>. QED
  BY <1>2, <1>4, <1>6, <1>7, <1>9 DEF Follows

\* The goroutines of the pages go on if none of them is among those that move.
LEMMA PagesStay ==
    ASSUME NEW N, Moves(N), \A p : <<"page", p>> \in N => <<"page", p>> \notin DOMAIN work
                                                         \/ <<"page", p>> \in DOMAIN work'
    PROVE  PagesGoOn
<1>1. ASSUME NEW p, <<"page", p>> \in DOMAIN work
      PROVE  /\ <<"page", p>> \in DOMAIN work'
             /\ work[<<"page", p>>].read = None => work'[<<"page", p>>].read = None
  <2>1. CASE <<"page", p>> \in N
    BY <1>1, <2>1 DEF Moves, MovesTo
  <2>2. CASE <<"page", p>> \notin N
    BY <1>1, <2>2 DEF Moves, MovesTo, GoesOn
  <2>. QED
    BY <2>1, <2>2
<1>. QED
  BY <1>1 DEF PagesGoOn

\* What else follows the user is as before when other goroutines move on.
DataStays == \A c \in Characters : data[c] # None => data'[c] # None
\* ... for any goroutines but those that the user starts.
LEMMA QuietOthers ==
    ASSUME Fits, Frame, Others, chosen' = chosen, "current" \in excuse => "current" \in excuse',
           DataStays, NEW N, Moves(N), User \notin N, Opener \in N => Opener \notin DOMAIN work',
           \A h \in N \cap DOMAIN work' : h[1] = "page" => h \in DOMAIN work
    PROVE  Others'
<1>1. Relevant' = Relevant /\ RelevantLists' = RelevantLists
  BY SameSets
<1>2. User \in DOMAIN work \cup DOMAIN work' =>
        User \in DOMAIN work /\ User \in DOMAIN work' /\ At(User)' = At(User)
  BY DEF Moves, MovesTo, GoesOn, At
<1>3. Opener \in DOMAIN work' =>
        Opener \in DOMAIN work /\ At(Opener)' = At(Opener) /\ (work[Opener].late => work'[Opener].late)
  BY DEF Moves, MovesTo, GoesOn, At
<1>4. ASSUME NEW h \in DOMAIN work', h[1] = "page" PROVE h \in DOMAIN work
  BY <1>4 DEF Moves, MovesTo, GoesOn
<1>5. At(User)[1] \in {"load", "added"} /\ User \in DOMAIN work => At(User)[2] \in Characters
  BY NamedDo, FirstOf DEF Fits, TypeInv
<1>6. UserAlone'
  BY <1>2, <1>3, <1>4, <1>5 DEF Others, UserAlone, DataStays
<1>7. ChosenIsThere'
  BY <1>2 DEF Others, ChosenIsThere, Here, DataStays
<1>8. OpensFollow'
  BY <1>1, <1>3 DEF Others, OpensFollow
<1>9. PagesOnly'
  BY <1>1 DEF Others, PagesOnly
<1>. QED
  BY <1>6, <1>7, <1>8, <1>9 DEF Others

\* ... and when a goroutine reads.
LEMMA LooksOthers ==
    ASSUME Fits, Frame, Others, UNCHANGED <<data, chosen>>,
           "current" \in excuse => "current" \in excuse', NEW g, Looks(g)
    PROVE  Others'
<1>1. Relevant' = Relevant /\ RelevantLists' = RelevantLists
  BY SameSets
<1>2. /\ DOMAIN work' = DOMAIN work
      /\ \A h \in DOMAIN work : At(h)' = At(h) /\ (work[h].late => work'[h].late)
  BY DEF Looks, GoesOn, At
<1>3. UserAlone'
  BY <1>2 DEF Others, UserAlone
<1>4. ChosenIsThere'
  BY <1>2 DEF Others, ChosenIsThere, Here
<1>5. OpensFollow'
  BY <1>1, <1>2 DEF Others, OpensFollow
<1>6. PagesOnly'
  BY <1>1 DEF Others, PagesOnly
<1>. QED
  BY <1>3, <1>4, <1>5, <1>6 DEF Others

----------------------------------------------------------------------------
(* Every action keeps the invariant *)

\* ... when only goroutines of sections, of mails and of single refreshes move.
LEMMA PlainKeeps ==
    ASSUME IInv, Fits', Frame, UNCHANGED <<current, shown, opened, chosen, excuse>>, DataStays,
           NEW N, Moves(N), \A h \in N : h[1] \notin {"user", "open", "page"}
    PROVE  IInv'
<1>1. User \notin N /\ Opener \notin N /\ \A p : <<"page", p>> \notin N
  BY FirstOf
<1>2. PagesGoOn
  BY <1>1, PagesStay
<1>3. Follows'
  BY <1>2, QuietFollows DEF IInv
<1>4. Others'
  BY <1>1, QuietOthers DEF IInv
<1>. QED
  BY <1>3, <1>4 DEF IInv

\* No character goes when the database stays,
LEMMA SameDataStays == ASSUME data' = data PROVE DataStays
  BY DEF DataStays

\* ... or only gets new versions.
LEMMA ChangedDataStays ==
    ASSUME Fits, \A c \in Characters : data'[c] \in {data[c], data[c] + 1}
    PROVE  DataStays
<1>1. ASSUME NEW c \in Characters, data[c] # None PROVE data'[c] # None
  <2>1. data[c] \in 0..MaxEvents /\ MaxEvents \in Nat
    BY <1>1, Bounds DEF Fits, TypeInv, ValuesOK, Versions
  <2>2. data[c] + 1 \in Nat
    BY <2>1
  <2>. QED
    BY <1>1, <2>2, NoneAssumption
<1>. QED
  BY <1>1 DEF DataStays

\* The start of an update keeps the invariant,
LEMMA CheckKeeps ==
    ASSUME IInv, NEW c \in Characters, Check(c)
    PROVE  IInv'
<1>1. Fits /\ Fits' /\ Frame /\ Moves({<<"section", c>>})
  BY CheckFits, CheckMoves DEF IInv, Fits, TypeInv
<1>2. \A h \in {<<"section", c>>} : h[1] \notin {"user", "open", "page"}
  OBVIOUS
<1>. QED
  BY <1>1, <1>2, SameDataStays, PlainKeeps DEF Check

\* ... that of a general section,
LEMMA CheckGeneralKeeps ==
    ASSUME IInv, NEW s \in GeneralSections, CheckGeneral(s)
    PROVE  IInv'
<1>1. Fits /\ Fits' /\ Frame /\ Moves({<<"general", s>>})
  BY CheckGeneralFits, CheckGeneralMoves DEF IInv, Fits, TypeInv
<1>2. \A h \in {<<"general", s>>} : h[1] \notin {"user", "open", "page"}
  OBVIOUS
<1>. QED
  BY <1>1, <1>2, SameDataStays, PlainKeeps DEF CheckGeneral

\* ... that of marking a mail,
LEMMA ReadMailKeeps ==
    ASSUME IInv, ReadMail
    PROVE  IInv'
<1>1. Fits /\ Fits' /\ Frame /\ Moves({<<"mail", current.id>>})
  BY ReadMailFits, ReadMailMoves DEF IInv, Fits, TypeInv
<1>2. \A h \in {<<"mail", current.id>>} : h[1] \notin {"user", "open", "page"}
  OBVIOUS
<1>. QED
  BY <1>1, <1>2, SameDataStays, PlainKeeps DEF ReadMail

\* ... the update itself,
LEMMA UpdateKeeps ==
    ASSUME IInv, NEW g, Update(g)
    PROVE  IInv'
<1>1. Fits /\ Fits' /\ Frame /\ Moves({g})
  BY UpdateFits, UpdateMoves DEF IInv, Fits, TypeInv
<1>2. g[1] = "section"
  <2>1. g = <<"section", Its(g)>>
    BY <1>1, SectionDoes DEF Update, Fits, TypeInv
  <2>. QED
    BY <2>1
<1>3. DataStays
  BY <1>1, UpdateChanges, ChangedDataStays DEF Fits, TypeInv
<1>. QED
  BY <1>1, <1>2, <1>3, PlainKeeps DEF Update

\* ... the mark itself,
LEMMA MarkKeeps ==
    ASSUME IInv, NEW g, Mark(g)
    PROVE  IInv'
<1>1. Fits /\ Fits' /\ Frame /\ Moves({g})
  BY MarkFits, MarkMoves DEF IInv, Fits, TypeInv
<1>2. g[1] = "mail"
  <2>1. g = <<"mail", Its(g)>>
    BY <1>1, MailDoes DEF Mark, Fits, TypeInv
  <2>. QED
    BY <2>1
<1>3. DataStays
  BY <1>1, MarkChanges, ChangedDataStays DEF Fits, TypeInv
<1>. QED
  BY <1>1, <1>2, <1>3, PlainKeeps DEF Mark

\* ... the update of a general section,
LEMMA UpdateGeneralKeeps ==
    ASSUME IInv, NEW g, UpdateGeneral(g)
    PROVE  IInv'
<1>1. Fits /\ Fits' /\ Frame /\ Moves({g})
  BY UpdateGeneralFits, UpdateGeneralMoves DEF IInv, Fits, TypeInv
<1>2. g[1] = "general"
  <2>1. g = <<"general", Its(g)>>
    BY <1>1, GeneralDoes DEF UpdateGeneral, Fits, TypeInv
  <2>. QED
    BY <2>1
<1>3. DataStays
  BY <1>1, UpdateGeneralChanges, ChangedDataStays DEF Fits, TypeInv
<1>. QED
  BY <1>1, <1>2, <1>3, PlainKeeps DEF UpdateGeneral

\* ... the refreshes after an update,
LEMMA AskKeeps ==
    ASSUME IInv, NEW g, Ask(g)
    PROVE  IInv'
<1>1. Fits /\ Fits' /\ Frame
  BY AskFits DEF IInv
<1>2. PICK P : Moves({g} \cup ({"go"} \X (P \cap Relevant)))
  BY <1>1, AskMoves DEF Fits, TypeInv
<1>3. g[1] = "section"
  <2>1. g = <<"section", Its(g)>>
    BY <1>1, SectionDoes DEF Ask, Fits, TypeInv
  <2>. QED
    BY <2>1
<1>4. \A h \in {g} \cup ({"go"} \X (P \cap Relevant)) : h[1] \notin {"user", "open", "page"}
  BY <1>3, PairKinds
<1>5. UNCHANGED <<data, current, shown, opened, chosen, excuse>>
  BY DEF Ask
<1>. QED
  BY <1>1, <1>2, <1>4, <1>5, SameDataStays, PlainKeeps

\* ... and those of the pages about all characters, after which the user is done.
LEMMA UpdateCrossKeeps ==
    ASSUME IInv, NEW g, UpdateCrossPages(g)
    PROVE  IInv'
<1>1. Fits /\ Fits' /\ Frame
  BY UpdateCrossFits DEF IInv
<1>2. UNCHANGED <<data, current, shown, opened, chosen, excuse>>
  BY DEF UpdateCrossPages
<1>3. g \in DOMAIN work /\ At(g) = Cross /\ (g[1] = "mail" \/ g = User)
  BY <1>1, CrossDoes DEF UpdateCrossPages, Fits, TypeInv
<1>4. CASE g # User
  <2>1. PICK name \in {"page", "mail page"} :
          /\ name = "page" => g = User
          /\ Moves({g} \cup ({name} \X (DOMAIN CrossPages \cap Relevant)))
    BY <1>1, UpdateCrossMoves DEF Fits, TypeInv
  <2>2. name = "mail page"
    BY <1>4, <2>1
  <2>3. \A h \in {g} \cup ({"mail page"} \X (DOMAIN CrossPages \cap Relevant)) :
           h[1] \notin {"user", "open", "page"}
    BY <1>3, <1>4, PairKinds
  <2>. QED
    BY <1>1, <1>2, <2>1, <2>2, <2>3, SameDataStays, PlainKeeps
<1>5. CASE g = User
  <2>. DEFINE Ps == DOMAIN CrossPages \cap Relevant
  <2>1. work' = Beside(Continue(User, <<>>), Refreshing("page", DOMAIN CrossPages))
    BY <1>5 DEF UpdateCrossPages
  <2>2. DOMAIN work' = (DOMAIN work \ {User}) \cup ({"page"} \X Ps)
    <3>1. DOMAIN Continue(User, <<>>) = DOMAIN work \ {User}
      BY <1>3, <1>5, ContinueFacts
    <3>2. DOMAIN Refreshing("page", DOMAIN CrossPages) = {"page"} \X Ps
      BY RefreshingFacts
    <3>. QED
      BY <2>1, <3>1, <3>2 DEF Beside
  <2>3. Moves({User} \cup ({"page"} \X Ps))
    <3>1. MovesTo(Continue(User, <<>>), {User})
      BY <1>1, <1>3, <1>5, EndMoves DEF Fits, TypeInv
    <3>. QED
      BY <2>1, <3>1, PagePlans, RefreshingMoves DEF Moves
  <2>. HIDE DEF Ps
  <2>4. \A h \in {"page"} \X Ps : h[1] = "page"
    BY PairKinds
  <2>5. User \notin DOMAIN work' /\ Opener \notin {User} \cup ({"page"} \X Ps)
    BY <2>2, <2>4, FirstOf
  <2>6. PagesGoOn
    <3>1. \A p : <<"page", p>> \in {User} \cup ({"page"} \X Ps) => <<"page", p>> \in DOMAIN work'
      BY <2>2, FirstOf
    <3>. QED
      BY <2>3, <3>1, PagesStay
  <2>7. Follows'
    BY <1>1, <1>2, <2>3, <2>6, QuietFollows DEF IInv
  <2>8. Relevant' = Relevant /\ RelevantLists' = RelevantLists
    BY <1>1, SameSets
  <2>9. UserAlone'
    BY <2>5 DEF UserAlone
  <2>10. ChosenIsThere'
    <3>1. At(User)[1] = "cross" /\ At(User) # <<"deleted", chosen>>
      BY <1>3, <1>5, FirstOf
    <3>2. chosen \in Here \cup {None} \/ "current" \in excuse
      BY <3>1 DEF IInv, Others, ChosenIsThere
    <3>. QED
      BY <1>2, <3>2 DEF ChosenIsThere, Here
  <2>11. OpensFollow'
    <3>1. Opener \in DOMAIN work' => GoesOn(work, work', Opener)
      BY <2>3, <2>5 DEF Moves, MovesTo
    <3>. QED
      BY <1>2, <2>8, <3>1 DEF IInv, Others, OpensFollow, GoesOn, At
  <2>. QED
    BY <1>1, <2>7, <2>8, <2>9, <2>10, <2>11 DEF IInv, Others, PagesOnly
<1>. QED
  BY <1>4, <1>5

\* What the user starts.
LEMMA StartShape ==
    ASSUME NEW g, NEW todo, work' = Beside(work, Starting(g, todo))
    PROVE  /\ DOMAIN work' = DOMAIN work \cup {g} /\ At(g)' = todo[1]
           /\ \A h \in DOMAIN work \ {g} : work'[h] = work[h]
<1>1. DOMAIN Starting(g, todo) = {g} /\ Starting(g, todo)[g] = Doing(todo)
  BY DEF Starting
<1>2. /\ DOMAIN work' = DOMAIN work \cup {g} /\ work'[g] = Doing(todo)
      /\ \A h \in DOMAIN work \ {g} : work'[h] = work[h]
  BY <1>1 DEF Beside
<1>. QED
  BY <1>2 DEF At, Doing

\* When the user is free none of the user's goroutines is at work.
LEMMA FreeFacts ==
    ASSUME Free
    PROVE  /\ User \notin DOMAIN work /\ Opener \notin DOMAIN work
           /\ \A h \in DOMAIN work : h[1] # "page"
           /\ \A p : <<"page", p>> \notin DOMAIN work
  BY FirstOf DEF Free

\* The user starts something: the character that is shown next is there.
LEMMA UserStarts ==
    ASSUME IInv, Fits', Frame, UNCHANGED <<current, shown, opened, chosen, excuse>>, Free,
           NEW op \in {"load", "deleted", "added"}, NEW c \in Characters,
           Moves({User}), User \in DOMAIN work', At(User)' = <<op, c>>,
           DOMAIN work' = DOMAIN work \cup {User},
           op \in {"load", "added"} => data'[c] # None,
           \A d \in Characters : data[d] # None /\ data'[d] = None => op = "deleted" /\ d = c
    PROVE  IInv'
<1>1. /\ User \notin DOMAIN work /\ Opener \notin DOMAIN work
      /\ \A h \in DOMAIN work : h[1] # "page"
      /\ \A p : <<"page", p>> \notin DOMAIN work
  BY FreeFacts
<1>2. PagesGoOn
  BY <1>1 DEF PagesGoOn
<1>3. Follows'
  BY <1>2, QuietFollows DEF IInv
<1>4. At(User)'[1] = op /\ At(User)'[2] = c
  OBVIOUS
<1>5. Opener \notin DOMAIN work' /\ \A h \in DOMAIN work' : h[1] # "page"
  BY <1>1, FirstOf
<1>6. UserAlone'
  BY <1>4, <1>5 DEF UserAlone
<1>7. ChosenIsThere'
  <2>1. chosen \in Here \cup {None} \/ "current" \in excuse
    BY <1>1 DEF IInv, Others, ChosenIsThere
  <2>2. chosen \in Here => chosen \in Here' \/ (op = "deleted" /\ chosen = c)
    BY DEF Here
  <2>. QED
    BY <2>1, <2>2 DEF ChosenIsThere
<1>8. OpensFollow'
  BY <1>5 DEF OpensFollow
<1>9. PagesOnly'
  BY SameSets DEF IInv, Others, PagesOnly
<1>. QED
  BY <1>3, <1>6, <1>7, <1>8, <1>9 DEF IInv, Others

\* A choice that begins keeps the invariant: the character is there.
LEMMA SwitchKeeps ==
    ASSUME IInv, NEW c \in Characters, Switch(c)
    PROVE  IInv'
<1>1. Fits /\ Fits' /\ Frame /\ Moves({User})
  BY SwitchFits, SwitchMoves DEF IInv, Fits, TypeInv
<1>2. work' = Beside(work, Starting(User, <<<<"load", c>>>>))
  BY DEF Switch
<1>3. DOMAIN work' = DOMAIN work \cup {User} /\ At(User)' = <<"load", c>>
  BY <1>2, StartShape
<1>. QED
  BY <1>1, <1>3, UserStarts DEF Switch, Here

\* A deletion keeps it: of the chosen character, it is followed by another choice.
LEMMA DeleteKeeps ==
    ASSUME IInv, NEW c \in Characters, Delete(c)
    PROVE  IInv'
<1>1. Fits /\ Fits' /\ Frame /\ Moves({User})
  BY DeleteFits, DeleteMoves DEF IInv, Fits, TypeInv
<1>2. work' = Beside(work, Starting(User, <<<<"deleted", c>>, <<"cross", None>>>>))
  BY DEF Delete
<1>3. DOMAIN work' = DOMAIN work \cup {User} /\ At(User)' = <<"deleted", c>>
  <2>. DEFINE todo == <<<<"deleted", c>>, <<"cross", None>>>>
  <2>1. todo[1] = <<"deleted", c>>
    OBVIOUS
  <2>. HIDE DEF todo
  <2>2. work' = Beside(work, Starting(User, todo))
    BY <1>2 DEF todo
  <2>. QED
    BY <2>1, <2>2, StartShape
<1>4. \A d \in Characters : data[d] # None /\ data'[d] = None => d = c
  BY <1>1 DEF Delete, Fits, TypeInv, ValuesOK
<1>. QED
  BY <1>1, <1>3, <1>4, UserStarts DEF Delete

\* An addition keeps it: the character is there.
LEMMA AddKeeps ==
    ASSUME IInv, NEW c \in Characters, Add(c)
    PROVE  IInv'
<1>1. Fits /\ Fits' /\ Frame /\ Moves({User})
  BY AddFits, AddMoves DEF IInv, Fits, TypeInv
<1>4. data \in [Characters -> Versions] /\ MaxEvents \in Nat
  BY <1>1, Bounds DEF Fits, TypeInv, ValuesOK
<1>5. data' = [data EXCEPT ![c] = IF c \in Here THEN data[c] + 1 ELSE 0]
  BY <1>4 DEF Add
<1>6. data'[c] \in Nat /\ \A d \in Characters : d # c => data'[d] = data[d]
  BY <1>4, <1>5 DEF Here, Versions
<1>7. data'[c] # None
  BY <1>6, NoneAssumption
<1>2. CASE work' = work
  <2>1. Moves({})
    BY <1>2, NoMoves DEF IInv, Fits, TypeInv, Moves
  <2>2. DataStays
    BY <1>6, <1>7 DEF DataStays
  <2>. QED
    BY <1>1, <2>1, <2>2, PlainKeeps DEF Add
<1>3. ASSUME work' # work
      PROVE  DOMAIN work' = DOMAIN work \cup {User} /\ At(User)' = <<"added", c>>
  <2>. DEFINE todo == <<<<"added", c>>, <<"cross", None>>>>
  <2>1. todo[1] = <<"added", c>>
    OBVIOUS
  <2>. HIDE DEF todo
  <2>2. work' = Beside(work, Starting(User, todo))
    BY <1>3 DEF Add, todo
  <2>. QED
    BY <2>1, <2>2, StartShape
<1>. QED
  BY <1>1, <1>2, <1>3, <1>6, <1>7, UserStarts DEF Add

\* A list that begins to open keeps it: it is of the chosen character, or late.
LEMMA OpenKeeps ==
    ASSUME IInv, NEW p \in RelevantLists, Open(p)
    PROVE  IInv'
<1>1. Fits /\ Fits' /\ Frame /\ ValuesOK /\ WorkOK
  BY OpenFits DEF IInv, Fits, TypeInv
<1>2. /\ Moves({Opener}) /\ Opener \in DOMAIN work' /\ At(Opener)' = <<"open", ListOwner(p)>>
      /\ work'[Opener].late = (excuse \cap {p, "current"} # {})
  BY <1>1, OpenMoves
<1>3. Free /\ UNCHANGED <<data, current, shown, opened, chosen, excuse>>
  BY DEF Open
<1>4. /\ User \notin DOMAIN work /\ \A q : <<"page", q>> \notin DOMAIN work
  BY <1>3, FreeFacts
<1>5. PagesGoOn
  BY <1>4 DEF PagesGoOn
<1>6. Follows'
  BY <1>1, <1>2, <1>3, <1>5, QuietFollows DEF IInv
<1>7. User \notin DOMAIN work'
  BY <1>2, <1>4, FirstOf DEF Moves, MovesTo, GoesOn
<1>8. UserAlone'
  BY <1>7 DEF UserAlone
<1>9. ChosenIsThere'
  BY <1>3, <1>4 DEF IInv, Others, ChosenIsThere, Here
<1>10. Relevant' = Relevant /\ RelevantLists' = RelevantLists
  BY <1>1, SameSets
<1>11. OpensFollow'
  <2>1. At(Opener)'[2] = ListOwner(p)
    BY <1>2
  <2>2. excuse \cap {p, "current"} = {} => ListOwner(p) = chosen
    <3>1. CASE p = "characterAssets"
      <4>1. Tree \in Relevant
        BY <3>1 DEF Tree, RelevantLists
      <4>2. TreeRoutine \notin DOMAIN work
        BY <1>4 DEF TreeRoutine
      <4>. QED
        BY <3>1, <4>1, <4>2 DEF IInv, Follows, TreeFollows, ListOwner, Tree
    <3>2. CASE p # "characterAssets"
      BY <3>2 DEF IInv, Follows, CurrentFollows, ListOwner
    <3>. QED
      BY <3>1, <3>2
  <2>3. RelevantLists # {}
    OBVIOUS
  <2>. QED
    BY <1>2, <1>3, <1>10, <2>1, <2>2, <2>3 DEF OpensFollow
<1>12. PagesOnly'
  BY <1>10 DEF IInv, Others, PagesOnly
<1>. QED
  BY <1>1, <1>6, <1>8, <1>9, <1>11, <1>12 DEF IInv, Others

\* The user goes on with what is next, or loads a character that is there.
LEMMA ContinueShape ==
    ASSUME NEW g \in DOMAIN work, NEW todo, work' = Continue(g, todo)
    PROVE  /\ DOMAIN work' \subseteq DOMAIN work
           /\ todo # <<>> => g \in DOMAIN work' /\ At(g)' = todo[1]
           /\ todo = <<>> => g \notin DOMAIN work'
           /\ \A h \in DOMAIN work \ {g} : h \in DOMAIN work' /\ work'[h] = work[h]
<1>1. \A h \in DOMAIN work \ {g} : h \in DOMAIN work' /\ work'[h] = work[h]
  BY DEF Continue
<1>2. CASE todo = <<>>
  BY <1>1, <1>2 DEF Continue
<1>3. CASE todo # <<>>
  BY <1>1, <1>3 DEF Continue, At, Doing
<1>. QED
  BY <1>2, <1>3, <1>1

\* After its next step the user refreshes the pages about all characters at most.
LEMMA UserRest ==
    ASSUME WorkOK, User \in DOMAIN work, Tail(work[User].todo) # <<>>
    PROVE  Tail(work[User].todo)[1] = Cross
<1>1. Plans(User, work[User].todo)
  BY DEF WorkOK
<1>2. MayDoLater(User, Tail(work[User].todo)[1])
  BY <1>1, TailPlan
<1>. QED
  BY <1>2, FirstOf DEF MayDoLater

\* After a deletion or an addition the user goes on while nothing else does.
LEMMA UserGoesOn ==
    ASSUME IInv, Fits', Frame, UNCHANGED <<data, current, shown, opened, chosen, excuse>>,
           Does(User, "deleted") \/ Does(User, "added"), Moves({User}),
           NEW todo, work' = Continue(User, todo),
           \/ todo = Tail(work[User].todo) /\ (chosen \in Here \cup {None} \/ "current" \in excuse)
           \/ \E c \in Here : todo # <<>> /\ todo[1] = <<"load", c>>
    PROVE  IInv'
<1>1. User \in DOMAIN work /\ WorkOK /\ At(User)[1] \in {"deleted", "added"}
  BY DEF Does, At, IInv, Fits, TypeInv
<1>2. /\ DOMAIN work' \subseteq DOMAIN work
      /\ todo # <<>> => User \in DOMAIN work' /\ At(User)' = todo[1]
      /\ todo = <<>> => User \notin DOMAIN work'
  BY <1>1, ContinueShape
<1>3. /\ Opener \notin DOMAIN work /\ \A h \in DOMAIN work : h[1] # "page"
  BY <1>1 DEF IInv, Others, UserAlone
<1>4. PagesGoOn
  BY <1>3, FirstOf DEF PagesGoOn
<1>5. Follows'
  BY <1>4, QuietFollows DEF IInv
<1>6. Opener \notin DOMAIN work' /\ \A h \in DOMAIN work' : h[1] # "page"
  BY <1>2, <1>3
<1>7. User \in DOMAIN work' => \/ At(User)' = Cross
                               \/ \E c \in Here : At(User)' = <<"load", c>>
  BY <1>1, <1>2, UserRest
<1>8. \A c : <<"load", c>>[1] = "load" /\ <<"load", c>>[2] = c
  OBVIOUS
<1>9. UserAlone'
  BY <1>6, <1>7, <1>8, FirstOf DEF UserAlone, Here
<1>10. ChosenIsThere'
  BY <1>2, <1>8 DEF ChosenIsThere, Here
<1>11. OpensFollow'
  BY <1>6 DEF OpensFollow
<1>12. PagesOnly'
  BY SameSets DEF IInv, Others, PagesOnly
<1>. QED
  BY <1>5, <1>9, <1>10, <1>11, <1>12 DEF IInv, Others

\* HasCharacter keeps the invariant: a character that was added is there.
LEMMA HasCharacterKeeps ==
    ASSUME IInv, HasCharacter
    PROVE  IInv'
<1>1. Fits /\ Fits' /\ Frame
  BY AddedFits DEF IInv
<1>2. /\ Moves({User}) /\ User \in DOMAIN work
      /\ \/ work' = Continue(User, <<<<"load", Its(User)>>>> \o Tail(work[User].todo))
         \/ work' = Continue(User, Tail(work[User].todo))
  BY <1>1, AddedMoves DEF Fits, TypeInv
<1>3. At(User)[1] = "added" /\ Its(User) = At(User)[2]
  BY <1>1, <1>2, Doer DEF HasCharacter, Does, At, Fits, TypeInv
<1>4. Its(User) \in Here
  <2>1. data[Its(User)] # None
    BY <1>2, <1>3 DEF IInv, Others, UserAlone
  <2>2. Its(User) \in Characters
    BY <1>1, UserDoes DEF HasCharacter, Fits, TypeInv
  <2>. QED
    BY <2>1, <2>2 DEF Here
<1>5. chosen \in Here \cup {None} \/ "current" \in excuse
  <2>1. At(User) # <<"deleted", chosen>>
    BY <1>3
  <2>. QED
    BY <1>3, <2>1 DEF IInv, Others, ChosenIsThere
<1>6. UNCHANGED <<data, current, shown, opened, chosen, excuse>> /\ Does(User, "added")
  BY DEF HasCharacter
<1>7. CASE work' = Continue(User, Tail(work[User].todo))
  BY <1>1, <1>2, <1>5, <1>6, <1>7, UserGoesOn
<1>8. CASE work' = Continue(User, <<<<"load", Its(User)>>>> \o Tail(work[User].todo))
  <2>. DEFINE todo == <<<<"load", Its(User)>>>> \o Tail(work[User].todo)
  <2>1. Plans(User, todo) /\ todo[1] = <<"load", Its(User)>>
    BY <1>1, <1>2, <1>4, LoadNext DEF Fits, TypeInv, Here
  <2>2. work' = Continue(User, todo)
    BY <1>8
  <2>. HIDE DEF todo
  <2>3. todo # <<>>
    BY <2>1 DEF Plans
  <2>. QED
    BY <1>1, <1>2, <1>4, <1>6, <2>1, <2>2, <2>3, UserGoesOn
<1>. QED
  BY <1>2, <1>7, <1>8

\* A choice is made: every page of a character is refreshed.
LEMMA ChoiceKeeps ==
    ASSUME IInv, Fits', Frame, UNCHANGED <<data, shown, opened>>,
           User \in DOMAIN work, At(User)[1] \in {"load", "deleted"},
           work' = Beside(Overtake(Continue(User, Tail(work[User].todo)), "reload", {"reload"}),
                          Refreshing("page", DOMAIN CharacterPages)),
           current'.id = chosen', chosen' \in Here \cup {None}
    PROVE  IInv'
<1>. DEFINE Ps == DOMAIN CharacterPages \cap Relevant
            rest == Tail(work[User].todo)
            v == Continue(User, rest)
            o == Overtake(v, "reload", {"reload"})
<1>1. WorkOK /\ Relevant' = Relevant /\ RelevantLists' = RelevantLists /\ source \in Sources
  BY SameSets DEF IInv, Fits, TypeInv, ValuesOK
<1>2. Opener \notin DOMAIN work /\ \A h \in DOMAIN work : h[1] # "page"
  BY DEF IInv, Others, UserAlone
<1>3. /\ DOMAIN v = (DOMAIN work \ {User}) \cup (IF rest = <<>> THEN {} ELSE {User})
      /\ \A h \in DOMAIN work \ {User} : v[h] = work[h]
      /\ rest # <<>> => v[User].todo = rest /\ v[User].read = None
  <2>1. DOMAIN v = (DOMAIN work \ {User}) \cup (IF rest = <<>> THEN {} ELSE {User})
    BY ContinueFacts
  <2>2. \A h \in DOMAIN work \ {User} : v[h] = work[h]
    BY DEF Continue
  <2>3. rest # <<>> => v[User] = Doing(rest)
    BY ContinueFacts
  <2>4. Doing(rest).todo = rest /\ Doing(rest).read = None
    BY DEF Doing
  <2>. HIDE DEF rest, v
  <2>. QED
    BY <2>1, <2>2, <2>3, <2>4
<1>4. v \in [DOMAIN v -> Routines]
  BY <1>1, RestMoves DEF MovesTo
<1>. HIDE DEF rest, v
<1>5. /\ DOMAIN o = DOMAIN v /\ \A h \in DOMAIN v : GoesOn(v, o, h)
      /\ \A h \in DOMAIN v :
           v[h].todo[1][1] = "reload" /\ v[h].todo[1][2] \in {"reload"} /\ v[h].read # None
             => o[h].late
  <2>1. o \in [DOMAIN v -> Routines]
    BY <1>4, OvertakeFacts
  <2>2. \A h \in DOMAIN v : GoesOn(v, o, h)
    BY <1>4, OvertakeFacts
  <2>3. \A h \in DOMAIN v :
          v[h].todo[1][1] = "reload" /\ v[h].todo[1][2] \in {"reload"} /\ v[h].read # None
            => o[h].late
    BY <1>4, OvertakeFacts
  <2>. QED
    BY <2>1, <2>2, <2>3
<1>. HIDE DEF o
<1>6. work' = Beside(o, Refreshing("page", DOMAIN CharacterPages))
  BY DEF o, v, rest
<1>7. /\ DOMAIN work' = DOMAIN o \cup ({"page"} \X Ps)
      /\ \A h \in {"page"} \X Ps : work'[h].read = None
      /\ \A h \in DOMAIN o \ ({"page"} \X Ps) : work'[h] = o[h]
  <2>. DEFINE new == Refreshing("page", DOMAIN CharacterPages)
  <2>1. DOMAIN new = {"page"} \X Ps /\ \A h \in {"page"} \X Ps : new[h].read = None
    BY DEF Refreshing, Doing
  <2>2. work' = Beside(o, new)
    BY <1>6
  <2>. HIDE DEF new, Ps
  <2>. QED
    BY <2>1, <2>2 DEF Beside
<1>. HIDE DEF Ps
<1>8. \A q \in Ps : <<"page", q>> \in DOMAIN work' /\ work'[<<"page", q>>].read = None
  BY <1>7
\* Who has read something was there before.
<1>9. ASSUME NEW h \in DOMAIN work', work'[h].read # None
      PROVE  /\ h \in DOMAIN work /\ At(h)' = At(h)
             /\ work'[h].read = work[h].read /\ (work[h].late => work'[h].late)
             /\ At(h)[1] = "reload" => work'[h].late
  <2>1. h \in DOMAIN o /\ work'[h] = o[h]
    BY <1>7, <1>9
  <2>2. h \in DOMAIN v /\ GoesOn(v, o, h)
    BY <1>5, <2>1
  <2>3. h # User
    BY <1>3, <1>9, <2>1, <2>2 DEF GoesOn
  <2>4. h \in DOMAIN work /\ v[h] = work[h]
    BY <1>3, <2>2, <2>3
  <2>5. At(h)' = At(h) /\ work'[h].read = work[h].read /\ (work[h].late => work'[h].late)
    BY <2>1, <2>2, <2>4 DEF At, GoesOn
  <2>6. ASSUME At(h)[1] = "reload" PROVE work'[h].late
    <3>1. At(h)[2] = "reload"
      <4>1. Does(h, "reload")
        BY <2>4, <2>6 DEF Does, At
      <4>. QED
        BY <1>1, <4>1, ReloadDoes
    <3>2. v[h].todo[1][1] = "reload" /\ v[h].todo[1][2] \in {"reload"} /\ v[h].read # None
      BY <1>9, <2>4, <2>5, <2>6, <3>1 DEF At
    <3>. QED
      BY <1>5, <2>1, <2>2, <3>2
  <2>. QED
    BY <2>4, <2>5, <2>6
<1>10. CurrentFollows'
  BY DEF CurrentFollows
<1>11. ReloadsFollow'
  BY <1>9 DEF ReloadsFollow
<1>12. Tree \in Relevant => TreeRoutine \in DOMAIN work' /\ work'[TreeRoutine].read = None
  BY <1>8, PageSets DEF TreeRoutine, Ps
<1>13. TreeFollows'
  BY <1>1, <1>12 DEF TreeFollows
<1>14. TreeReads'
  <2>1. ASSUME NEW h \in DOMAIN work', At(h)'[1] = "page", At(h)'[2] = Tree, work'[h].read # None
        PROVE  h # TreeRoutine /\ TreeRoutine \in DOMAIN work'
    <3>1. h \in DOMAIN work /\ At(h)' = At(h)
      BY <1>9, <2>1
    <3>2. Does(h, "page") /\ Its(h) = Tree
      BY <2>1, <3>1, <1>1, Doer DEF Does, At
    <3>3. Tree \in Relevant
      BY <1>1, <3>2, PageDoes
    <3>. QED
      BY <1>12, <2>1, <3>3
  <2>. QED
    BY <2>1 DEF TreeReads
<1>15. ListFollows'
  <2>1. opened' # NoCharacter' => RelevantLists # {}
    BY DEF IInv, Follows, ListFollows, NoCharacter
  <2>2. \A q \in RelevantLists : q \in Ps
    BY <1>1, ListPages DEF Ps
  <2>. QED
    BY <1>1, <1>8, <2>1, <2>2 DEF ListFollows, Closing
<1>16. Opener \notin DOMAIN work'
  BY <1>2, <1>3, <1>5, <1>7, FirstOf, PairKinds
<1>17. User \in DOMAIN work' => At(User)' = Cross
  <2>1. ASSUME User \in DOMAIN work' PROVE At(User)' = Cross
    <3>1. User \notin {"page"} \X Ps
      BY FirstOf, PairKinds
    <3>2. User \in DOMAIN v /\ At(User)' = v[User].todo[1]
      BY <1>5, <1>7, <2>1, <3>1 DEF At, GoesOn
    <3>3. rest # <<>> /\ At(User)' = rest[1]
      BY <1>3, <3>2
    <3>. QED
      BY <1>1, <3>3, UserRest DEF rest
  <2>. QED
    BY <2>1
<1>18. UserAlone'
  BY <1>16, <1>17, FirstOf DEF UserAlone
<1>19. ChosenIsThere'
  BY DEF ChosenIsThere, Here
<1>20. OpensFollow'
  BY <1>16 DEF OpensFollow
<1>21. PagesOnly'
  BY <1>1 DEF IInv, Others, PagesOnly
<1>. QED
  BY <1>10, <1>11, <1>13, <1>14, <1>15, <1>18, <1>19, <1>20, <1>21 DEF IInv, Follows, Others

\* Load keeps the invariant: it makes the choice.
LEMMA LoadKeeps ==
    ASSUME IInv, NEW g, Load(g)
    PROVE  IInv'
<1>1. Fits /\ Fits' /\ Frame /\ WorkOK
  BY LoadFits DEF IInv, Fits, TypeInv
<1>2. g = User /\ User \in DOMAIN work /\ Its(g) \in Characters
  BY <1>1, UserDoes DEF Load
<1>3. At(User)[1] = "load" /\ Its(User) = At(User)[2] /\ MayHaveRead(At(User), work[User].read)
  BY <1>1, <1>2, Doer DEF Load, Does, At
<1>4. work[User].read.id = Its(User)
  BY <1>2, <1>3 DEF MayHaveRead, Load, NotYetRead
<1>5. current'.id = chosen' /\ chosen' = Its(User) /\ UNCHANGED <<data, shown, opened>>
  BY <1>2, <1>4 DEF Load
<1>6. Its(User) \in Here
  BY <1>2, <1>3 DEF IInv, Others, UserAlone, Here
<1>7. work' = Beside(Overtake(Continue(User, Tail(work[User].todo)), "reload", {"reload"}),
                     Refreshing("page", DOMAIN CharacterPages))
  BY <1>2 DEF Load
<1>. QED
  BY <1>1, <1>2, <1>3, <1>5, <1>6, <1>7, ChoiceKeeps

\* setAnyCharacter keeps the invariant: a choice, another step of the user, or neither.
LEMMA AnyKeeps ==
    ASSUME IInv, setAnyCharacter
    PROVE  IInv'
<1>1. Fits /\ Fits' /\ Frame /\ WorkOK
  BY AnyFits DEF IInv, Fits, TypeInv
<1>2. /\ Does(User, "deleted") /\ User \in DOMAIN work /\ Its(User) \in Characters
      /\ UNCHANGED <<source, data, shown, opened, events>>
  BY <1>1, UserDoes DEF setAnyCharacter
<1>3. At(User)[1] = "deleted" /\ Its(User) = At(User)[2]
  BY <1>1, <1>2, Doer DEF Does, At
<1>4. CASE current.id = Its(User) /\ Here = {}
  <2>1. current' = NoCharacter /\ chosen' = None
    BY <1>4 DEF setAnyCharacter
  <2>2. current'.id = chosen'
    BY <2>1 DEF NoCharacter
  <2>3. work' = Beside(Overtake(Continue(User, Tail(work[User].todo)), "reload", {"reload"}),
                       Refreshing("page", DOMAIN CharacterPages))
    BY <1>4 DEF setAnyCharacter
  <2>. QED
    BY <1>1, <1>2, <1>3, <2>1, <2>2, <2>3, ChoiceKeeps
<1>5. CASE current.id = Its(User) /\ Here # {}
  <2>1. PICK c \in Here : work' = Continue(User, <<<<"load", c>>>> \o Tail(work[User].todo))
    BY <1>5 DEF setAnyCharacter
  <2>2. UNCHANGED <<current, chosen, excuse>>
    BY <1>5 DEF setAnyCharacter
  <2>. DEFINE todo == <<<<"load", c>>>> \o Tail(work[User].todo)
  <2>3. Plans(User, todo) /\ todo[1] = <<"load", c>> /\ Calm(todo)
    BY <1>1, <1>2, LoadNext DEF Here
  <2>4. work' = Continue(User, todo)
    BY <2>1
  <2>. HIDE DEF todo
  <2>5. todo # <<>>
    BY <2>3 DEF Plans
  <2>6. Moves({User})
    BY <1>1, <1>2, <2>3, <2>4, ContinueMoves DEF Moves
  <2>. QED
    BY <1>1, <1>2, <2>2, <2>3, <2>4, <2>5, <2>6, UserGoesOn
<1>6. CASE current.id # Its(User)
  <2>1. work' = Continue(User, Tail(work[User].todo)) /\ UNCHANGED <<current, chosen, excuse>>
    BY <1>6 DEF setAnyCharacter
  <2>2. Moves({User})
    BY <1>1, <1>2, <2>1, RestMoves DEF Moves
  <2>3. chosen \in Here \cup {None} \/ "current" \in excuse
    <3>1. At(User) = <<"deleted", chosen>> => Its(User) = chosen
      BY <1>3
    <3>. QED
      BY <1>3, <1>6, <3>1 DEF IInv, Others, ChosenIsThere, Follows, CurrentFollows
  <2>. QED
    BY <1>1, <1>2, <2>1, <2>2, <2>3, UserGoesOn
<1>. QED
  BY <1>4, <1>5, <1>6

\* A goroutine reads: what is of the current character, or has closed the list.
LEMMA LooksKeeps ==
    ASSUME IInv, Fits', Frame, UNCHANGED <<data, current, shown, chosen, excuse>>,
           NEW g, Looks(g),
           At(g)[1] = "reload" => work'[g].read = NoCharacter \/ work'[g].read.id = current.id,
           At(g)[1] = "page" /\ At(g)[2] = Tree => work'[g].read.rows.id = current.id,
           \/ opened' = NoCharacter
           \/ opened' = opened /\ \A q \in RelevantLists : g # <<"page", q>>
    PROVE  IInv'
<1>1. Relevant' = Relevant /\ RelevantLists' = RelevantLists /\ NoCharacter' = NoCharacter
  BY SameSets
<1>2. /\ DOMAIN work' = DOMAIN work
      /\ \A h \in DOMAIN work : At(h)' = At(h) /\ (work[h].late => work'[h].late)
      /\ \A h \in DOMAIN work \ {g} : work'[h].read = work[h].read
  BY DEF Looks, GoesOn, At
<1>3. Others'
  BY LooksOthers DEF IInv
<1>4. CurrentFollows'
  BY DEF IInv, Follows, CurrentFollows
<1>5. ReloadsFollow'
  BY <1>1, <1>2 DEF IInv, Follows, ReloadsFollow
<1>6. TreeFollows'
  BY <1>1, <1>2 DEF IInv, Follows, TreeFollows
<1>7. TreeReads'
  <2>1. ASSUME NEW h \in DOMAIN work', At(h)'[1] = "page", At(h)'[2] = Tree,
               work'[h].read # None, ~work'[h].late
        PROVE  \/ work'[h].read.rows.id = chosen'
               \/ "current" \in excuse'
               \/ h # TreeRoutine /\ TreeRoutine \in DOMAIN work'
    <3>1. CASE h = g
      BY <1>2, <2>1, <3>1 DEF IInv, Follows, CurrentFollows
    <3>2. CASE h # g
      BY <1>2, <2>1, <3>2 DEF IInv, Follows, TreeReads
    <3>. QED
      BY <3>1, <3>2
  <2>. QED
    BY <2>1 DEF TreeReads
<1>8. ListFollows'
  <2>1. CASE opened' = NoCharacter
    BY <1>1, <2>1 DEF ListFollows
  <2>2. CASE opened' = opened /\ \A q \in RelevantLists : g # <<"page", q>>
    <3>1. Closing => Closing'
      BY <1>1, <1>2, <2>2 DEF Closing
    <3>. QED
      BY <1>1, <2>2, <3>1 DEF IInv, Follows, ListFollows
  <2>. QED
    BY <2>1, <2>2
<1>. QED
  BY <1>3, <1>4, <1>5, <1>6, <1>7, <1>8 DEF IInv, Follows

\* What is done while the goroutine of a page is going to close its list.
LEMMA NotClosing ==
    ASSUME WorkOK, NEW g \in DOMAIN work, At(g)[1] # "page"
    PROVE  \A q : g # <<"page", q>>
  BY NamedDo, FirstOf

\* Read keeps the invariant: what a reload reads is of the current character.
LEMMA ReadKeeps ==
    ASSUME IInv, NEW g, Read(g)
    PROVE  IInv'
<1>1. Does(g, "load") => data[Its(g)] # None
  <2>1. ASSUME Does(g, "load") PROVE data[Its(g)] # None
    <3>1. g = User /\ User \in DOMAIN work /\ At(User)[1] = "load" /\ Its(g) = At(User)[2]
      BY <2>1, UserDoes, Doer DEF Does, At, IInv, Fits, TypeInv
    <3>. QED
      BY <3>1 DEF IInv, Others, UserAlone
  <2>. QED
    BY <2>1
<1>2. Fits' /\ Frame
  BY <1>1, ReadFits DEF IInv
<1>3. /\ g \in DOMAIN work /\ Looks(g)
      /\ Does(g, "load") \/ Does(g, "open") \/ Does(g, "reload")
      /\ Does(g, "reload") => work'[g].read.id = current.id \/ work'[g].read = NoCharacter
  BY <1>1, ReadReads DEF IInv, Fits, TypeInv
<1>4. /\ At(g)[1] \in {"load", "open", "reload"}
      /\ At(g)[1] = "reload" => work'[g].read.id = current.id \/ work'[g].read = NoCharacter
  BY <1>3 DEF Does, At
<1>5. \A q \in RelevantLists : g # <<"page", q>>
  BY <1>3, <1>4, NotClosing DEF IInv, Fits, TypeInv
<1>. QED
  BY <1>2, <1>3, <1>4, <1>5, LooksKeeps DEF Read

\* ReadPage keeps the invariant: the page closes its list first.
LEMMA ReadPageKeeps ==
    ASSUME IInv, NEW g, ReadPage(g)
    PROVE  IInv'
<1>1. Fits' /\ Frame /\ ValuesOK /\ WorkOK
  BY ReadPageFits DEF IInv, Fits, TypeInv
<1>2. g \in DOMAIN work /\ Looks(g) /\ Does(g, "page") /\ work'[g].read = View(Its(g))
  BY <1>1, ReadPageReads
<1>3. At(g)[1] = "page" /\ Its(g) = At(g)[2] /\ Its(g) \in Relevant
  BY <1>1, <1>2, Doer, PageDoes DEF Does, At
<1>4. At(g)[2] = Tree => work'[g].read.rows.id = current.id
  BY <1>1, <1>2, <1>3, ViewRead, PageSets
<1>5. \/ opened' = NoCharacter
      \/ opened' = opened /\ \A q \in RelevantLists : g # <<"page", q>>
  <2>1. ASSUME NEW q \in RelevantLists, g = <<"page", q>> PROVE Closes(g)
    <3>1. Its(g) = q /\ g[1] = "page"
      BY <1>1, <1>2, <1>3, <2>1, NamedDo
    <3>. QED
      BY <1>2, <3>1 DEF Closes
  <2>2. CASE Closes(g)
    BY <2>2 DEF ReadPage, Close
  <2>3. CASE ~Closes(g)
    BY <2>1, <2>3 DEF ReadPage, Close
  <2>. QED
    BY <2>2, <2>3
<1>6. UNCHANGED <<data, current, shown, chosen, excuse>> /\ At(g)[1] # "reload"
  BY <1>3 DEF ReadPage
<1>. QED
  BY <1>1, <1>2, <1>3, <1>4, <1>5, <1>6, LooksKeeps

\* A failing reload keeps the invariant: it has read that there is no character.
LEMMA FailedReloadKeeps ==
    ASSUME IInv, NEW g, Fail(g), FailedReload(g)
    PROVE  IInv'
<1>1. Fits' /\ Frame /\ WorkOK
  BY FailFits DEF IInv, Fits, TypeInv
<1>2. UNCHANGED <<data, current, shown, opened, chosen, excuse>>
  BY FailKinds DEF FailedReload
<1>3. Looks(g) /\ work'[g].read = NoCharacter
  BY <1>1, FailedMoves
<1>4. g \in DOMAIN work /\ At(g)[1] = "reload"
  BY DEF FailedReload, Does, At
<1>5. \A q \in RelevantLists : g # <<"page", q>>
  BY <1>1, <1>4, NotClosing
<1>. QED
  BY <1>1, <1>2, <1>3, <1>4, <1>5, LooksKeeps

\* Who has read something when others have gone on had read it before.
LEMMA ReadBefore ==
    ASSUME NEW N, Moves(N), NEW h \in DOMAIN work', work'[h].read # None
    PROVE  /\ h \in DOMAIN work /\ At(h)' = At(h) /\ work'[h].read = work[h].read
           /\ work[h].late => work'[h].late
  BY DEF Moves, MovesTo, GoesOn, At

\* A list opens, or fails to.
LEMMA ListKeeps ==
    ASSUME IInv, Fits', Frame, UNCHANGED <<data, current, shown, chosen>>,
           NEW g, Does(g, "open"), work' = Continue(g, <<>>),
           \/ opened' \in {opened, NoCharacter} /\ excuse' = excuse
           \/ /\ opened' = work[g].read /\ work[g].read # None
              /\ excuse' = IF work[g].late THEN excuse \cup {"list"} ELSE excuse \ {"list"}
    PROVE  IInv'
<1>1. WorkOK /\ Relevant' = Relevant /\ RelevantLists' = RelevantLists /\ NoCharacter' = NoCharacter
  BY SameSets DEF IInv, Fits, TypeInv
<1>2. g = Opener /\ Opener \in DOMAIN work /\ At(Opener)[1] = "open"
  BY <1>1, OpenerDoes DEF Does, At
<1>3. Moves({Opener}) /\ Opener \notin DOMAIN work'
  BY <1>1, <1>2, EndMoves, ContinueShape DEF Moves
<1>4. "list" # "current" /\ "list" # Tree
  BY DEF Tree
<1>5. \A x \in {"current", Tree} : x \in excuse => x \in excuse'
  BY <1>4
<1>6. Others'
  <2>1. User # Opener
    BY DEF User, Opener
  <2>. QED
    BY <1>3, <1>5, <2>1, SameDataStays, QuietOthers DEF IInv
<1>7. PagesGoOn
  BY <1>3, FirstOf, PagesStay
<1>8. TreeRoutine \in DOMAIN work => TreeRoutine \in DOMAIN work'
  BY <1>7 DEF PagesGoOn, TreeRoutine
<1>9. CurrentFollows'
  BY <1>5 DEF IInv, Follows, CurrentFollows
<1>10. ReloadsFollow'
  BY <1>1, <1>3, ReadBefore DEF IInv, Follows, ReloadsFollow
<1>11. TreeFollows'
  BY <1>1, <1>5, <1>8 DEF IInv, Follows, TreeFollows
<1>12. TreeReads'
  BY <1>3, <1>5, <1>8, ReadBefore DEF IInv, Follows, TreeReads
<1>13. ListFollows'
  <2>1. CASE opened' \in {opened, NoCharacter} /\ excuse' = excuse
    <3>1. Closing => Closing'
      BY <1>1, <1>7 DEF Closing, PagesGoOn
    <3>. QED
      BY <1>1, <2>1, <3>1 DEF IInv, Follows, ListFollows
  <2>2. CASE /\ opened' = work[g].read /\ work[g].read # None
             /\ excuse' = IF work[g].late THEN excuse \cup {"list"} ELSE excuse \ {"list"}
    <3>1. work[Opener].read.id = At(Opener)[2]
      BY <1>1, <1>2, <2>2, Doer DEF MayHaveRead
    <3>2. RelevantLists # {} /\ (work[Opener].late \/ At(Opener)[2] = chosen)
      BY <1>2 DEF IInv, Others, OpensFollow
    <3>. QED
      BY <1>1, <1>2, <2>2, <3>1, <3>2 DEF ListFollows
  <2>. QED
    BY <2>1, <2>2
<1>. QED
  BY <1>6, <1>9, <1>10, <1>11, <1>12, <1>13 DEF IInv, Follows

\* ShowList keeps the invariant: the list that opens is of the chosen character.
LEMMA ShowListKeeps ==
    ASSUME IInv, NEW g, ShowList(g)
    PROVE  IInv'
<1>1. Fits' /\ Frame
  BY ShowListFits DEF IInv
<1>. QED
  BY <1>1, ListKeeps DEF ShowList, NotYetRead

\* A list that fails to open keeps the invariant.
LEMMA FailedOpenKeeps ==
    ASSUME IInv, NEW g, Fail(g), FailedOpen(g)
    PROVE  IInv'
<1>1. Fits' /\ Frame
  BY FailFits DEF IInv
<1>2. UNCHANGED <<data, current, shown, chosen>>
  BY FailKinds
<1>. QED
  BY <1>1, <1>2, ListKeeps DEF FailedOpen

\* A reload sets the current character.
LEMMA ReloadKeeps ==
    ASSUME IInv, NEW g, Reload(g)
    PROVE  IInv'
<1>1. Fits' /\ Frame /\ WorkOK
  BY ReloadFits DEF IInv, Fits, TypeInv
<1>2. Relevant' = Relevant /\ RelevantLists' = RelevantLists /\ NoCharacter' = NoCharacter
  BY <1>1, SameSets
<1>3. g \in DOMAIN work /\ At(g) = <<"reload", "reload">> /\ g[1] \in {"section", "general", "mail"}
  BY <1>1, ReloadDoes DEF Reload
<1>4. Moves({g})
  BY <1>1, ReloadMoves
<1>5. UNCHANGED <<data, shown, opened, chosen>> /\ excuse \subseteq excuse'
  BY DEF Reload
<1>6. g # User /\ g # Opener /\ \A p : g # <<"page", p>>
  BY <1>3, FirstOf
<1>7. Others'
  BY <1>1, <1>3, <1>4, <1>5, <1>6, SameDataStays, QuietOthers DEF IInv
<1>8. PagesGoOn
  BY <1>4, <1>6, PagesStay
<1>9. TreeRoutine \in DOMAIN work => TreeRoutine \in DOMAIN work'
  BY <1>8 DEF PagesGoOn, TreeRoutine
<1>10. CurrentFollows'
  <2>1. CASE current.id = None /\ NotYetRead(g)
    BY <2>1 DEF Reload, IInv, Follows, CurrentFollows
  <2>2. CASE ~(current.id = None /\ NotYetRead(g))
    <3>1. /\ ~NotYetRead(g) /\ current' = work[g].read
          /\ excuse' = IF work[g].late \/ current' = NoCharacter THEN excuse \cup {"current"} ELSE excuse
      BY <2>2 DEF Reload
    <3>2. ~work[g].late /\ current' # NoCharacter => work[g].read.id = current.id
      BY <1>3, <3>1 DEF IInv, Follows, ReloadsFollow, NotYetRead
    <3>. QED
      BY <1>5, <3>1, <3>2 DEF IInv, Follows, CurrentFollows
  <2>. QED
    BY <2>1, <2>2
\* The other reloads that have read are late.
<1>11. ASSUME NEW h \in DOMAIN work', At(h)'[1] = "reload", work'[h].read # None
       PROVE  work'[h].late
  <2>. DEFINE v == Continue(g, Tail(work[g].todo))
  <2>1. h \in DOMAIN work /\ At(h)' = At(h) /\ work'[h].read = work[h].read
    BY <1>4, <1>11, ReadBefore
  <2>2. h # g
    BY <1>4, <1>11 DEF Moves, MovesTo
  <2>3. v \in [DOMAIN v -> Routines]
    BY <1>1, <1>3, RestMoves DEF MovesTo
  <2>4. h \in DOMAIN v /\ v[h] = work[h]
    BY <1>3, <2>1, <2>2 DEF Continue
  <2>. HIDE DEF v
  <2>5. work' = Overtake(v, "reload", {"reload"})
    BY DEF Reload, v
  <2>6. At(h) = <<"reload", "reload">>
    <3>1. Does(h, "reload")
      BY <1>11, <2>1 DEF Does, At
    <3>. QED
      BY <1>1, <3>1, ReloadDoes
  <2>7. v[h].todo[1][1] = "reload" /\ v[h].todo[1][2] \in {"reload"} /\ v[h].read # None
    BY <1>11, <2>1, <2>4, <2>6 DEF At
  <2>. QED
    BY <2>3, <2>4, <2>5, <2>7, OvertakeFacts
<1>12. ReloadsFollow'
  BY <1>11 DEF ReloadsFollow
<1>13. TreeFollows'
  BY <1>2, <1>5, <1>9 DEF IInv, Follows, TreeFollows
<1>14. TreeReads'
  BY <1>4, <1>5, <1>9, ReadBefore DEF IInv, Follows, TreeReads
<1>15. Closing => Closing'
  BY <1>2, <1>8 DEF Closing, PagesGoOn
<1>16. ListFollows'
  BY <1>2, <1>5, <1>15 DEF IInv, Follows, ListFollows
<1>. QED
  BY <1>1, <1>7, <1>10, <1>12, <1>13, <1>14, <1>16 DEF IInv, Follows

\* When a page has been refreshed the other refreshes of it that have read are late.
LEMMA OthersAreLate ==
    ASSUME WorkOK, NEW g \in DOMAIN work, NEW X,
           LET o == Overtake(Continue(g, Tail(work[g].todo)), "page", {Its(g)})
           IN work' = o \/ work' = Overtake(o, "open", X),
           NEW h \in DOMAIN work \ {g}, At(h)[1] = "page", At(h)[2] = Its(g), work[h].read # None
    PROVE  work'[h].late
<1>. DEFINE v == Continue(g, Tail(work[g].todo))
            o == Overtake(v, "page", {Its(g)})
<1>1. v \in [DOMAIN v -> Routines]
  BY RestMoves DEF MovesTo
<1>2. h \in DOMAIN v /\ v[h] = work[h]
  BY DEF Continue
<1>. HIDE DEF v
<1>3. v[h].todo[1][1] = "page" /\ v[h].todo[1][2] \in {Its(g)} /\ v[h].read # None
  BY <1>2 DEF At
<1>4. o \in [DOMAIN v -> Routines] /\ o[h].late
  BY <1>1, <1>2, <1>3, OvertakeFacts
<1>5. work' = o \/ work' = Overtake(o, "open", X)
  BY DEF v
<1>. HIDE DEF o
<1>6. h \in DOMAIN o /\ o \in [DOMAIN o -> Routines]
  BY <1>2, <1>4
<1>7. GoesOn(o, Overtake(o, "open", X), h)
  BY <1>6, OvertakeFacts
<1>. QED
  BY <1>4, <1>5, <1>7 DEF GoesOn

\* A refresh ends: the tree of locations is of the chosen character, and what else
\* is shown stays as it was.
LEMMA PageKeeps ==
    ASSUME IInv, Fits', Frame, UNCHANGED <<data, current, chosen>>,
           NEW g, Does(g, "page"), Moves({g}),
           \A x \in {"current", "list"} : x \in excuse => x \in excuse',
           Its(g) # Tree => shown'[Tree] = shown[Tree] /\ (Tree \in excuse => Tree \in excuse'),
           Its(g) = Tree => \/ shown'[Tree].rows.id = chosen
                            \/ excuse' \cap {Tree, "current"} # {}
                            \/ g # TreeRoutine /\ TreeRoutine \in DOMAIN work,
           \A h \in DOMAIN work \ {g} :
             At(h)[1] = "page" /\ At(h)[2] = Its(g) /\ work[h].read # None => work'[h].late,
           \/ opened' = NoCharacter
           \/ opened' = opened /\ \A q \in RelevantLists : g = <<"page", q>> => work[g].read # None
    PROVE  IInv'
<1>1. /\ WorkOK /\ Relevant' = Relevant /\ RelevantLists' = RelevantLists
      /\ NoCharacter' = NoCharacter
  BY SameSets DEF IInv, Fits, TypeInv
<1>2. /\ g \in DOMAIN work /\ At(g)[1] = "page" /\ Its(g) = At(g)[2] /\ g # User /\ g # Opener
  BY <1>1, PageDoes, Doer, FirstOf DEF Does, At
<1>3. Others'
  BY <1>2, SameDataStays, QuietOthers DEF IInv
<1>4. \A h \in DOMAIN work \ {g} : h \in DOMAIN work' /\ work'[h].read = work[h].read
  BY DEF Moves, MovesTo, GoesOn
<1>5. Its(g) # Tree => g # TreeRoutine
  BY <1>1, <1>2, NamedDo DEF TreeRoutine
<1>6. CurrentFollows'
  BY DEF IInv, Follows, CurrentFollows
<1>7. ReloadsFollow'
  BY <1>1, ReadBefore DEF IInv, Follows, ReloadsFollow
<1>8. TreeFollows'
  BY <1>1, <1>4, <1>5 DEF IInv, Follows, TreeFollows
<1>9. TreeReads'
  <2>1. ASSUME NEW h \in DOMAIN work', At(h)'[1] = "page", At(h)'[2] = Tree,
               work'[h].read # None, ~work'[h].late
        PROVE  \/ work'[h].read.rows.id = chosen'
               \/ "current" \in excuse'
               \/ h # TreeRoutine /\ TreeRoutine \in DOMAIN work'
    <3>1. /\ h \in DOMAIN work /\ At(h)' = At(h) /\ work'[h].read = work[h].read
          /\ ~work[h].late
      BY <2>1, ReadBefore
    <3>2. h # g
      BY <2>1 DEF Moves, MovesTo
    <3>3. Its(g) # Tree
      BY <2>1, <3>1, <3>2
    <3>4. \/ work[h].read.rows.id = chosen
          \/ "current" \in excuse
          \/ h # TreeRoutine /\ TreeRoutine \in DOMAIN work
      BY <2>1, <3>1 DEF IInv, Follows, TreeReads
    <3>. QED
      BY <1>4, <1>5, <3>1, <3>3, <3>4
  <2>. QED
    BY <2>1 DEF TreeReads
<1>10. ListFollows'
  <2>1. CASE opened' = NoCharacter
    BY <1>1, <2>1 DEF ListFollows
  <2>2. CASE opened' = opened /\ \A q \in RelevantLists : g = <<"page", q>> => work[g].read # None
    <3>1. Closing => Closing'
      BY <1>1, <1>4, <2>2 DEF Closing
    <3>. QED
      BY <1>1, <2>2, <3>1 DEF IInv, Follows, ListFollows
  <2>. QED
    BY <2>1, <2>2
<1>. QED
  BY <1>3, <1>6, <1>7, <1>8, <1>9, <1>10 DEF IInv, Follows

\* Show keeps the invariant: the page shows the chosen character, or it was late.
LEMMA ShowKeeps ==
    ASSUME IInv, NEW g, Show(g)
    PROVE  IInv'
<1>1. Fits' /\ Frame /\ ValuesOK /\ WorkOK
  BY ShowFits DEF IInv, Fits, TypeInv
<1>2. /\ g \in DOMAIN work /\ Its(g) \in Relevant
      /\ shown' = [shown EXCEPT ![Its(g)] = shown'[Its(g)]]
      /\ Its(g) \notin KeepRows => shown'[Its(g)].rows = work[g].read.rows
  BY <1>1, ShowShows
<1>3. /\ Does(g, "page") /\ work[g].read # None
      /\ UNCHANGED <<data, current, opened, chosen>>
      /\ excuse' = IF work[g].late THEN excuse \cup {Its(g)} ELSE excuse \ {Its(g)}
  BY DEF Show, NotYetRead
<1>4. Moves({g})
  BY <1>1, ShowMoves
<1>5. \A x \in {"current", "list"} : x \in excuse => x \in excuse'
  <2>1. Its(g) \in AllPages
    BY <1>2 DEF IInv, Others, PagesOnly
  <2>2. "current" \notin AllPages /\ "list" \notin AllPages
    BY PageSets DEF AllPages
  <2>. QED
    BY <1>3, <2>1, <2>2
<1>6. Its(g) # Tree => shown'[Tree] = shown[Tree] /\ (Tree \in excuse => Tree \in excuse')
  <2>1. ASSUME Its(g) # Tree PROVE shown'[Tree] = shown[Tree]
    <3>. DEFINE value == shown'[Its(g)]
    <3>1. shown' = [shown EXCEPT ![Its(g)] = value]
      BY <1>2
    <3>. HIDE DEF value
    <3>. QED
      BY <2>1, <3>1
  <2>. QED
    BY <1>3, <2>1
<1>7. Its(g) = Tree => \/ shown'[Tree].rows.id = chosen
                       \/ excuse' \cap {Tree, "current"} # {}
                       \/ g # TreeRoutine /\ TreeRoutine \in DOMAIN work
  <2>1. ASSUME Its(g) = Tree, ~work[g].late
        PROVE  \/ shown'[Tree].rows.id = chosen
               \/ "current" \in excuse
               \/ g # TreeRoutine /\ TreeRoutine \in DOMAIN work
    <3>1. shown'[Tree].rows = work[g].read.rows
      BY <1>2, <2>1, PageSets
    <3>2. At(g)[1] = "page" /\ At(g)[2] = Tree
      BY <1>1, <1>2, <1>3, <2>1, Doer DEF Does, At
    <3>. QED
      BY <1>2, <1>3, <2>1, <3>1, <3>2 DEF IInv, Follows, TreeReads
  <2>. QED
    BY <1>3, <1>5, <2>1
<1>8. \A h \in DOMAIN work \ {g} :
        At(h)[1] = "page" /\ At(h)[2] = Its(g) /\ work[h].read # None => work'[h].late
  <2>1. work' = Overtake(Continue(g, Tail(work[g].todo)), "page", {Its(g)})
    BY DEF Show
  <2>. QED
    BY <1>1, <1>2, <2>1, OthersAreLate
<1>. QED
  BY <1>1, <1>3, <1>4, <1>5, <1>6, <1>7, <1>8, PageKeeps

\* A failing refresh keeps the invariant: the page is excused.
LEMMA FailedPageKeeps ==
    ASSUME IInv, NEW g, Fail(g), FailedPage(g)
    PROVE  IInv'
<1>1. Fits' /\ Frame /\ WorkOK
  BY FailFits DEF IInv, Fits, TypeInv
<1>2. UNCHANGED <<data, current, shown, chosen>> /\ excuse' = excuse \cup {Its(g)}
  BY FailKinds DEF FailedPage
<1>3. Does(g, "page") /\ g \in DOMAIN work /\ Moves({g})
  BY <1>1, FailedMoves DEF FailedPage, Does
<1>4. \/ opened' = NoCharacter
      \/ opened' = opened /\ \A q \in RelevantLists : g = <<"page", q>> => work[g].read # None
  <2>1. ASSUME NEW q \in RelevantLists, g = <<"page", q>> PROVE Closes(g)
    <3>1. Its(g) = q /\ g[1] = "page"
      BY <1>1, <1>3, <2>1, NamedDo, Doer
    <3>. QED
      BY <1>3, <3>1 DEF Closes
  <2>2. CASE Closes(g)
    BY <2>2 DEF FailedPage, Close
  <2>3. CASE ~Closes(g)
    BY <2>1, <2>3 DEF FailedPage, Close
  <2>. QED
    BY <2>2, <2>3
<1>5. \A h \in DOMAIN work \ {g} :
        At(h)[1] = "page" /\ At(h)[2] = Its(g) /\ work[h].read # None => work'[h].late
  <2>. DEFINE X == IF Closes(g) THEN Characters ELSE {}
  <2>1. work' = Overtake(Overtake(Continue(g, Tail(work[g].todo)), "page", {Its(g)}), "open", X)
    BY DEF FailedPage
  <2>. HIDE DEF X
  <2>. QED
    BY <1>1, <1>3, <2>1, OthersAreLate
<1>. QED
  BY <1>1, <1>2, <1>3, <1>4, <1>5, PageKeeps

----------------------------------------------------------------------------
(* The choice of the user is followed *)

\* When the program has started the invariant holds.
LEMMA InitHolds == Init => IInv
<1>. SUFFICES ASSUME Init PROVE IInv
  OBVIOUS
<1>1. source \in Sources /\ MaxEvents \in Nat
  BY Bounds DEF Init
<1>2. 0 \in Versions /\ None \in Versions
  BY <1>1 DEF Versions
<1>3. data \in [Characters -> Versions] /\ \A c \in Characters : data[c] \in {0, None}
  BY <1>2 DEF Init
<1>4. current \in Copies /\ current.id \in Here \cup {None} /\ chosen = current.id
  <2>1. CASE Here = {}
    BY <2>1 DEF Init, NoCharacter, Copies
  <2>2. CASE Here # {}
    <3>1. current \in [id : Here, ver : {0}] /\ chosen = current.id
      BY <2>2 DEF Init
    <3>. QED
      BY <1>2, <3>1 DEF Copies, Here, Versions
  <2>. QED
    BY <2>1, <2>2
<1>5. PICK p \in Areas[source] : shown = [q \in {p} |-> View(q)]
  BY DEF Init
<1>6. Relevant = {p} /\ shown[p] = View(p)
  BY <1>5 DEF Relevant
<1>7. p \in AllPages
  BY <1>1 DEF Areas
<1>8. work = <<>> /\ DOMAIN work = {}
  BY DEF Init
<1>9. ValuesOK
  <2>. DEFINE one == IF current.id = None THEN NoCharacter
                     ELSE [id |-> current.id, ver |-> data[current.id]]
              rows == IF p \in DOMAIN CrossPages THEN data ELSE one
              all == IF p \in DOMAIN CrossPages THEN [Characters -> Versions] ELSE Copies
  <2>1. one \in Copies
    <3>1. CASE current.id = None
      BY <3>1 DEF NoCharacter, Copies
    <3>2. CASE current.id # None
      <4>1. current.id \in Characters /\ data[current.id] \in Versions
        BY <1>3, <1>4, <3>2 DEF Here
      <4>. QED
        BY <3>2, <4>1 DEF Copies, Versions
    <3>. QED
      BY <3>1, <3>2
  <2>2. View(p) = [rows |-> rows, copy |-> current] /\ Views(p) = [rows : all, copy : Copies]
    BY DEF View, Views
  <2>. HIDE DEF one
  <2>3. rows \in all
    BY <1>3, <2>1
  <2>. HIDE DEF rows, all
  <2>4. \A q \in Relevant : shown[q] \in Views(q)
    BY <1>4, <1>6, <2>2, <2>3
  <2>5. opened \in Copies
    BY DEF Init, NoCharacter, Copies
  <2>6. events \in 0..MaxEvents /\ excuse = {}
    BY <1>1 DEF Init
  <2>7. chosen \in Characters \cup {None}
    BY <1>4 DEF Here
  <2>. QED
    BY <1>1, <1>3, <1>4, <2>4, <2>5, <2>6, <2>7 DEF ValuesOK
<1>10. WorkOK
  BY <1>8 DEF WorkOK

<1>11. VersionsFit
  BY <1>1, <1>3, <1>8 DEF VersionsFit, Due, Init
<1>12. Others
  BY <1>4, <1>6, <1>7, <1>8 DEF Others, PagesOnly, UserAlone, ChosenIsThere, OpensFollow
<1>13. Follows
  <2>1. CurrentFollows
    BY <1>4 DEF CurrentFollows
  <2>2. ReloadsFollow /\ TreeReads
    BY <1>8 DEF ReloadsFollow, TreeReads
  <2>3. TreeFollows
    <3>1. Tree \in Relevant => shown[Tree].rows.id = current.id
      BY <1>6, <1>9, ViewRead, PageSets
    <3>. QED
      BY <1>4, <3>1 DEF TreeFollows
  <2>4. ListFollows
    BY DEF Init, ListFollows
  <2>. QED
    BY <2>1, <2>2, <2>3, <2>4 DEF Follows
<1>. QED
  BY <1>9, <1>10, <1>11, <1>12, <1>13 DEF IInv, Fits, TypeInv

\* Every failing read keeps the invariant,
LEMMA FailKeeps ==
    ASSUME IInv, NEW g, Fail(g)
    PROVE  IInv'
  BY FailKinds, FailedPageKeeps, FailedReloadKeeps, FailedOpenKeeps

\* ... every step that changes nothing,
LEMMA NothingKeeps ==
    ASSUME IInv, UNCHANGED vars
    PROVE  IInv'
<1>1. UNCHANGED <<source, data, current, shown, opened, work, events, chosen, excuse>>
  BY DEF vars
<1>2. Moves({})
  BY <1>1, NoMoves DEF IInv, Fits, TypeInv, Moves
<1>3. Fits' /\ Frame
  BY <1>1, <1>2, OnlyWork DEF IInv
<1>. QED
  BY <1>1, <1>2, <1>3, SameDataStays, PlainKeeps

\* ... and therefore every step.
LEMMA NextKeeps == IInv /\ [Next]_vars => IInv'
<1>. SUFFICES ASSUME IInv, [Next]_vars PROVE IInv'
  OBVIOUS
<1>1. CASE UNCHANGED vars
  BY <1>1, NothingKeeps
<1>2. ASSUME NEW g \in DOMAIN work, Step(g) PROVE IInv'
  BY <1>2, UpdateKeeps, UpdateGeneralKeeps, AskKeeps, MarkKeeps, UpdateCrossKeeps, ReadKeeps,
     ReadPageKeeps, ShowKeeps, ShowListKeeps, ReloadKeeps, LoadKeeps DEF Step
<1>3. ASSUME NEW g \in DOMAIN work, Fail(g) PROVE IInv'
  BY <1>3, FailKeeps
<1>4. CASE setAnyCharacter \/ HasCharacter \/ ReadMail
  BY <1>4, AnyKeeps, HasCharacterKeeps, ReadMailKeeps
<1>5. ASSUME NEW s \in GeneralSections, CheckGeneral(s) PROVE IInv'
  BY <1>5, CheckGeneralKeeps
<1>6. ASSUME NEW p \in RelevantLists, Open(p) PROVE IInv'
  BY <1>6, OpenKeeps
<1>7. ASSUME NEW c \in Characters, Check(c) \/ Switch(c) \/ Delete(c) \/ Add(c) PROVE IInv'
  BY <1>7, CheckKeeps, SwitchKeeps, DeleteKeeps, AddKeeps
<1>. QED
  BY <1>1, <1>2, <1>3, <1>4, <1>5, <1>6, <1>7 DEF Next

\* The source that is followed is always the same.
LEMMA SourceStays == ASSUME [Next]_vars PROVE source' = source
<1>1. CASE UNCHANGED vars
  BY <1>1 DEF vars
<1>2. ASSUME NEW g, Step(g) PROVE source' = source
  BY <1>2 DEF Step, Update, UpdateGeneral, Mark, Ask, UpdateCrossPages, Read, ReadPage, Show,
     ShowList, Reload, Load
<1>3. ASSUME NEW g, Fail(g) PROVE source' = source
  BY <1>3 DEF Fail
<1>4. CASE setAnyCharacter \/ HasCharacter \/ ReadMail
  BY <1>4 DEF setAnyCharacter, HasCharacter, ReadMail
<1>5. ASSUME NEW s, CheckGeneral(s) PROVE source' = source
  BY <1>5 DEF CheckGeneral
<1>6. ASSUME NEW p, Open(p) PROVE source' = source
  BY <1>6 DEF Open
<1>7. ASSUME NEW c, Check(c) \/ Switch(c) \/ Delete(c) \/ Add(c) PROVE source' = source
  BY <1>7 DEF Check, Switch, Delete, Add
<1>. QED
  BY <1>1, <1>2, <1>3, <1>4, <1>5, <1>6, <1>7 DEF Next

\* The pages are told of nothing, or of versions that are in the database.
LEMMA Tells ==
    ASSUME [Next]_vars
    PROVE  told' = told \/ \E S : Tell(S)
<1>1. CASE UNCHANGED vars
  BY <1>1 DEF vars
<1>2. ASSUME NEW g \in DOMAIN work, Step(g) PROVE told' = told \/ \E S : Tell(S)
  <2>1. CASE Update(g) \/ UpdateGeneral(g) \/ Mark(g)
    BY <2>1, Zenon DEF Update, UpdateGeneral, Mark
  <2>2. CASE Ask(g) \/ UpdateCrossPages(g) \/ Read(g) \/ ReadPage(g) \/ Show(g)
             \/ ShowList(g) \/ Reload(g) \/ Load(g)
    BY <2>2 DEF Ask, UpdateCrossPages, Read, ReadPage, Show, ShowList, Reload, Load
  <2>. QED
    BY <1>2, <2>1, <2>2 DEF Step
<1>3. ASSUME NEW g, Fail(g) PROVE told' = told
  BY <1>3 DEF Fail
<1>4. CASE setAnyCharacter \/ HasCharacter \/ ReadMail
  BY <1>4 DEF setAnyCharacter, HasCharacter, ReadMail
<1>5. ASSUME NEW s, CheckGeneral(s) PROVE told' = told
  BY <1>5 DEF CheckGeneral
<1>6. ASSUME NEW p, Open(p) PROVE told' = told
  BY <1>6 DEF Open
<1>7. ASSUME NEW c, Check(c) \/ Switch(c) \/ Delete(c) \/ Add(c)
      PROVE  told' = told \/ \E S : Tell(S)
  BY <1>7 DEF Check, Switch, Delete, Add
<1>. QED
  BY <1>1, <1>2, <1>3, <1>4, <1>5, <1>6, <1>7 DEF Next

\* Their type is kept, as that of the database is.
LEMMA ToldKeeps == IInv /\ ToldOK /\ [Next]_vars => ToldOK'
<1>. SUFFICES ASSUME IInv, ToldOK, [Next]_vars PROVE ToldOK'
  OBVIOUS
<1>1. IInv'
  BY NextKeeps
<1>2. data' \in [Characters -> Versions'] /\ source' \in Sources
  BY <1>1 DEF IInv, Fits, TypeInv, ValuesOK
<1>3. Versions' = Versions
  BY SourceStays DEF Versions, MaxEvents
<1>4. CASE told' = told
  BY <1>3, <1>4 DEF ToldOK
<1>5. ASSUME NEW S, Tell(S) PROVE ToldOK'
  BY <1>2, <1>3, <1>5 DEF Tell, ToldOK
<1>. QED
  BY <1>4, <1>5, Tells

\* The invariant is what was to be shown of the states at rest.
LEMMA ChoiceFollows == IInv /\ ToldOK => ChoiceIsFollowed
<1>. SUFFICES ASSUME IInv, ToldOK PROVE ChoiceIsFollowed
  OBVIOUS
<1>1. TypeOK
  BY TypeInvIsType DEF IInv, Fits
<1>2. AtRest => User \notin DOMAIN work /\ ~Closing
  BY DEF AtRest, Closing
<1>3. CurrentIsChosen
  BY <1>2 DEF CurrentIsChosen, IInv, Others, ChosenIsThere, Follows, CurrentFollows
<1>4. ListIsOfChosen
  BY <1>2 DEF ListIsOfChosen, IInv, Follows, ListFollows
<1>. QED
  BY <1>1, <1>3, <1>4 DEF ChoiceIsFollowed

\* In every reachable state the variables keep their types, and when nothing is
\* running the current character is the one the user chose last and is there, and an
\* opened list is of it, unless a refresh failed or another one overlapped it:
\* whatever order loadCharacter, setAnyCharacter, reloadCurrentCharacter and the
\* refreshes of the pages are interleaved in.
THEOREM ChoiceStaysFollowed == Spec => []ChoiceIsFollowed
<1>1. Init => IInv /\ ToldOK
  BY InitHolds DEF Init, ToldOK, IInv, Fits, TypeInv, ValuesOK
<1>2. IInv /\ ToldOK /\ [Next]_vars => (IInv /\ ToldOK)'
  BY NextKeeps, ToldKeeps
<1>3. IInv /\ ToldOK => ChoiceIsFollowed
  BY ChoiceFollows
<1>. QED
  BY <1>1, <1>2, <1>3, PTL DEF Spec
=============================================================================
