------------------------------- MODULE Matcher -------------------------------
(***************************************************************************)
(* The recipe matcher: match_recipes_inner of src/core/src/client.rs with  *)
(* the recipe index behind it (build_recipe_index), and the choice         *)
(* evaluate_root makes among the matches.                                  *)
(*                                                                         *)
(* A recipe is its @input lines in order.  A line reads slots and is a     *)
(* conjunction, or a disjunction, of tests of an attribute there.  A slot  *)
(* is a path of <<stack, offset>> steps; the second, if any, is taken in   *)
(* the chain of the owner of the card the first one names.  Slots that     *)
(* only the @output lines name are left out.                               *)
(***************************************************************************)
EXTENDS Integers, FiniteSets, SequencesExt

CONSTANTS
  Root,       \* the candidate, a loose card
  Stackable,  \* the cards that may be stacked on it
  Tool,       \* the cards in the inventories of owners
  Owner, NoOwner,
  Tile,       \* the sentinel of the tile below the root
  NoTile,
  Aspect, Definition,  \* the attributes a line tests
  Recipes,    \* the bundle, in the order of its ids
  Worlds      \* the worlds to match in

Member == {Root} \cup Stackable \cup Tool
\* The span of a stack, one more than an offset in it, is a u8.
Step == (0 .. 3) \X (0 .. 254)
Slot == {s \in Seq(Step) : Len(s) \in {1, 2}}
Line == [any : BOOLEAN,
         reads : SUBSET [slot : Slot, attr : Aspect \cup Definition, op : {"ge", "lt"}]]

(* What the viewer's memory says of the zone the root is in.               *)
Knowledge == {"present", "frozen", "unknown"}
Moment == [stack : [1 .. 3 -> Seq(Stackable)],
           has : [Member -> SUBSET (Aspect \cup Definition)],
           tile : SUBSET (Aspect \cup Definition) \cup {NoTile},
           owner : [Member -> Owner \cup {NoOwner}]]
World == [knows : Knowledge, was : Moment, is : Moment, held : SUBSET Member,
          chain : [Owner -> [1 .. 3 -> Seq(Member)]]]

ASSUME MatcherAssumption ==
  /\ Tile \notin Member /\ NoOwner \notin Owner
  /\ Recipes \in Seq(Seq(Line))
  /\ Worlds \subseteq World

-----------------------------------------------------------------------------
(* The recipe index.                                                       *)
Reads(r) == UNION {r[i].reads : i \in DOMAIN r}
Slots(r) == {x.slot : x \in Reads(r)}

(* recipe_references_root: a path starts at slot.0.                        *)
ReferencesRoot(r) == \E s \in Slots(r) : s[1][1] = 0

(* iterators (external): the stacks read, top-level or below an owner.     *)
TopIters(r) == {<<s[1][1]>> : s \in Slots(r)} \ {<<0>>}
NestedIters(r) == {<<s[1], s[2][1]>> : s \in {s \in Slots(r) : Len(s) = 2}}
Iters(r) == TopIters(r) \cup NestedIters(r)

\* Mutant: a guard with an alternative is taken as strict.
RequiredAny(r) ==
  {x.attr : x \in {x \in Reads(r) : Len(x.slot) = 1 /\ x.attr \in Aspect /\ x.op = "ge"}}
(* required_top_aspects: what every match must find on a top-level slot.   *)
RequiredTopAspects(r) ==
  {x.attr : x \in {x \in UNION {r[i].reads : i \in {i \in DOMAIN r : ~r[i].any}} :
                     Len(x.slot) = 1 /\ x.attr \in Aspect /\ x.op = "ge"}}

(* top_branch_mask.                                                        *)
WantBranches(r) == {s[1][1] : s \in Slots(r)} \ {0}
(* top_branch_spans: one more than the largest offset read in the stack.   *)
BranchSpan(r, b) == Max({0} \cup {s[1][2] + 1 : s \in {s \in Slots(r) : s[1][1] = b}})

-----------------------------------------------------------------------------
(* A world: what the zone was when the viewer left it, what it is, whether *)
(* the viewer is there, the cards held, and the chains of the owners.      *)

\* Mutant: the stacks are read as they are.
ViewNow(w) == w.is
(* card_view_time: a zone that was left is read as it was, one that is     *)
(* not remembered as it is.                                                *)
Viewed(w) == IF w.knows = "frozen" THEN w.was ELSE w.is
(* The watermark is now: the match may be proposed.                        *)
Live(w) == w.knows # "frozen"

Free(s, held) ==
  LET free[n \in 0 .. Len(s)] ==
        IF n = 0 THEN <<>>
        ELSE IF s[n] \in held THEN free[n - 1] ELSE Append(free[n - 1], s[n])
  IN  free[Len(s)]
(* The members of a stack, those held or dead left out.                    *)
Branch(w, b) == IF b = 0 THEN <<>> ELSE Free(Viewed(w).stack[b], w.held)

(* lookup: inventories are not remembered, they are read as they are.      *)
Lookup(w, c) == IF c = Tile THEN Viewed(w).tile
                ELSE IF c \in Tool THEN w.is.has[c] ELSE Viewed(w).has[c]

(* synthetic_tile: none when a card lies on the hex stack.                 *)
HasSynthetic(w) == Branch(w, 1) = <<>> /\ Viewed(w).tile # NoTile

(* The indexed aspects on the cards of the candidate and its tile.         *)
Filling(w) == {Root} \cup (UNION {ToSet(Branch(w, b)) : b \in 1 .. 3})
              \cup (IF HasSynthetic(w) THEN {Tile} ELSE {})
Available(w) ==
  (UNION {Lookup(w, c) : c \in Filling(w)})
    \cap (UNION {RequiredTopAspects(r) : r \in ToSet(Recipes)})

-----------------------------------------------------------------------------
(* The candidate layouts of a recipe.                                      *)

(* A recipe with a root slot takes the root in place, pass 0; another one  *)
(* has it promoted to the top stack, then to the bottom one.               *)
Passes(r) == IF ReferencesRoot(r) THEN {0} ELSE {2, 3}
PromoteRoot(w, p) ==
  [b \in 0 .. 3 |-> IF b = p /\ p # 0 THEN <<Root>> \o Branch(w, b) ELSE Branch(w, b)]

(* anchors_fit: every stack the recipe wants has a card, or a tile.        *)
AnchorsFit(r, branches, synthetic) ==
  \A b \in WantBranches(r) : branches[b] # <<>> \/ (b = 1 /\ synthetic)

\* Mutant: the last window is left out.
StartsShort(len, span) == IF span = 0 THEN {0} ELSE 0 .. len - span - 1
(* The offsets a window of the span may start at.                          *)
Starts(len, span) == IF span = 0 THEN {0} ELSE 0 .. len - span
Window(s, k, span) == IF span = 0 THEN s ELSE SubSeq(s, k + 1, k + span)

(* window_views: the top and the bottom stack narrowed to a window each. A *)
(* layout is a pass and where the two windows start.                       *)
WindowView(r, w, l) ==
  [PromoteRoot(w, l[1]) EXCEPT ![2] = Window(@, l[2], BranchSpan(r, 2)),
                               ![3] = Window(@, l[3], BranchSpan(r, 3))]
Layouts(r, w) ==
  UNION {LET branches == PromoteRoot(w, p)
         IN  {p} \X Starts(Len(branches[2]), BranchSpan(r, 2))
                 \X Starts(Len(branches[3]), BranchSpan(r, 3)) :
           p \in {p \in Passes(r) : AnchorsFit(r, PromoteRoot(w, p), HasSynthetic(w))}}
(* By pass, and lowest offset first.                                       *)
Before(l, m) == \/ l[1] < m[1]
                \/ l[1] = m[1] /\ (l[2] < m[2] \/ (l[2] = m[2] /\ l[3] <= m[3]))
First(layouts) == CHOOSE l \in layouts : \A m \in layouts : Before(l, m)

(* nested_parent: the owner, as it is now, of the card at a slot.          *)
NestedParent(w, s, branches) ==
  IF s[2] < Len(branches[s[1]]) THEN w.is.owner[branches[s[1]][s[2] + 1]] ELSE NoOwner
(* branch_members: a chain as it is now, whoever holds its cards.          *)
BranchMembers(w, owner, b) == IF owner = NoOwner \/ b = 0 THEN <<>> ELSE w.chain[owner][b]

(* build_bindings: the cards of each iterator.                             *)
BuildBindings(r, w, branches) ==
  [it \in Iters(r) |->
     IF Len(it) = 2 THEN BranchMembers(w, NestedParent(w, it[1], branches), it[2])
     ELSE IF it[1] = 1 /\ HasSynthetic(w) THEN <<Tile>>
     ELSE branches[it[1]]]
LaidOut(r, w, l) == [root |-> ReferencesRoot(r), bindings |-> BuildBindings(r, w, WindowView(r, w, l))]

(* build_frame (external): the card a slot names, if there is one.         *)
Nth(chain, o) == IF o < Len(chain) THEN {chain[o + 1]} ELSE {}
InSlot(s, m) ==
  IF Len(s) = 2 THEN Nth(m.bindings[<<s[1], s[2][1]>>], s[2][2])
  ELSE IF s[1][1] # 0 THEN Nth(m.bindings[<<s[1][1]>>], s[1][2])
  ELSE IF m.root THEN Nth(<<Root>>, s[1][2]) ELSE {}

(* match_recipe (external): every line finds its cards and holds.          *)
Test(w, x, cards) == \E c \in cards : (x.attr \in Lookup(w, c)) <=> (x.op = "ge")
LineHolds(w, line, Find(_)) ==
  IF line.any THEN \E x \in line.reads : Test(w, x, Find(x.slot))
              ELSE \A x \in line.reads : Test(w, x, Find(x.slot))
Holds(r, w, m) == \A i \in DOMAIN r : LineHolds(w, r[i], LAMBDA s : InSlot(s, m))

(* The layouts that match; some iterator has to find a card.               *)
Matching(r, w) ==
  {l \in Layouts(r, w) : LET m == LaidOut(r, w, l)
                         IN  /\ Iters(r) # {} => \E it \in Iters(r) : m.bindings[it] # <<>>
                             /\ Holds(r, w, m)}

(* match_recipes_inner: the first match of each recipe, none on a held     *)
(* root; the filter skips a recipe that needs an aspect no card has.       *)
Tried(w, use_filter) ==
  {i \in DOMAIN Recipes : /\ Root \notin w.held
                          /\ use_filter => RequiredTopAspects(Recipes[i]) \subseteq Available(w)}
MatchRecipes(w, use_filter) ==
  [i \in {i \in Tried(w, use_filter) : Matching(Recipes[i], w) # {}} |->
     LaidOut(Recipes[i], w, First(Matching(Recipes[i], w)))]

(* RecipeMatch::priority, by the inputs and by the cards bound.            *)
Bound(m) == Cardinality({b \in UNION {{it} \X DOMAIN m.bindings[it] : it \in DOMAIN m.bindings} :
                           m.bindings[b[1]][b[2]] # Tile})
(* More inputs, then more cards; of equals max_by_key takes the last.      *)
Outranks(i, j, found) ==
  \/ Len(Recipes[i]) > Len(Recipes[j])
  \/ Len(Recipes[i]) = Len(Recipes[j]) /\ Bound(found[i]) > Bound(found[j])
  \/ Len(Recipes[i]) = Len(Recipes[j]) /\ Bound(found[i]) = Bound(found[j]) /\ i > j

(* evaluate_root: the best of the live matches, if there is one.           *)
Best(w, found) ==
  {i \in DOMAIN found : Live(w) /\ \A j \in DOMAIN found \ {i} : Outranks(i, j, found)}

-----------------------------------------------------------------------------
VARIABLES world, evaluated, matches, best
matcherVars == <<world, evaluated, matches, best>>

MatcherInit == world \in Worlds /\ evaluated = FALSE /\ matches = <<>> /\ best = {}

EvaluateRoot ==
  /\ ~evaluated
  /\ evaluated' = TRUE
  /\ matches' = MatchRecipes(world, TRUE)
  /\ best' = Best(world, matches')
  /\ UNCHANGED world

MatcherNext == EvaluateRoot
MatcherSpec == MatcherInit /\ [][MatcherNext]_matcherVars

-----------------------------------------------------------------------------
MatcherTypeOK ==
  /\ world \in World /\ evaluated \in BOOLEAN
  /\ DOMAIN matches \subseteq DOMAIN Recipes
  /\ \A i \in DOMAIN matches : DOMAIN matches[i].bindings = Iters(Recipes[i])
  /\ Cardinality(best) = IF Live(world) /\ DOMAIN matches # {} THEN 1 ELSE 0

(* "the index pre-filter must not drop a valid match" (session.rs:1081).   *)
(* (And the matches have their type, one of them the best.)                *)
FilterSound == MatcherTypeOK /\ (evaluated => matches = MatchRecipes(world, FALSE))

(* The reference: a recipe laid at pass p, with its top slots from k2 and  *)
(* its bottom slots from k3 on.                                            *)
Laid(w, p, b) == (IF p = b THEN <<Root>> ELSE <<>>) \o Branch(w, b)
At(w, p, k, s) ==
  LET b == s[1][1]
      i == s[1][2] + k[b] + 1
      top == IF b = 0 THEN IF s[1][2] = 0 THEN {Root} ELSE {}
             ELSE IF b = 1 /\ HasSynthetic(w) THEN (IF s[1][2] = 0 THEN {Tile} ELSE {})
             ELSE IF i <= Len(Laid(w, p, b)) THEN {Laid(w, p, b)[i]} ELSE {}
      owners == {w.is.owner[c] : c \in top \ {Tile}} \ {NoOwner}
      chains == {BranchMembers(w, o, s[2][1]) : o \in owners}
  IN  IF Len(s) = 1 THEN top
      ELSE {ch[s[2][2] + 1] : ch \in {ch \in chains : s[2][2] < Len(ch)}}
Placements(r, w) ==
  {l \in (IF ReferencesRoot(r) THEN {0} ELSE {2, 3})
           \X (0 .. Len(Branch(w, 2))) \X (0 .. Len(Branch(w, 3))) :
     LET k == <<0, l[2], l[3]>>
     IN  /\ \A b \in {2, 3} : IF b \in WantBranches(r)
                              THEN k[b] + BranchSpan(r, b) <= Len(Laid(w, l[1], b))
                              ELSE k[b] = 0
         /\ 1 \in WantBranches(r) => Branch(w, 1) # <<>> \/ HasSynthetic(w)
         /\ \A i \in DOMAIN r : LineHolds(w, r[i], LAMBDA s : At(w, l[1], k, s))}

(* "match cards at ANY contiguous offset" (client.rs:396), "Lowest offset  *)
(* first" (client.rs:2859): a recipe that holds somewhere is matched, at   *)
(* the first place where it holds.                                         *)
FindsFirst ==
  evaluated /\ Root \notin world.held =>
    \A i \in DOMAIN Recipes :
      LET r == Recipes[i]
          all == Placements(r, world)
          first == CHOOSE l \in all : \A m \in all : Before(l, m)
      IN  IF all = {} THEN i \notin DOMAIN matches
          ELSE /\ i \in DOMAIN matches
               /\ \A b \in {2, 3} \cap WantBranches(r) :
                    matches[i].bindings[<<b>>] =
                      SubSeq(Laid(world, first[1], b), first[b] + 1, first[b] + BranchSpan(r, b))

(* What a soul makes of a zone it left depends on nothing that happened    *)
(* there since, the holds aside, and is never acted upon (client.rs:1541). *)
MemoryOnly ==
  evaluated /\ world.knows = "frozen" =>
    /\ matches = MatchRecipes([world EXCEPT !.is.stack = world.was.stack, !.is.tile = world.was.tile,
                                 !.is.has = [c \in Member |-> IF c \in Tool THEN @[c] ELSE world.was.has[c]]],
                              TRUE)
    /\ best = {}

(* "the matcher never proposes a binding the gate would reject"            *)
(* (client.rs:1568): no card that is held is bound.                        *)
NeverBindsHeld ==
  \A i \in DOMAIN matches : \A it \in DOMAIN matches[i].bindings :
    ToSet(matches[i].bindings[it]) \cap world.held = {}

(* "live data (the soul is present at the root's zone" (client.rs:150).    *)
LiveIsPresent == best # {} => world.knows = "present"

(* "The best match is the one binding the most cards" (client.rs:2289).    *)
MostCardsWin ==
  \A i \in best, j \in DOMAIN matches : Bound(matches[j]) <= Bound(matches[i])

(* The tile is there "only when root ... has no card on its hex branch"    *)
(* (client.rs:1831).                                                       *)
TileOnlyWhenBare == evaluated /\ HasSynthetic(world) => Viewed(world).stack[1] = <<>>

(* "two adjacent corpus" (client.rs:1706): neighbours in a match are       *)
(* neighbours in the stack.                                                *)
AdjacentInStack ==
  \A i \in DOMAIN matches : \A b \in {2, 3} : <<b>> \in DOMAIN matches[i].bindings =>
    LET bound == SelectSeq(matches[i].bindings[<<b>>], LAMBDA c : c # Root)
    IN  \E k \in 0 .. Len(Viewed(world).stack[b]) :
          /\ k + Len(bound) <= Len(Viewed(world).stack[b])
          /\ bound = SubSeq(Viewed(world).stack[b], k + 1, k + Len(bound))
=============================================================================
