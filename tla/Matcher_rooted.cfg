SPECIFICATION MatcherSpec
CONSTANTS
  Root = Root
  C1 = C1
  C2 = C2
  C3 = C3
  Axe1 = Axe1
  Twig = Twig
  Soul = Soul
  NoSoul = NoSoul
  Owner = {Soul, NoSoul}
  NoOwner = NoOwner
  Tile = Tile
  NoTile = NoTile
  Corpus = Corpus
  Dust = Dust
  Axe = Axe
  Wood = Wood
  Lit = Lit
  Stackable = {C1, C2, C3}
  Tool = {Axe1, Twig}
  Aspect = {Wood, Lit}
  Definition = {Corpus, Dust, Axe}
  Recipes <- RootedRecipes
  Worlds <- MCWorlds
CHECK_DEADLOCK FALSE
INVARIANTS FindsFirst
