------------------------------ MODULE Movement ------------------------------
(***************************************************************************)
(* A soul walks: Client::start_move_to, advance_movement and               *)
(* build_move_card of src/core/src/client.rs, one soul.                    *)
(*                                                                         *)
(* Each step is a move_card that departs at a stated time and arrives at a *)
(* later one.  The shard (external) accepts it when its own record has the *)
(* soul at the cell of departure at that time, and the row it writes is    *)
(* stamped with the arrival.  The row's coming back is what sends the next *)
(* step, before the soul has arrived.                                      *)
(***************************************************************************)
EXTENDS HexGrid

CONSTANTS
  Start,          \* where the soul stands
  Targets,        \* where it may be sent
  Cost,           \* the cost aspect of a tile, by cell; no tile elsewhere
  Second, Speed,  \* travel is (cost + cost) * Second / (2 * Speed)
  Skews,          \* by how much the gate's arrival differs from the client's
  Unloaded,       \* cells whose tiles are not there at first
  Prompt,         \* whether every row is back before its arrival
  None,
  MaxTime, MaxWalks, MaxExtras

ASSUME MovementAssumption ==
  /\ Start \in Cell /\ Targets \subseteq Cell
  /\ DOMAIN Cost \subseteq Cell /\ \A c \in DOMAIN Cost : Cost[c] \in Nat
  /\ Second \in Nat /\ Speed \in Nat \ {0} /\ Skews \subseteq Nat
  /\ Prompt \in BOOLEAN
  /\ {MaxTime, MaxWalks, MaxExtras} \subseteq Nat

VARIABLES
  now,       \* clock_ms
  unloaded,  \* cells of zones whose tiles have not come
  rows,      \* the versions of the soul's row the client holds
  plan,      \* movements[soul]
  wire,      \* move_card calls on their way, oldest first
  shard,     \* the versions the shard holds (external)
  coming,    \* rows on their way to the client
  walks, steps, dups,   \* bounds
  refused,   \* history: a call of the present walk was rejected
  late       \* history: a row came back after its arrival

history == <<refused, late>>
bounds == <<walks, steps, dups>>
vars == <<now, unloaded, rows, plan, wire, shard, coming, bounds, history>>

(* A row says where the soul is from time t on; by names the command that  *)
(* caused it: the walk and the step, or <<0, 0>>.  No handler reads it.    *)
Row(t, cell, by) == [t |-> t, cell |-> cell, by |-> by]
(* Versions are keyed by their time.                                       *)
WithRow(versions, row) == {v \in versions : v.t # row.t} \cup {row}
(* current(soul, at): the latest version that is due.                      *)
At(versions, at) ==
  (CHOOSE v \in versions : v.t <= at /\ \A w \in versions : w.t <= at => w.t <= v.t).cell

-----------------------------------------------------------------------------
(* build_move_card_step: when the tiles at both ends resolve, a frame for  *)
(* one step that departs at the given time; else none.  A soul may always  *)
(* seat on a tile.                                                         *)
CanStep(from, dest) == {from, dest} \subseteq DOMAIN Cost \ unloaded
Travel(from, dest) ==
  LET ms == ((Cost[from] + Cost[dest]) * Second) \div (2 * Speed)
  IN  IF ms < 1 THEN 1 ELSE ms
Step(from, dest, depart, by) ==
  [from |-> from, dest |-> dest, depart |-> depart,
   arrival |-> depart + Travel(from, dest), by |-> by]

(* MoveStep: one step from where the soul is now.                          *)
MoveStep(dest) ==
  LET from == At(rows, now)
  IN  /\ steps + dups < MaxExtras /\ steps' = steps + 1
      /\ wire' = IF CanStep(from, dest)
                 THEN Append(wire, Step(from, dest, now, <<0, 0>>)) ELSE wire
      /\ UNCHANGED <<now, unloaded, rows, plan, shard, coming, walks, dups, history>>

(* A MovePlan whose first step has been sent.                              *)
Plan(path, arrival, walk) ==
  [path |-> path, requested |-> 1, last_dest |-> path[1],
   last_arrival |-> arrival, walk |-> walk]

(* MoveTo: plan a path from where the soul is now and send its first step. *)
(* A path whose first step does not resolve leaves the old plan in place.  *)
StartMoveTo(target) ==
  LET from == At(rows, now)
      path == HexPath(from, target)
  IN  /\ walks < MaxWalks /\ walks' = walks + 1
      /\ \/ /\ path = << >>
            /\ plan' = None
            /\ UNCHANGED <<wire, refused>>
         \/ /\ path # << >> /\ CanStep(from, path[1])
            /\ LET frame == Step(from, path[1], now, <<walks + 1, 1>>)
               IN  /\ wire' = Append(wire, frame)
                   /\ plan' = Plan(path, frame.arrival, walks + 1)
            /\ refused' = FALSE
         \/ /\ path # << >> /\ ~CanStep(from, path[1])
            /\ UNCHANGED <<plan, wire, refused>>
      /\ UNCHANGED <<now, unloaded, rows, shard, coming, steps, dups, late>>

(* What advance_movement waits for: a row that puts the soul, at its time, *)
(* on the cell of the step last requested.                                 *)
\* Mutant: the row must be later than the arrival the client predicted.
ConfirmsLater(versions, at) == At(versions, at) = plan.last_dest /\ at > plan.last_arrival
Confirms(versions, at) == At(versions, at) = plan.last_dest

\* Mutant: the next step departs now, not when the soul gets there.
AdvanceMovementNow(versions, arrival) ==
  IF /\ plan # None /\ plan.requested < Len(plan.path)
     /\ Confirms(versions, arrival)
     /\ CanStep(plan.last_dest, plan.path[plan.requested + 1])
  THEN LET next == plan.path[plan.requested + 1]
           frame == Step(plan.last_dest, next, now, <<plan.walk, plan.requested + 1>>)
       IN  /\ wire' = Append(wire, frame)
           /\ plan' = [plan EXCEPT !.requested = @ + 1, !.last_dest = next,
                                   !.last_arrival = frame.arrival]
  ELSE UNCHANGED <<wire, plan>>
(* advance_movement, once the versions hold the row stamped arrival.       *)
AdvanceMovement(versions, arrival) ==
  IF /\ plan # None /\ plan.requested < Len(plan.path)
     /\ Confirms(versions, arrival)
     /\ CanStep(plan.last_dest, plan.path[plan.requested + 1])
  THEN LET next == plan.path[plan.requested + 1]
           frame == Step(plan.last_dest, next, arrival, <<plan.walk, plan.requested + 1>>)
       IN  /\ wire' = Append(wire, frame)
           /\ plan' = [plan EXCEPT !.requested = @ + 1, !.last_dest = next,
                                   !.last_arrival = frame.arrival]
  ELSE UNCHANGED <<wire, plan>>

(* apply_row on a row of the soul: only a row stamped ahead of the clock   *)
(* can advance the walk.                                                   *)
ApplyRow(row) ==
  /\ rows' = WithRow(rows, row)
  /\ IF row.t > now THEN AdvanceMovement(rows', row.t) ELSE UNCHANGED <<wire, plan>>
  /\ late' = (late \/ row.t <= now)
  /\ UNCHANGED <<now, unloaded, shard, walks, steps, refused>>

RowArrives(row) ==
  /\ row \in coming
  /\ coming' = coming \ {row}
  /\ UNCHANGED dups
  /\ ApplyRow(row)

(* The same row again: a soul matches its roster and the zone it is in.    *)
RowAgain(row) ==
  /\ row \in shard /\ row.t > now
  /\ steps + dups < MaxExtras /\ dups' = dups + 1
  /\ UNCHANGED coming
  /\ ApplyRow(row)

(* The shard takes the oldest call (external).                             *)
ShardMoves(skew) ==
  /\ wire # << >> /\ At(shard, Head(wire).depart) = Head(wire).from
  /\ LET row == Row(Head(wire).arrival + skew, Head(wire).dest, Head(wire).by)
     IN  /\ shard' = WithRow(shard, row)
         /\ coming' = coming \cup {row}
  /\ wire' = Tail(wire)
  /\ UNCHANGED <<now, unloaded, rows, plan, bounds, history>>

ShardRefuses ==
  /\ wire # << >> /\ At(shard, Head(wire).depart) # Head(wire).from
  /\ wire' = Tail(wire)
  /\ refused' = (refused \/ (plan # None /\ Head(wire).by[1] = plan.walk))
  /\ UNCHANGED <<now, unloaded, rows, plan, shard, coming, bounds, late>>

(* The tiles of a cell come.                                               *)
Load(c) ==
  /\ c \in unloaded
  /\ unloaded' = unloaded \ {c}
  /\ UNCHANGED <<now, rows, plan, wire, shard, coming, bounds, history>>

(* Time passes; when rows are prompt, no further than the next arrival     *)
(* whose row is still due.                                                 *)
Tick ==
  /\ now < MaxTime
  /\ Prompt => /\ \A row \in coming : now + 1 < row.t
               /\ \A i \in DOMAIN wire : now + 1 < wire[i].arrival
  /\ now' = now + 1
  /\ UNCHANGED <<unloaded, rows, plan, wire, shard, coming, bounds, history>>

-----------------------------------------------------------------------------
Init == /\ now = 0
        /\ unloaded = Unloaded
        /\ rows = {Row(0, Start, <<0, 0>>)}
        /\ plan = None
        /\ wire = << >>
        /\ shard = rows
        /\ coming = {}
        /\ walks = 0 /\ steps = 0 /\ dups = 0
        /\ refused = FALSE /\ late = FALSE

Next == \/ \E i \in 1 .. 6 : MoveStep(HexNeighbors(At(rows, now))[i])
        \/ \E target \in Targets : StartMoveTo(target)
        \/ \E row \in coming : RowArrives(row)
        \/ \E row \in shard : RowAgain(row)
        \/ \E skew \in Skews : ShardMoves(skew)
        \/ ShardRefuses
        \/ \E c \in unloaded : Load(c)
        \/ Tick

(* The shard answers and the socket delivers.                              *)
Fairness == /\ WF_vars(\E row \in coming : RowArrives(row))
            /\ WF_vars(\E skew \in Skews : ShardMoves(skew))
            /\ WF_vars(ShardRefuses)

Spec == Init /\ [][Next]_vars
FairSpec == Spec /\ Fairness

-----------------------------------------------------------------------------
Frames == [from : Cell, dest : Cell, depart : Nat, arrival : Nat, by : Nat \X Nat]
Rows == [t : Nat, cell : Cell, by : Nat \X Nat]

TypeOK ==
  /\ now \in 0 .. MaxTime /\ unloaded \subseteq Unloaded
  /\ rows \subseteq Rows /\ shard \subseteq Rows /\ coming \subseteq Rows
  /\ \A v, w \in rows : v.t = w.t => v = w
  /\ wire \in Seq(Frames)
  /\ plan # None => /\ plan.path \in Seq(Cell) /\ Len(plan.path) <= MaxPathSteps
                    /\ plan.requested \in 1 .. Len(plan.path)
                    /\ plan.last_dest = plan.path[plan.requested]
                    /\ plan.last_arrival \in Nat /\ plan.walk \in 1 .. walks

(* Wherever a walk can be planned, the walker finds a shortest path, one   *)
(* adjacent cell after another, and stops short of the target only at the  *)
(* cap (hex_path's comment: greedy always converges).  And every variable  *)
(* has its type.                                                           *)
PathShortest ==
  /\ TypeOK
  /\ walks < MaxWalks =>
      LET from == At(rows, now)
      IN  \A target \in Targets :
            LET path == HexPath(from, target)
                dist == HexDistance(from, target)
            IN  /\ Len(path) = IF dist < MaxPathSteps THEN dist ELSE MaxPathSteps
                /\ dist <= MaxPathSteps /\ dist > 0 => path[Len(path)] = target
                /\ \A k \in 1 .. Len(path) :
                     HexDistance(IF k = 1 THEN from ELSE path[k - 1], path[k]) = 1

(* "so the soul walks the path on schedule" (client.rs:92): as long as the *)
(* player sends the soul off once, and by nothing but the walk, no step is *)
(* refused, though each is sent long before the soul is where it departs,  *)
(* and though rows come late, twice and in any order; and the soul leaves  *)
(* each cell at the moment it got there.  A walk that replaces another may *)
(* be refused: a row of the former one can confirm a step of the new one   *)
(* (ConfirmedByItsStep).                                                   *)
OnSchedule ==
  steps = 0 /\ walks <= 1 =>
    /\ ~refused
    /\ \A v, w \in shard :
         v.by[2] > 0 /\ w.by[2] = v.by[2] + 1 =>
           \E skew \in Skews : w.t = v.t + Travel(v.cell, w.cell) + skew

(* A walk whose tiles are there is carried on to its end, unless a step of *)
(* it was refused, something else moved the soul or a row came too late.   *)
WalkCompletes ==
  (plan # None /\ plan.requested < Len(plan.path)) ~>
     \/ plan = None \/ plan.requested = Len(plan.path)
     \/ refused \/ steps > 0 \/ late \/ unloaded # {}

(* "If it confirms the last-requested movement step, fire the next one"    *)
(* (client.rs:1367): what sends step k + 1 is the row of step k.           *)
ConfirmedByItsStep ==
  [][\A row \in coming : RowArrives(row) /\ plan' # plan =>
       row.by = <<plan.walk, plan.requested>>]_vars

(* "Re-issuing replaces any in-flight movement" (client.rs:81): once the   *)
(* player sends the soul elsewhere, no step of the former walk is sent.    *)
ReissueReplaces ==
  [][Len(wire') > Len(wire) => wire'[Len(wire')].by[1] \in {0, walks'}]_vars

(* "the next requested as each prior step's row arrives" (client.rs:80): a *)
(* walk does not stand still once nothing of it is on its way, no step was *)
(* refused and the next one could be taken.                                *)
NeverStandsStill ==
  plan # None /\ plan.requested < Len(plan.path) /\ wire = << >> /\ coming = {}
  /\ ~refused /\ steps = 0 =>
    ~CanStep(plan.last_dest, plan.path[plan.requested + 1])
=============================================================================
