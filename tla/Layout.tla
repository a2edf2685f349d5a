------------------------------- MODULE Layout -------------------------------
(***************************************************************************)
(* Where everybody's monitors are on the one big desktop, and where a      *)
(* movement of the pointer ends on it: crates/smkvm-layout/src/model.rs,   *)
(* resolve.rs and geom.rs, driven by the server's events as in             *)
(* client_monitors, client_up, client_down and set_placements of           *)
(* crates/smkvm-core/src/server.rs.  Module Server goes by which machine a *)
(* point belongs to; here is how that comes about.                         *)
(*                                                                         *)
(* A pixel is a unit.  A monitor's first name is "primary" too.  Scale     *)
(* factors and labels are left out: nothing moves on account of them.      *)
(***************************************************************************)
EXTENDS Integers, FiniteSets, SequencesExt, Relation

CONSTANTS
  Home,     \* the server's machine
  Devices,
  Reports,  \* what each may report: sequences of [id, local]
  Configs,  \* arrangements: sequences of [machine, monitor, global]
  MaxSteps  \* bound

VARIABLES
  overflow, \* EdgeOverflow: "clamp" or "block"
  known,    \* Layout::devices, in the order they came
  monitors, \* Device::monitors
  online,
  placed,   \* Layout::placements: [rect, auto] for some pairs of device and id
  config,   \* Server::placements
  reserved, \* Layout::reserved
  steps

vars == <<overflow, known, monitors, online, placed, config, reserved, steps>>

-----------------------------------------------------------------------------
(* geom.rs                                                                 *)

Rect(x, y, w, h) == [x |-> x, y |-> y, w |-> w, h |-> h]
RightOf(r) == r.x + r.w
Bottom(r) == r.y + r.h

Least(S) == CHOOSE n \in S : \A k \in S : n <= k
Greatest(S) == CHOOSE n \in S : \A k \in S : n >= k
Clamped(n, low, high) == IF n < low THEN low ELSE IF n > high THEN high ELSE n
Magnitude(n) == IF n < 0 THEN -n ELSE n

Holds(r, p) == p.x >= r.x /\ p.x < RightOf(r) /\ p.y >= r.y /\ p.y < Bottom(r)

ClampPoint(r, p) == [x |-> Clamped(p.x, r.x, RightOf(r) - 1),
                     y |-> Clamped(p.y, r.y, Bottom(r) - 1)]

Overlaps(r, s) == r.x < RightOf(s) /\ s.x < RightOf(r) /\ r.y < Bottom(s) /\ s.y < Bottom(r)

\* Rect::union over a set, without the empty ones.
Hull(S) ==
  IF S = {} THEN Rect(0, 0, 0, 0)
  ELSE LET x == Least({r.x : r \in S})
           y == Least({r.y : r \in S})
       IN Rect(x, y, Greatest({RightOf(r) : r \in S}) - x, Greatest({Bottom(r) : r \in S}) - y)

Horizontal(dir) == dir \in {"left", "right"}

\* The edges a movement makes for, and the part of it, a fraction, that gets there.
Edges(r, from, dx, dy) ==
  {e \in {[dir |-> "left",  num |-> from.x - r.x,                den |-> -dx],
          [dir |-> "right", num |-> RightOf(r) - 1 - from.x,     den |-> dx],
          [dir |-> "up",    num |-> from.y - r.y,                den |-> -dy],
          [dir |-> "down",  num |-> Bottom(r) - 1 - from.y,      den |-> dy]} : e.den > 0}

RestingIsNotLeaving(e) == e.num > 0 /\ e.num <= e.den   \* mutant: t = 0 is left out

\* The range of t that counts in segment_exit, where zero does.
Within(e) == e.num >= 0 /\ e.num <= e.den

\* segment_exit: the edge met first, and of two the one of the larger travel,
\* and of those the horizontal one.
Before(e, f) ==
  \/ e.num * f.den < f.num * e.den
  \/ e.num * f.den = f.num * e.den
       /\ (e.den > f.den \/ (e.den = f.den /\ (Horizontal(e.dir) \/ ~Horizontal(f.dir))))

\* f64::round, of num / den.
Rounded(num, den) ==
  IF num >= 0 THEN (2 * num + den) \div (2 * den) ELSE -((2 * (-num) + den) \div (2 * den))

Exits(r, from, dx, dy) ==
  {[at  |-> ClampPoint(r, [x |-> Rounded(from.x * e.den + dx * e.num, e.den),
                           y |-> Rounded(from.y * e.den + dy * e.num, e.den)]),
    dir |-> e.dir] :
     e \in {e \in Edges(r, from, dx, dy) :
              Within(e) /\ \A f \in Edges(r, from, dx, dy) : Within(f) => Before(e, f)}}

-----------------------------------------------------------------------------
(* model.rs                                                                *)

Key(d, m) == <<d, m.id>>

\* Layout::cells: what is placed, of the devices that are here.
CellsOf(devs, mons, here, where) ==
  FlattenSeq([i \in DOMAIN devs |->
    LET d == devs[i]
        there == SelectSeq(mons[d], LAMBDA m : here[d] /\ Key(d, m) \in DOMAIN where)
    IN [j \in DOMAIN there |->
          [device |-> d, monitor |-> there[j].id, primary |-> there[j] = mons[d][1],
           global |-> where[Key(d, there[j])].rect]]])

Cells == CellsOf(known, monitors, online, placed)

\* auto_origin: beside a monitor of the same machine, as the machine itself has
\* it, or to the right of everything.
ClashesUnseen(d, mon, rect, where) == FALSE   \* mutant: nobody looks what is there

Clashes(d, mon, rect, where) ==
  \E k \in DOMAIN where : k # Key(d, mon) /\ Overlaps(where[k].rect, rect)

AutoOrigin(d, mons, mon, where) ==
  LET siblings == SelectSeq(mons, LAMBDA s : Key(d, s) \in DOMAIN where)
      sibling  == Head(siblings)
      anchored == Rect(where[Key(d, sibling)].rect.x + (mon.local.x - sibling.local.x),
                       where[Key(d, sibling)].rect.y + (mon.local.y - sibling.local.y),
                       mon.local.w, mon.local.h)
      all      == Hull({where[k].rect : k \in DOMAIN where})
      own      == Hull({m.local : m \in ToSet(mons)})
  IN IF siblings # <<>> /\ ~Clashes(d, mon, anchored, where)
       THEN anchored
       ELSE Rect((IF all.w = 0 THEN 0 ELSE RightOf(all)) + (mon.local.x - own.x),
                 mon.local.y - own.y, mon.local.w, mon.local.h)

With(where, k, rect, auto) ==
  [j \in DOMAIN where \cup {k} |-> IF j = k THEN [rect |-> rect, auto |-> auto] ELSE where[j]]

\* auto_place: one after another, each against what has been placed so far.
AutoPlaced(devs, mons, where) ==
  LET all == FlattenSeq([i \in DOMAIN devs |->
               [j \in DOMAIN mons[devs[i]] |-> [device |-> devs[i], mon |-> mons[devs[i]][j]]]])
      place(w, u) == IF Key(u.device, u.mon) \in DOMAIN w THEN w
                     ELSE With(w, Key(u.device, u.mon),
                               AutoOrigin(u.device, mons[u.device], u.mon, w), TRUE)
  IN FoldLeft(place, where, all)

\* Server::apply_placements.
Applied(devs, mons, where, arrangement) ==
  LET wanted(p) == SelectSeq(mons[p.machine], LAMBDA m :
                     m.id = p.monitor \/ (p.monitor = "primary" /\ m = mons[p.machine][1]))
      put(w, p) == IF p.machine \notin ToSet(devs) \/ wanted(p) = <<>> THEN w
                   ELSE With(w, Key(p.machine, Head(wanted(p))), p.global, FALSE)
  IN FoldLeft(put, where, arrangement)

\* Server::refresh_reserved: what the configuration places and nobody fills.
Holes(cells, arrangement) ==
  {p.global : p \in {p \in ToSet(arrangement) :
     ~ \E c \in ToSet(cells) : c.device = p.machine /\ p.monitor \in {c.monitor, "primary"}}}

-----------------------------------------------------------------------------
(* The server's events.                                                    *)

\* What every event leaves: who is known, with what, here or away, and placed
\* where, and the space kept for what the arrangement names and nobody fills.
Becomes(devs, mons, here, where, arrangement) ==
  /\ steps < MaxSteps /\ steps' = steps + 1
  /\ known' = devs /\ monitors' = mons /\ online' = here /\ placed' = where
  /\ reserved' = Holes(CellsOf(devs, mons, here, where), arrangement)

Among(d) == IF Contains(known, d) THEN known ELSE Append(known, d)

\* report_monitors: a monitor that changed its size loses its place.  One that
\* is gone keeps it, for when it is plugged in again.
Kept(d, report) ==
  LET resized == {Key(d, m) : m \in {m \in ToSet(report) : \E o \in ToSet(monitors[d]) :
                    o.id = m.id /\ <<o.local.w, o.local.h>> # <<m.local.w, m.local.h>>}}
  IN [k \in DOMAIN placed \ resized |-> placed[k]]

ClientMonitors(d, report) ==
  /\ \E mons \in {[monitors EXCEPT ![d] = report]} :
       Becomes(Among(d), mons, [online EXCEPT ![d] = TRUE],
               AutoPlaced(Among(d), mons,
                 Applied(Among(d), mons, Kept(d, report),
                         SelectSeq(config, LAMBDA p : p.machine = d))),
               config)
  /\ UNCHANGED <<overflow, config>>

\* client_up: one that is known is back with the monitors it had, and the
\* reserved space waits for what it reports.
ClientUp(d) ==
  /\ steps < MaxSteps /\ steps' = steps + 1
  /\ known' = Among(d)
  /\ online' = [online EXCEPT ![d] = TRUE]
  /\ UNCHANGED <<overflow, monitors, placed, config, reserved>>

ClientDown(d) ==
  /\ online[d]
  /\ Becomes(known, monitors, [online EXCEPT ![d] = FALSE], placed, config)
  /\ UNCHANGED <<overflow, config>>

\* reconfigure, set_placements.
Reconfigure(arrangement, how) ==
  /\ Becomes(known, monitors, online,
             AutoPlaced(known, monitors, Applied(known, monitors, placed, arrangement)),
             arrangement)
  /\ config' = arrangement /\ overflow' = how

Init ==
  /\ overflow \in {"clamp", "block"}
  /\ config \in Configs
  /\ known = <<Home>> /\ monitors = [d \in Devices |-> <<>>] /\ online = [d \in Devices |-> d = Home]
  /\ placed = <<>> /\ reserved = {p.global : p \in ToSet(config)}
  /\ steps = 0

Next ==
  \/ \E d \in Devices : \E report \in Reports[d] : ClientMonitors(d, report)
  \/ \E d \in Devices \ {Home} : ClientUp(d) \/ ClientDown(d)
  \/ \E arrangement \in Configs, how \in {"clamp", "block"} : Reconfigure(arrangement, how)

Spec == Init /\ [][Next]_vars

-----------------------------------------------------------------------------
(* resolve.rs                                                              *)

PerpDist(r, dir, coord) ==
  LET low  == IF Horizontal(dir) THEN r.y ELSE r.x
      high == (IF Horizontal(dir) THEN Bottom(r) ELSE RightOf(r)) - 1
  IN Magnitude(coord - Clamped(coord, low, high))

\* along_gap, which is negative for what is not beyond that edge.
AlongGap(cur, r, dir) ==
  CASE dir = "up"    -> cur.y - Bottom(r)
    [] dir = "down"  -> r.y - Bottom(cur)
    [] dir = "left"  -> cur.x - RightOf(r)
    [] dir = "right" -> r.x - RightOf(cur)

IsBeyond(cur, r, dir) == AlongGap(cur, r, dir) >= 0

EntryPoint(r, coord, dir) ==
  ClampPoint(r, CASE dir = "up"    -> [x |-> coord, y |-> Bottom(r) - 1]
                  [] dir = "down"  -> [x |-> coord, y |-> r.y]
                  [] dir = "left"  -> [x |-> RightOf(r) - 1, y |-> coord]
                  [] dir = "right" -> [x |-> r.x, y |-> coord])

First(cells, those) == cells[Least({i \in DOMAIN cells : cells[i] \in those})]
Holding(cells, p) == {c \in ToSet(cells) : Holds(c.global, p)}

\* min_by_key, which keeps the first of equals.
Nearest(cells, far) ==
  First(cells, {c \in ToSet(cells) : \A o \in ToSet(cells) : far[c] <= far[o]})

\* Layout::resolve, from a point on a monitor: the cell and the point arrived at.
Resolve(cells, from, dx, dy) ==
  LET cand   == [x |-> from.x + dx, y |-> from.y + dy]
      cur    == First(cells, Holding(cells, from))
      stay   == [cell |-> cur, at |-> ClampPoint(cur.global, cand)]
      enter(c, coord, dir) == [cell |-> c, at |-> EntryPoint(c.global, coord, dir)]
      leave(exit) ==
        LET dir     == exit.dir
            coord   == IF Horizontal(dir) THEN exit.at.y ELSE exit.at.x
            beyond  == SelectSeq(cells, LAMBDA c : c # cur /\ IsBeyond(cur.global, c.global, dir))
            off(r)  == PerpDist(r, dir, coord)
            aligned == SelectSeq(beyond, LAMBDA c : off(c.global) = 0)
            \* of equals in distance the one with the smaller gap, as a pair does
            gap     == [c \in ToSet(beyond) |-> AlongGap(cur.global, c.global, dir)]
            target  == Nearest(beyond, [c \in ToSet(beyond) |-> off(c.global) * 1000 + gap[c]])
        IN IF aligned # <<>>
             THEN enter(Nearest(aligned, gap), coord, dir)
           ELSE IF \/ \E r \in reserved : Holds(r, cand)
                   \/ overflow = "block"
                   \/ beyond = <<>>
                   \/ \E r \in reserved : IsBeyond(cur.global, r, dir) /\ off(r) < off(target.global)
             THEN stay
           ELSE enter(target, coord, dir)
      exits  == Exits(cur.global, from, dx, dy)
  IN IF Holding(cells, cand) # {}
       THEN [cell |-> First(cells, Holding(cells, cand)), at |-> cand]
     ELSE IF exits = {} THEN stay
     ELSE leave(CHOOSE e \in exits : TRUE)

-----------------------------------------------------------------------------
PointsOf(r) == [x : r.x..(RightOf(r) - 1), y : r.y..(Bottom(r) - 1)]

Apart == \A i, j \in DOMAIN Cells : i # j => ~Overlaps(Cells[i].global, Cells[j].global)

Deltas == {<<n, 0>> : n \in {-1, 1}} \cup {<<0, n>> : n \in {-1, 1}}

\* What was placed automatically never shares a pixel with anything else that
\* was, whatever has been unplugged, resized, plugged in again, arranged by hand
\* or reconnected since: nothing that is not in the configuration is ever hidden
\* under something else that is not.
AutomaticNeverClash ==
  \A j, k \in DOMAIN placed :
    j # k /\ placed[j].auto /\ placed[k].auto => ~Overlaps(placed[j].rect, placed[k].rect)

\* Where the cursor slides to what is nearest, and no machine that is away keeps
\* its space, it can be pushed from any monitor to any other: no arrangement has
\* a corner that cannot be left or a screen that cannot be got at.
EveryMonitorIsReached ==
  overflow = "clamp" /\ reserved = {} /\ Apart =>
    LET cells == ToSet(Cells)
        next  == [p \in cells \X cells |->
                    \E from \in PointsOf(p[1].global), by \in Deltas :
                       Resolve(Cells, from, by[1], by[2]).cell = p[2]]
        gets  == TransitiveClosure(next, cells)
    IN \A c, d \in cells : gets[c, d]

-----------------------------------------------------------------------------
(* What the documentation says and the code does not do.                   *)

\* model.rs, set_reserved: "Motion into one of these stops at the edge instead of
\* sliding past, so a machine being switched off leaves a wall where its screen
\* was rather than a shortcut to somewhere across the desk."
WallsHold ==
  Apart => \A c \in ToSet(Cells) : \A from \in PointsOf(c.global), by \in Deltas :
    (\E r \in reserved : Holds(r, [x |-> from.x + by[1], y |-> from.y + by[2]]))
      /\ (\A d \in ToSet(Cells), r \in reserved : ~Overlaps(r, d.global))
      => Resolve(Cells, from, by[1], by[2]).cell = c

\* model.rs, report_monitors: "monitors that are new or whose geometry changed
\* are left unplaced".  One that was unplugged and comes back another size finds
\* the place of the old size kept for it.
PlacedAtItsSize ==
  \A c \in ToSet(Cells) : placed[<<c.device, c.monitor>>].auto =>
    \E m \in ToSet(monitors[c.device]) :
      m.id = c.monitor /\ <<m.local.w, m.local.h>> = <<c.global.w, c.global.h>>
=============================================================================
