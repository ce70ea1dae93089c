----------------------------- MODULE Occupancy -----------------------------
(***************************************************************************)
(* Which chunks a set of regions occupies, and the footprints a reduction  *)
(* reads them by: src/src/reduce/occupancy.cc, occupancy.h, region_runs.cc *)
(* and footprint.h.                                                        *)
(*                                                                         *)
(* A region is a box on the plane and, when it is not all of the box, a    *)
(* raster of bytes, row-major with x fastest.  It is placed on the axes u  *)
(* (the one the store varies fastest) and v, and its raster is turned into *)
(* runs along u unless it is too fragmented.                               *)
(***************************************************************************)
EXTENDS ChunkBlocks, FiniteSets, Sequences, SequencesExt

CONSTANTS NoMask,              \* mask.data == nullptr
          NoRuns,              \* a raster not turned into runs
          LeastPixelsPerRun,   \* kLeastPixelsPerRun
          WordBytes,           \* sizeof(std::uint64_t): bytes looked at together
          MaxRegions,          \* kMaxSpectralRegions
          MaxIncidences        \* kMaxChunkIncidences

ASSUME OccupancyAssumption ==
    /\ LeastPixelsPerRun \in Positive /\ WordBytes \in Positive
    /\ MaxRegions \in Nat /\ MaxIncidences \in Nat

-----------------------------------------------------------------------------
(* Placing a region. *)

Byte(raster, k) == raster[k + 1]
Box(region) == region.width * region.height

(* Whether a region can be placed on the plane: not empty, not off it, and  *)
(* its raster, if it has one, cut for it.                                   *)
Placeable(region, plane) ==
    /\ region.width # 0 /\ region.height # 0
    /\ region.x_start < plane.width /\ region.width <= plane.width - region.x_start
    /\ region.y_start < plane.height /\ region.height <= plane.height - region.y_start
    /\ IF region.mask # NoMask THEN Len(region.mask) = Box(region) ELSE region.mask_size = 0

(* Whether WordBytes bytes change nothing: all selected inside a run, none  *)
(* outside one.                                                             *)
NothingChanges(raster, from, inside) ==
    \A k \in 0 .. WordBytes - 1 : (Byte(raster, from + k) # 0) = inside

(* The runs of row y, each <<begin, end>>: a scan that skips a word at a    *)
(* time where nothing changes.                                              *)
RowRuns(raster, width, y) ==
    LET scan[x \in 0 .. width, begin \in -1 .. width] ==
          LET inside   == begin >= 0
              selected == Byte(raster, y * width + x) # 0
          IN  IF x = width THEN (IF inside THEN <<<<begin, width>>>> ELSE <<>>)
              ELSE IF x + WordBytes <= width /\ NothingChanges(raster, y * width + x, inside)
                THEN scan[x + WordBytes, begin]
              ELSE IF selected = inside THEN scan[x + 1, begin]
              ELSE IF selected THEN scan[x + 1, x]
              ELSE <<<<begin, x>>>> \o scan[x + 1, -1]
    IN  scan[0, -1]

(* The edges <<column, y>> where row y is selected otherwise than the row   *)
(* above, in order: a word at a time where the two are the same bytes.  The *)
(* row above the first and the one past the last are nothing.               *)
RowEdges(raster, width, height, y) ==
    LET At(x, row) == IF row \in 0 .. height - 1 THEN Byte(raster, row * width + x) ELSE 0
        scan[x \in 0 .. width] ==
          IF x = width THEN <<>>
          ELSE IF x + WordBytes <= width /\ \A k \in x .. x + WordBytes - 1 : At(k, y) = At(k, y - 1)
            THEN scan[x + WordBytes]
          ELSE IF (At(x, y) # 0) # (At(x, y - 1) # 0) THEN <<<<x, y>>>> \o scan[x + 1]
          ELSE scan[x + 1]
    IN  scan[0]

(* Edges sorted by column, each put where the cursor of its column is, and  *)
(* two of a column being a run of it.                                       *)
ColumnRuns(edges, width) ==
    LET offset(column) == Cardinality({k \in DOMAIN edges : edges[k][1] < column})
        cursor(k) == offset(edges[k][1]) + Cardinality({j \in 1 .. k : edges[j][1] = edges[k][1]})
        rows   == [at \in DOMAIN edges |-> edges[CHOOSE k \in DOMAIN edges : cursor(k) = at][2]]
        first(column) == offset(column) \div 2
    IN  [l \in 1 .. width |->
            [k \in 1 .. first(l) - first(l - 1) |->
                <<rows[2 * (first(l - 1) + k) - 1], rows[2 * (first(l - 1) + k)]>>]]

AlongX(raster, width, height, most_runs) ==
    LET runs == [l \in 1 .. height |-> RowRuns(raster, width, l - 1)]
    IN  IF Len(FlattenSeq(runs)) > most_runs THEN NoRuns ELSE runs
AlongY(raster, width, height, most_runs) ==
    LET edges == FlattenSeq([l \in 1 .. height + 1 |-> RowEdges(raster, width, height, l - 1)])
    IN  IF Len(edges) > 2 * most_runs THEN NoRuns ELSE ColumnRuns(edges, width)

(* The runs of every line of a raster, line l at l + 1, or none when there  *)
(* are more of them than it is worth.                                       *)
RunsAlongU(raster, width, height, u_is_x) ==
    LET lines == IF u_is_x THEN height ELSE width
        most_runs == Greatest(lines, (width * height) \div LeastPixelsPerRun)
    IN  IF u_is_x THEN AlongX(raster, width, height, most_runs) ELSE AlongY(raster, width, height, most_runs)

(* A region on the axes u and v.  The raster stays as the caller wrote it;  *)
(* only the steps through it change.                                        *)
PlacedRegion(given, swap_spatial) ==
    [u_start |-> IF swap_spatial THEN given.y_start ELSE given.x_start,
     v_start |-> IF swap_spatial THEN given.x_start ELSE given.y_start,
     u_size  |-> IF swap_spatial THEN given.height ELSE given.width,
     v_size  |-> IF swap_spatial THEN given.width ELSE given.height,
     mask    |-> given.mask,
     mask_u_stride |-> IF swap_spatial THEN given.width ELSE 1,
     mask_v_stride |-> IF swap_spatial THEN 1 ELSE given.width,
     runs    |-> IF given.mask = NoMask THEN NoRuns
                 ELSE RunsAlongU(given.mask, given.width, given.height, ~ swap_spatial)]

(* The rows [first, last) of a region inside a box, none when it misses it  *)
(* along either axis.                                                       *)
RowsWithin(region, u0, u1, v0, v1) ==
    LET first_v == Greatest(v0, region.v_start)
        last_v  == Least(v1, region.v_start + region.v_size)
        misses_u == Greatest(u0, region.u_start) >= Least(u1, region.u_start + region.u_size)
    IN  IF misses_u \/ first_v >= last_v THEN 0 .. -1 ELSE first_v .. last_v - 1

(* The spans of row y a region selects in [u0, u1): the runs cut to it, or  *)
(* one span of the box, whose pixels the raster picks among if there is one.*)
ForEachSpan(region, y, u0, u1) ==
    LET first == Greatest(u0, region.u_start)
        last  == Least(u1, region.u_start + region.u_size)
        cut(run) == [first |-> Greatest(first, region.u_start + run[1]),
                     last |-> Least(last, region.u_start + run[2]), masked |-> FALSE]
        runs == region.runs[y - region.v_start + 1]
    IN  IF first >= last THEN <<>>
        ELSE IF region.runs # NoRuns
          THEN SelectSeq([k \in DOMAIN runs |-> cut(runs[k])], LAMBDA s : s.first < s.last)
        ELSE <<[first |-> first, last |-> last, masked |-> region.mask # NoMask]>>

(* The pixels of a span that are selected, in order along u. *)
Selected(region, y, span) ==
    LET at(u) == (y - region.v_start) * region.mask_v_stride
                   + (u - region.u_start) * region.mask_u_stride
    IN  SelectSeq([k \in 1 .. span.last - span.first |-> span.first + k - 1],
                  LAMBDA u : span.masked => Byte(region.mask, at(u)) # 0)

-----------------------------------------------------------------------------
(* Indexing the regions by the chunks they occupy. *)

(* The chunk cells <<cu, cv>> a region occupies: those of its rows' spans,  *)
(* a span read through the raster only where a pixel of it is selected.     *)
CellsOf(region, chunk_u, chunk_v) ==
    UNION {LET span == ForEachSpan(region, y, region.u_start, region.u_start + region.u_size)
           IN  UNION {IF span[k].masked
                      THEN {<<u \div chunk_u, y \div chunk_v>> : u \in ToSet(Selected(region, y, span[k]))}
                      ELSE {<<cu, y \div chunk_v>> : cu \in span[k].first \div chunk_u ..
                                                            (span[k].last - 1) \div chunk_u}
                      : k \in DOMAIN span}
           : y \in region.v_start .. region.v_start + region.v_size - 1}

(* A cell's number in the grid over the bounding box, row by row. *)
Cell(index, cu, cv) == (cv - index.chunk_cv0) * index.columns + (cu - index.chunk_cu0)

(* The regions touching a chunk, in the order they were given. *)
RegionsTouching(index, cu, cv) ==
    LET key == Cell(index, cu, cv)
    IN  SelectSeq([r \in DOMAIN index.regions |-> r], LAMBDA r : key \in index.cells_of[r])

OccupiedCells(index) == UNION Range(index.cells_of)
IndexChunks(index) == Cardinality(OccupiedCells(index))

(* Occupancy::Of: the regions placed, the box around them and the chunk     *)
(* grid over it, and the cells each occupies.                               *)
IndexOf(given, chunk_u, chunk_v, swap_spatial) ==
    LET placed == [r \in DOMAIN given |-> PlacedRegion(given[r], swap_spatial)]
        u0 == Min({placed[r].u_start : r \in DOMAIN placed})
        v0 == Min({placed[r].v_start : r \in DOMAIN placed})
        u1 == Max({placed[r].u_start + placed[r].u_size : r \in DOMAIN placed})
        v1 == Max({placed[r].v_start + placed[r].v_size : r \in DOMAIN placed})
        grid == [chunk_cu0 |-> u0 \div chunk_u, chunk_cv0 |-> v0 \div chunk_v,
                 columns |-> (u1 - 1) \div chunk_u - u0 \div chunk_u + 1]
        cells(r) == {Cell(grid, c[1], c[2]) : c \in CellsOf(placed[r], chunk_u, chunk_v)}
    IN  [regions |-> placed, chunk_u |-> chunk_u, chunk_v |-> chunk_v,
         u0 |-> u0, v0 |-> v0, u1 |-> u1, v1 |-> v1,
         chunk_cu0 |-> grid.chunk_cu0, chunk_cv0 |-> grid.chunk_cv0, columns |-> grid.columns,
         cells_of |-> [r \in DOMAIN placed |-> cells(r)]]

Incidences(index) == MapThenSumSet(LAMBDA r : Cardinality(index.cells_of[r]), DOMAIN index.regions)

-----------------------------------------------------------------------------
(* Cutting what is occupied into footprints. *)

(* The maximal runs [first, last] of occupied columns of a chunk row. *)
RunsOfRow(index, row) ==
    LET columns == {c \in 0 .. index.columns - 1 : row * index.columns + c \in OccupiedCells(index)}
        firsts  == {c \in columns : c - 1 \notin columns}
        last(c) == Min({l \in columns : l >= c /\ l + 1 \notin columns})
        sorted  == SetToSortSeq(firsts, <)
    IN  [k \in DOMAIN sorted |-> [first |-> sorted[k], last |-> last(sorted[k])]]

(* The occupied chunk rows, ascending, each with its runs. *)
OccupiedRows(index) ==
    LET rows == SetToSortSeq({cell \div index.columns : cell \in OccupiedCells(index)}, <)
    IN  [k \in DOMAIN rows |-> [row |-> rows[k], runs |-> RunsOfRow(index, rows[k])]]

(* Faults, for checking that the properties notice them. *)
JoinWhateverRow(rows, at, next) == rows[next].runs = rows[at].runs

(* Only the next row along joins a band, and only if it is occupied alike.  *)
JoinsBand(rows, at, next) ==
    rows[next].row = rows[at].row + (next - at) /\ rows[next].runs = rows[at].runs

(* A run wider than a read is read in pieces. *)
PieceOfRun(limit, first, last) == Least(limit, last - first + 1)

(* Where a footprint ends: at its last chunk's end, or the regions' own. *)
FootprintEnd(begin, width, chunk, box_end) == Least(box_end, (begin + width) * chunk)

(* One footprint: its chunks [begin, begin + width) and [.., .. + rows) on  *)
(* the grid, and the slab of pixels, no more than the regions' own box.     *)
Footprint(index, row, rows, first, width) ==
    LET cu == index.chunk_cu0 + first
        cv == index.chunk_cv0 + row
        u_begin == Greatest(index.u0, cu * index.chunk_u)
        v_begin == Greatest(index.v0, cv * index.chunk_v)
    IN  [cu_begin |-> cu, cu_end |-> cu + width, cv_begin |-> cv, cv_end |-> cv + rows,
         u_start |-> u_begin, v_start |-> v_begin,
         u_end |-> FootprintEnd(cu, width, index.chunk_u, index.u1),
         v_end |-> FootprintEnd(cv, rows, index.chunk_v, index.v1),
         chunks |-> width * rows]

(* Every band of alike rows a read affords at its widest run, cut into      *)
(* pieces a read affords at the band's height.                              *)
FootprintsOf(index, chunks_per_read) ==
    LET rows == OccupiedRows(index)
        widest(at) == Max({r.last - r.first + 1 : r \in Range(rows[at].runs)})
        limit(at)  == UnitsAffordable(chunks_per_read, widest(at))
        joins[at \in 1 .. Len(rows), next \in 1 .. Len(rows) + 1] ==
            IF next <= Len(rows) /\ next - at < limit(at) /\ JoinsBand(rows, at, next)
            THEN joins[at, next + 1] ELSE next
        pieces(at, band) ==
            LET segment_limit == UnitsAffordable(chunks_per_read, band)
                cut[first \in Nat, last \in Nat] ==
                    IF first > last THEN <<>>
                    ELSE LET width == PieceOfRun(segment_limit, first, last)
                         IN  <<Footprint(index, rows[at].row, band, first, width)>>
                               \o cut[first + width, last]
            IN  FlattenSeq([k \in DOMAIN rows[at].runs |->
                              cut[rows[at].runs[k].first, rows[at].runs[k].last]])
        bands[at \in 1 .. Len(rows) + 1] ==
            IF at > Len(rows) THEN <<>>
            ELSE LET next == joins[at, at + 1]
                 IN  pieces(at, next - at) \o bands[next]
    IN  bands[1]
=============================================================================
