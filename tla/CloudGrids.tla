----------------------------- MODULE CloudGrids ------------------------------
(***************************************************************************)
(* The grids of the phone that only show the cloud, the gallery and the    *)
(* photos of a person, and the viewer opened from them.  A photo is the    *)
(* time it was taken at, 0 for none; month m has the times 2m-1 and 2m.    *)
(* Other devices add photos and remove none; a video is ready to play; the *)
(* Live chip, the prefetch and downloads are left out (bounds).            *)
(***************************************************************************)
EXTENDS ScreenJobs

CONSTANTS StockTimes,     \* photos in the cloud at first
          ArrivingTimes,  \* photos another device may add
          VideoTimes,     \* those that are videos
          GridPage        \* photos of a page

ASSUME GridAssumption ==
  /\ StockTimes \cup ArrivingTimes \subseteq Nat /\ IsFiniteSet(StockTimes \cup ArrivingTimes)
  /\ GridPage \in Nat \ {0}

VARIABLES stock,          \* the photos in the cloud
          grid,           \* the gallery, or the grid of a person
          viewing         \* the viewer over it
gridVars == <<stock, grid, viewing>>
GridView == area = "cloud grid"

Instants == StockTimes \cup ArrivingTimes
Chips == {"All", "Photo", "Video"}
Orders == {"desc", "asc"}
MonthOf(t) == (t + 1) \div 2
ChipKeeps(S, chip) == CASE chip = "All" -> S [] chip = "Photo" -> S \ VideoTimes [] chip = "Video" -> S \cap VideoTimes

NoGrid == [of |-> "gallery", chip |-> "All", order |-> "desc", status |-> "loading", items |-> <<>>, page |-> 0,
           total |-> 0, more |-> FALSE, months |-> Nil, anchor |-> Nil, refreshing |-> FALSE, playing |-> Nil,
           known |-> {}, slips |-> {}]
NoViewing == [visible |-> FALSE, closing |-> FALSE, assets |-> <<>>, index |-> 1, asking |-> Nil, slipped |-> FALSE]

(* ------------------------------- the server ------------------------------ *)

(* Undated photos are the last of the newest and the first of the oldest;
   a range leaves them out. *)
InRange(t, order, month) == \/ month = Nil
                            \/ t > 0 /\ (IF order = "desc" THEN t <= 2 * month ELSE t >= 2 * month - 1)
Ranged(S, chip, order, month) == InOrder({t \in ChipKeeps(S, chip) : InRange(t, order, month)}, order)
GridSlice(listing, n) == SubSeq(listing, (n - 1) * GridPage + 1, Min({n * GridPage, Len(listing)}))
TotalPages(listing) == (Len(listing) + GridPage - 1) \div GridPage

(* -------------------------------- requests ------------------------------- *)

PageAsked(n, g) ==
  [op |-> "load", live |-> TRUE, page |-> n, chip |-> g.chip, order |-> g.order, refresh |-> FALSE]
EffectAsked(g) == [op |-> "first", live |-> TRUE, chip |-> g.chip, order |-> g.order]
BucketsAsked(g) == [op |-> "buckets", live |-> TRUE, chip |-> g.chip]
JumpAsked(month, g) == [op |-> "jump", live |-> TRUE, month |-> month, chip |-> g.chip, order |-> g.order]
RemovalAsked(a) == [op |-> "delete", live |-> TRUE, photo |-> a.photo, assets |-> a.assets, index |-> a.index]
(* What a refresh and a close of the viewer ask for. *)
GridReloads(g) == IF g.of = "gallery" THEN <<BucketsAsked(g), PageAsked(1, g)>> ELSE <<PageAsked(1, g)>>
GridHolds(js) == jobs' = js /\ Len(js) <= MaxJobs[area]
StartsOver(js) == \E i \in DOMAIN js : js[i].live /\ (js[i].op = "first" \/ (js[i].op = "load" /\ js[i].page = 1))
AsksCurrent(j) == j.chip = grid.chip /\ j.order = grid.order

(* A first page starts the window over, whichever filter it was asked for. *)
Rebased(g, j, listing, month) ==
  [g EXCEPT !.status = "ready", !.items = GridSlice(listing, 1), !.page = 1, !.total = TotalPages(listing),
            !.more = FALSE, !.anchor = month, !.known = stock,
            !.slips = IF j.op = "first" \/ AsksCurrent(j) THEN {} ELSE {"late"}]
(* A later page is added to whatever is there: it counts pages of the whole
   listing of the filter it was asked for, also after a jump, and after the
   answer to a page that follows it. *)
SlipsOf(g, j) ==
  LET grown == Cardinality(stock \ g.known) IN
  (IF AsksCurrent(j) /\ j.page \in {g.page, g.page + 1} THEN {} ELSE {"late"})
  \cup (IF g.anchor = Nil THEN {} ELSE {"jumped"})
  \cup (IF grown = 0 \/ (grown = 1 /\ j.page = g.page + 1) THEN {} ELSE {"grown"})
Unlisted(g, ts) == Sifted(ts, {i \in DOMAIN ts : ts[i] \notin ToSet(g.items)})
Extended(g, j, listing) ==
  IF g.status # "ready" THEN g
  ELSE [g EXCEPT !.items = @ \o Unlisted(g, GridSlice(listing, j.page)),
                 !.page = j.page, !.total = TotalPages(listing), !.more = FALSE, !.slips = @ \cup SlipsOf(g, j)]
GridAnswered(g, j) == LET listing == Ranged(stock, j.chip, j.order, Nil) IN
                      IF j.page = 1 THEN Rebased(g, j, listing, Nil) ELSE Extended(g, j, listing)
Unspun(g, j) == IF j.refresh THEN [g EXCEPT !.refreshing = FALSE] ELSE g

LoadBack(i) == /\ At(i, "load") /\ Calm /\ Ends(i) /\ UNCHANGED <<stock, viewing>>
               /\ grid' = Unspun(GridAnswered(grid, jobs[i]), jobs[i])
(* Any page that fails puts the error in the place of the grid. *)
LoadFailed(i) == /\ At(i, "load") /\ Mishap /\ Ends(i) /\ UNCHANGED <<stock, viewing>>
                 /\ grid' = Unspun([grid EXCEPT !.status = "error"], jobs[i])
(* A variant without the flag of the effect. *)
HeededAlways(j) == TRUE
(* The effect's own request counts until the filter changes. *)
Heeded(j) == j.live
FirstPageBack(i, ok) ==
  /\ At(i, "first") /\ Ends(i) /\ UNCHANGED <<stock, viewing>>
  /\ IF ok THEN Calm ELSE Mishap
  /\ grid' = IF ~Heeded(jobs[i]) THEN grid
             ELSE IF ok THEN Rebased(grid, jobs[i], Ranged(stock, jobs[i].chip, jobs[i].order, Nil), Nil)
             ELSE [grid EXCEPT !.status = "error"]
BucketsBack(i, ok) ==
  /\ At(i, "buckets") /\ Ends(i) /\ UNCHANGED <<stock, viewing>>
  /\ IF ok THEN Calm ELSE Mishap
  /\ grid' = [grid EXCEPT !.months = IF ok THEN {MonthOf(t) : t \in ChipKeeps(stock, jobs[i].chip)} ELSE Nil]

(* --------------------------------- the grid ------------------------------ *)

Unobstructed == GridView /\ ~viewing.visible /\ viewing.asking = Nil /\ grid.playing = Nil
GridReady == Unobstructed /\ grid.status = "ready"
GridUsed == GridReady /\ grid.items # <<>>

PickChip(chip, order) ==
  LET g == [grid EXCEPT !.chip = chip, !.order = order, !.status = "loading"] IN
  /\ GridReady /\ grid.of = "gallery" /\ Act /\ UNCHANGED <<stock, viewing>>
  /\ (chip = grid.chip) # (order = grid.order)
  /\ grid' = g
  /\ GridHolds(Orphaned(jobs, {"first"}) \o <<BucketsAsked(g), EffectAsked(g)>>)
(* The page of the person merged or renamed: its token reloads the grid. *)
TokenBumped == /\ Unobstructed /\ grid.of = "person" /\ Act /\ UNCHANGED <<stock, viewing>>
               /\ grid' = [grid EXCEPT !.status = "loading"] /\ Begun(<<PageAsked(1, grid)>>)
EndReached == /\ GridUsed /\ ~grid.more /\ grid.page < grid.total /\ Act /\ UNCHANGED <<stock, viewing>>
              /\ grid' = [grid EXCEPT !.more = TRUE] /\ Begun(<<PageAsked(grid.page + 1, grid)>>)
PullDown ==
  /\ GridUsed /\ ~grid.refreshing /\ Act /\ UNCHANGED <<stock, viewing>>
  /\ grid' = [grid EXCEPT !.refreshing = TRUE]
  /\ LET js == GridReloads(grid) IN Begun([js EXCEPT ![Len(js)].refresh = TRUE])
RetryGrid == /\ Unobstructed /\ grid.status = "error" /\ Act /\ UNCHANGED <<stock, viewing>>
             /\ grid' = [grid EXCEPT !.status = "loading"] /\ Begun(<<PageAsked(1, grid)>>)

(* The rail: a month rebases the window, the undated ride at its ends. *)
OnRail == IF grid.months = Nil THEN {} ELSE grid.months
JumpTo(month) ==
  /\ GridUsed /\ month \in OnRail /\ Act /\ UNCHANGED gridVars
  /\ IF month # 0 THEN Begun(<<JumpAsked(month, grid)>>)
     ELSE grid.order = "asc" /\ Begun(<<PageAsked(1, grid)>>)
JumpBack(i) ==
  LET j == jobs[i]
      listing == Ranged(stock, j.chip, j.order, j.month) IN
  /\ At(i, "jump") /\ Calm /\ UNCHANGED <<stock, viewing>>
  /\ IF listing = <<>> THEN Leads(i, <<PageAsked(1, j)>>) /\ UNCHANGED grid
     ELSE Ends(i) /\ grid' = Rebased(grid, j, listing, j.month)
JumpFailed(i) == At(i, "jump") /\ Mishap /\ Ends(i) /\ UNCHANGED gridVars

PhotoArrives(t) == /\ GridView /\ t \in ArrivingTimes \ stock /\ Act
                   /\ stock' = stock \cup {t} /\ UNCHANGED <<grid, viewing, jobs>>

(* -------------------------------- the viewer ----------------------------- *)

(* The gallery plays a video and shows the photos; the grid of a person
   shows everything in the viewer. *)
Openable(g) == IF g.of = "person" THEN g.items ELSE Sifted(g.items, {i \in DOMAIN g.items : g.items[i] \notin VideoTimes})
OpenGridPhoto(t) ==
  /\ GridUsed /\ t \in ToSet(grid.items) /\ UNCHANGED <<stock, jobs>> /\ Calm
  /\ IF t \in ToSet(Openable(grid))
     THEN /\ viewing' = [NoViewing EXCEPT !.visible = TRUE, !.assets = Openable(grid),
                                          !.index = CHOOSE k \in DOMAIN Openable(grid) : Openable(grid)[k] = t,
                                          !.slipped = grid.slips # {} \/ StartsOver(jobs)]
          /\ UNCHANGED grid
     ELSE grid' = [grid EXCEPT !.playing = t] /\ UNCHANGED viewing
ClosePlayer == /\ GridView /\ grid.playing # Nil /\ Calm
               /\ grid' = [grid EXCEPT !.playing = Nil] /\ UNCHANGED <<stock, viewing, jobs>>

InViewer == GridView /\ viewing.visible /\ viewing.asking = Nil
SwipeTo(k) == /\ InViewer /\ k \in {viewing.index - 1, viewing.index + 1} \cap DOMAIN viewing.assets /\ Act
              /\ viewing' = [viewing EXCEPT !.index = k] /\ UNCHANGED <<stock, grid, jobs>>
(* A close is stamped twice, and the grid reloads at each stamp. *)
Stamped(v) == [v EXCEPT !.closing = v.visible]
RequestClose == /\ InViewer /\ Act /\ viewing' = Stamped(viewing)
                /\ Begun(GridReloads(grid)) /\ UNCHANGED <<stock, grid>>
FinishClose == /\ GridView /\ viewing.visible /\ viewing.closing /\ Calm
               /\ viewing' = [viewing EXCEPT !.visible = FALSE, !.closing = FALSE]
               /\ Begun(GridReloads(grid)) /\ UNCHANGED <<stock, grid>>

(* The question keeps the photo, the list and the place it was asked at. *)
AskRemoval == /\ InViewer /\ ~viewing.closing /\ viewing.assets # <<>> /\ Act
              /\ viewing' = [viewing EXCEPT !.asking = [photo |-> viewing.assets[viewing.index],
                                                        assets |-> viewing.assets, index |-> viewing.index]]
              /\ UNCHANGED <<stock, grid, jobs>>
AnswerRemoval(ok) ==
  /\ GridView /\ viewing.asking # Nil /\ Calm /\ UNCHANGED <<stock, grid>>
  /\ viewing' = [viewing EXCEPT !.asking = Nil]
  /\ IF ok THEN Begun(<<RemovalAsked(viewing.asking)>>) ELSE UNCHANGED jobs

LeftOf(j) == Sifted(j.assets, {i \in DOMAIN j.assets : j.assets[i] # j.photo})
(* The viewer goes on with the list the question was asked over. *)
TakenOut(v, j) ==
  LET left == LeftOf(j) IN
  [v EXCEPT !.assets = left, !.index = IF left = <<>> THEN @ ELSE Min({j.index, Len(left)}),
            !.slipped = @ \/ v.assets # j.assets]
Unseen(g, j) == IF viewing.visible THEN g ELSE [g EXCEPT !.slips = @ \cup {"overlap"}]
RemovalDone(i) ==
  LET j == jobs[i] IN
  /\ At(i, "delete") /\ Calm /\ stock' = stock \ {j.photo} /\ grid' = Unseen(grid, j)
  /\ IF LeftOf(j) = <<>> THEN Leads(i, GridReloads(grid)) /\ viewing' = Stamped(TakenOut(viewing, j))
     ELSE Ends(i) /\ viewing' = TakenOut(viewing, j)
(* Refused, or done and the answer lost: the photo stays in the viewer. *)
RemovalFailed(i, lost) ==
  /\ At(i, "delete") /\ Mishap /\ Ends(i)
  /\ IF lost THEN /\ stock' = stock \ {jobs[i].photo} /\ grid' = Unseen(grid, jobs[i])
                  /\ viewing' = [viewing EXCEPT !.slipped = TRUE]
     ELSE UNCHANGED gridVars

GridInit ==
  /\ stock = StockTimes /\ viewing = NoViewing
  /\ \/ grid = NoGrid /\ jobs = <<BucketsAsked(NoGrid), EffectAsked(NoGrid)>>
     \/ grid = [NoGrid EXCEPT !.of = "person"] /\ jobs = <<PageAsked(1, NoGrid)>>
GridIdle == stock = {} /\ grid = NoGrid /\ viewing = NoViewing
GridNext ==
  \/ TokenBumped \/ EndReached \/ PullDown \/ RetryGrid \/ ClosePlayer \/ RequestClose \/ FinishClose \/ AskRemoval
  \/ \E chip \in Chips, order \in Orders : PickChip(chip, order)
  \/ \E month \in {MonthOf(t) : t \in Instants} : JumpTo(month)
  \/ \E t \in Instants : PhotoArrives(t) \/ OpenGridPhoto(t)
  \/ \E k \in DOMAIN viewing.assets : SwipeTo(k)
  \/ \E ok \in BOOLEAN : AnswerRemoval(ok)
  \/ \E i \in DOMAIN jobs :
       \/ LoadBack(i) \/ LoadFailed(i) \/ JumpBack(i) \/ JumpFailed(i) \/ RemovalDone(i)
       \/ \E ok \in BOOLEAN : FirstPageBack(i, ok) \/ BucketsBack(i, ok) \/ RemovalFailed(i, ok)

(* --------------------------------- properties ---------------------------- *)

GridTypeOK ==
  /\ stock \subseteq Instants /\ ToSet(grid.items) \subseteq Instants
  /\ grid.status \in {"loading", "error", "ready"} /\ grid.chip \in Chips /\ grid.order \in Orders
  /\ grid.slips \subseteq {"late", "jumped", "grown", "overlap"} /\ viewing.index \in Nat

(* However filters, jumps, pages, closes and deletions answer: unless an
   answer for another filter or another list was let in, or one to an earlier
   page, the grid shows the listing of the filter that is chosen from its
   start, in its order and with nothing left out (load, jumpToMonth and
   onEndReached of CloudGallery), and the viewer stands on a photo that
   exists (removeCurrentFromList). *)
GridFollows ==
  LET whole == Ranged(grid.known \cap stock, grid.chip, grid.order, grid.anchor) IN
  /\ (GridView /\ grid.status = "ready" /\ grid.slips = {} /\ ~viewing.visible /\ ~StartsOver(jobs)) =>
       /\ \A i, k \in DOMAIN grid.items : i < k => Ahead(grid.order, grid.items[i], grid.items[k])
       /\ ToSet(grid.items) \subseteq ChipKeeps(stock, grid.chip)
       /\ grid.items # <<>> =>
            \A t \in ToSet(whole) : t \in ToSet(grid.items) \/ Ahead(grid.order, Last(grid.items), t)
  /\ (GridView /\ viewing.visible /\ ~viewing.slipped) =>
       /\ ToSet(viewing.assets) \subseteq stock
       /\ viewing.index \in DOMAIN viewing.assets \/ viewing.closing
=============================================================================
