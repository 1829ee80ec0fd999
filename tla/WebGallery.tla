----------------------------- MODULE WebGallery ------------------------------
(***************************************************************************)
(* The web gallery: the filters in the address, pages of photos behind an  *)
(* infinite query, a selection, and the viewer with its entry in the       *)
(* browser's history, its deletion and its Live Photo stage.  Age makes no *)
(* page stale here, a change does, and Forward is not pressed (bounds).    *)
(***************************************************************************)
EXTENDS ScreenJobs

CONSTANTS Shots,          \* every photo, newest first
          Matching,       \* [filter -> photos it matches]
          PerPage, LivePhotos,
          MaxHistory      \* entries of the browser's history (a bound)
VARIABLES cloud,          \* the photos of the library
          web,            \* the gallery and the viewer
          history,        \* [filter, viewer], Nil where another page is
          backs,          \* history.back() calls whose event is to come
          strays          \* ways the history is known to get out of step
webVars == <<cloud, web, history, backs, strays>>
WebView == area = "web gallery"
Filters == DOMAIN Matching

NoStage == [playing |-> FALSE, open |-> FALSE, frames |-> "none", selected |-> FALSE, applying |-> FALSE]
NoPages == [pages |-> <<>>, more |-> FALSE, error |-> FALSE, stale |-> FALSE]
NoWeb == [cache |-> [f \in Filters |-> NoPages], selection |-> {}, asking |-> FALSE, deleting |-> FALSE,
          ids |-> <<>>, index |-> 1, stuck |-> FALSE, known |-> {}, viewAsking |-> FALSE,
          viewDeleting |-> FALSE, downloading |-> FALSE, palette |-> FALSE, stage |-> NoStage]
Top(h) == h[Len(h)]
Filter == Top(history).filter
Viewing == web.ids # <<>>
Current == web.ids[web.index]

(* ------------------------------- the server ------------------------------ *)

Matched(f) == SelectSeq(Shots, LAMBDA p : p \in cloud /\ p \in Matching[f])
Listing(f, n) == SubSeq(Matched(f), (n - 1) * PerPage + 1,
                        IF n * PerPage < Len(Matched(f)) THEN n * PerPage ELSE Len(Matched(f)))
MoreAfter(f, n) == n * PerPage < Len(Matched(f))

(* ---------------------------- the infinite query ------------------------- *)

Loading(js, f) == \E i \in DOMAIN js : js[i].op = "pages" /\ js[i].filter = f
Pages(f, acc, want) == Job("pages") @@ [filter |-> f, acc |-> acc, want |-> want]
Anew(w, f) == Pages(f, <<>>, IF w.cache[f].pages = <<>> THEN 1 ELSE Len(w.cache[f].pages))
(* What is shown is fetched when there is nothing of it, or it is stale. *)
Fetched(w, js, f) ==
  IF f = Nil \/ Loading(js, f) \/ (w.cache[f].pages # <<>> /\ ~w.cache[f].stale) THEN js
  ELSE Append(js, Anew(w, f))
(* Every list is stale, and the one in front is fetched again from its start. *)
Staled(w) == [w EXCEPT !.cache = [f \in Filters |-> [@[f] EXCEPT !.stale = TRUE]]]
Refetched(w, js, f) ==
  IF f = Nil \/ (w.cache[f].pages = <<>> /\ Loading(js, f)) THEN js
  ELSE Append(SelectSeq(js, LAMBDA j : ~(j.op = "pages" /\ j.filter = f)), Anew(w, f))
Shown == IF Filter = Nil THEN <<>> ELSE FlattenSeq(web.cache[Filter].pages)
Grid == WebView /\ Filter # Nil /\ ~Viewing /\ ~web.asking /\ ~web.palette /\ ~web.cache[Filter].error

Keeps(w, js) == web' = w /\ jobs' = js /\ Len(js) <= MaxJobs[area]
PagesBack(i) ==
  LET j == jobs[i]
      f == j.filter
      n == Len(j.acc) + 1
      acc == Append(j.acc, Listing(f, n)) IN
  /\ At(i, "pages") /\ Calm /\ UNCHANGED <<cloud, history, backs, strays>>
  /\ IF n < j.want /\ MoreAfter(f, n) THEN Becomes(i, [j EXCEPT !.acc = acc]) /\ UNCHANGED web
     ELSE Keeps([web EXCEPT !.cache[f] = [pages |-> acc, more |-> MoreAfter(f, n), error |-> FALSE, stale |-> FALSE]],
                RemoveAt(jobs, i))
(* One page that fails puts the error in the place of the whole gallery. *)
PagesFailed(i) == /\ At(i, "pages") /\ Mishap /\ UNCHANGED <<cloud, history, backs, strays>>
                  /\ Keeps([web EXCEPT !.cache[jobs[i].filter].error = TRUE], RemoveAt(jobs, i))
FetchNextPage == /\ Grid /\ web.cache[Filter].more /\ ~Loading(jobs, Filter) /\ Act
                 /\ Begun(<<Pages(Filter, web.cache[Filter].pages, Len(web.cache[Filter].pages) + 1)>>)
                 /\ UNCHANGED webVars
TryAgain == /\ WebView /\ Filter # Nil /\ ~Viewing /\ ~web.asking
            /\ web.cache[Filter].error /\ ~Loading(jobs, Filter) /\ Act
            /\ Begun(<<Anew(web, Filter)>>) /\ UNCHANGED webVars

(* --------------------------- filters, selection -------------------------- *)

Unselected(w) == [w EXCEPT !.selection = {}, !.asking = FALSE, !.deleting = FALSE]
(* The address changes: the selection stays with the gallery. *)
Arrives(w, h) ==
  LET f == Top(h).filter
      v == IF f = Nil THEN Unselected(w) ELSE w IN
  /\ history' = h /\ Keeps(v, Fetched(v, jobs, f))
Pushed(f) == Append(history, [filter |-> f, viewer |-> FALSE])
(* A pop that is on its way will take away what is pushed now. *)
Strays(viewing) == strays' = strays \cup (IF backs > 0 THEN {"crossed"} ELSE {})
                                    \cup (IF viewing THEN {"palette"} ELSE {})
SetFilter(f) == /\ Grid /\ f # Filter /\ Len(history) < MaxHistory /\ Act
                /\ Arrives(web, Pushed(f)) /\ Strays(FALSE) /\ UNCHANGED <<cloud, backs>>
(* Typing replaces the entry, also the one of another page. *)
Search(f) == /\ WebView /\ ~Viewing /\ ~web.asking /\ f # Filter /\ Act
             /\ Arrives(web, [history EXCEPT ![Len(history)] = [filter |-> f, viewer |-> FALSE]])
             /\ Strays(FALSE) /\ UNCHANGED <<cloud, backs>>
TogglePalette == /\ WebView /\ Act /\ web' = [web EXCEPT !.palette = ~@]
                 /\ UNCHANGED <<cloud, history, backs, strays, jobs>>
(* The palette opens over the viewer too, and leaves it there. *)
PaletteGo(f) ==
  /\ WebView /\ web.palette /\ Len(history) < MaxHistory /\ Act
  /\ Strays(Viewing) /\ Arrives([web EXCEPT !.palette = FALSE], Pushed(f)) /\ UNCHANGED <<cloud, backs>>

ToggleSelect(p) == /\ Grid /\ p \in ToSet(Shown) /\ Act
                   /\ web' = [web EXCEPT !.selection = IF p \in @ THEN @ \ {p} ELSE @ \cup {p}]
                   /\ UNCHANGED <<cloud, history, backs, strays, jobs>>
ClearSelection == /\ Grid /\ web.selection # {} /\ Act /\ web' = [web EXCEPT !.selection = {}]
                  /\ UNCHANGED <<cloud, history, backs, strays, jobs>>
AskDelete == /\ Grid /\ web.selection # {} /\ Act /\ web' = [web EXCEPT !.asking = TRUE]
             /\ UNCHANGED <<cloud, history, backs, strays, jobs>>
(* Escape closes the question even while photos are being deleted. *)
CancelDelete == /\ WebView /\ web.asking /\ Act /\ web' = [web EXCEPT !.asking = FALSE]
                /\ UNCHANGED <<cloud, history, backs, strays, jobs>>
DeleteSelected == /\ WebView /\ web.asking /\ ~web.deleting /\ Act
                  /\ Keeps([web EXCEPT !.deleting = TRUE], Append(jobs, Job("delete") @@ [photos |-> web.selection]))
                  /\ UNCHANGED <<cloud, history, backs, strays>>
(* Each is deleted or refused; then nothing is selected any more. *)
DeletesBack(i, bad) ==
  LET w == Staled(IF Filter = Nil THEN web ELSE Unselected(web)) IN
  /\ At(i, "delete") /\ bad \subseteq jobs[i].photos
  /\ IF bad = {} THEN Calm ELSE Mishap
  /\ cloud' = cloud \ (jobs[i].photos \ bad)
  /\ Keeps(w, Refetched(w, RemoveAt(jobs, i), Filter)) /\ UNCHANGED <<history, backs, strays>>

(* -------------------------------- the viewer ----------------------------- *)

(* The details of the photo in front are fetched once; the stage is its own. *)
Looked(w, js) ==
  LET p == w.ids[w.index] IN
  IF w.ids = <<>> \/ p \in w.known \/ \E i \in DOMAIN js : js[i].op = "photo" /\ js[i].photo = p THEN js
  ELSE Append(js, Job("photo") @@ [photo |-> p])
Staged(w) == [w EXCEPT !.stage = NoStage]
OffStage(js) == Orphaned(js, {"frames", "key"})
InView == WebView /\ Viewing /\ ~web.viewAsking /\ ~web.palette
OpenPhoto(n) ==
  LET w == Staged([web EXCEPT !.ids = Shown, !.index = n]) IN
  /\ Grid /\ n \in DOMAIN Shown /\ Len(history) < MaxHistory /\ Act
  /\ history' = IF Top(history).viewer THEN history ELSE Append(history, [filter |-> Filter, viewer |-> TRUE])
  /\ Keeps(w, Looked(w, jobs)) /\ UNCHANGED <<cloud, backs, strays>>
Moves(n) == /\ LET w == Staged([web EXCEPT !.index = n]) IN Keeps(w, OffStage(Looked(w, jobs)))
            /\ UNCHANGED <<cloud, history, backs, strays>>
Next_ == InView /\ web.index < Len(web.ids) /\ Act /\ Moves(web.index + 1)
Previous == InView /\ web.index > 1 /\ Act /\ Moves(web.index - 1)
PhotoBack(i) == /\ At(i, "photo") /\ Calm /\ UNCHANGED <<cloud, history, backs, strays>>
                /\ Keeps([web EXCEPT !.known = @ \cup {jobs[i].photo}], RemoveAt(jobs, i))
PhotoFailed(i) == At(i, "photo") /\ Mishap /\ Ends(i) /\ UNCHANGED webVars

Shut(w) == Staged([w EXCEPT !.ids = <<>>, !.index = 1])
(* A variant that leaves the entry of a viewer that closed by itself. *)
EntryLeft(h) == UNCHANGED <<backs, strays>>
(* Closed without its entry being consumed: it is popped, even when a pop
   of it is already on its way. *)
EntryPopped(h) ==
  IF ~Top(h).viewer THEN UNCHANGED <<backs, strays>>
  ELSE /\ backs' = backs + 1
       /\ strays' = IF backs > 0 THEN strays \cup {"crossed"} ELSE strays
(* X or Escape goes back through the history, once. *)
HandleClose ==
  /\ InView /\ Act /\ UNCHANGED cloud
  /\ IF Top(history).viewer
     THEN /\ ~web.stuck /\ web' = [web EXCEPT !.stuck = TRUE]
          /\ backs' = backs + 1 /\ UNCHANGED <<history, jobs, strays>>
     ELSE Keeps(Shut(web), OffStage(jobs)) /\ EntryPopped(history) /\ UNCHANGED history
(* The entry in front is gone: an open viewer closes, by this or by a second pop. *)
Popped ==
  LET h == Front(history)
      w == IF Viewing THEN [Shut(web) EXCEPT !.stuck = FALSE] ELSE web IN
  /\ Len(history) > 1 /\ Arrives(w, h) /\ UNCHANGED cloud
PopState == /\ WebView /\ backs > 0 /\ Calm /\ Popped
            /\ IF Viewing /\ Top(Front(history)).viewer THEN UNCHANGED backs ELSE backs' = backs - 1
            /\ UNCHANGED strays
PressBack == /\ WebView /\ Act /\ Popped
             /\ IF Viewing THEN EntryPopped(Front(history)) ELSE UNCHANGED <<backs, strays>>

Download == /\ InView /\ Current \in web.known /\ ~web.downloading /\ Act
            /\ Keeps([web EXCEPT !.downloading = TRUE], Append(jobs, Job("download")))
            /\ UNCHANGED <<cloud, history, backs, strays>>
DownloadBack(i) == /\ At(i, "download") /\ Calm /\ UNCHANGED <<cloud, history, backs, strays>>
                   /\ Keeps([web EXCEPT !.downloading = FALSE], RemoveAt(jobs, i))
AskViewDelete == /\ InView /\ Current \in web.known /\ Act /\ web' = [web EXCEPT !.viewAsking = TRUE]
                 /\ UNCHANGED <<cloud, history, backs, strays, jobs>>
CancelViewDelete == /\ WebView /\ web.viewAsking /\ Act /\ web' = [web EXCEPT !.viewAsking = FALSE]
                    /\ UNCHANGED <<cloud, history, backs, strays, jobs>>
HandleDelete ==
  /\ WebView /\ web.viewAsking /\ Viewing /\ ~web.viewDeleting /\ Current \in web.known /\ Act
  /\ Keeps([web EXCEPT !.viewDeleting = TRUE], Append(jobs, Job("erase") @@ [photo |-> Current]))
  /\ UNCHANGED <<cloud, history, backs, strays>>
(* What leaves the list is what is in front by now. *)
RemoveCurrent(w) ==
  LET ids == RemoveAt(w.ids, w.index) IN
  IF Len(w.ids) < 2 THEN Shut(w)
  ELSE Staged([w EXCEPT !.ids = ids, !.index = IF @ > Len(ids) THEN Len(ids) ELSE @])
EraseBack(i) ==
  LET w == Staled([RemoveCurrent(web) EXCEPT !.viewAsking = FALSE])
      js == Append(RemoveAt(jobs, i), Job("settle")) IN
  /\ At(i, "erase") /\ Calm /\ cloud' = cloud \ {jobs[i].photo}
  /\ Keeps(w, OffStage(Looked(w, Refetched(w, js, Filter))))
  /\ IF Viewing /\ w.ids = <<>> THEN EntryPopped(history) ELSE UNCHANGED <<backs, strays>>
  /\ UNCHANGED history
EraseFailed(i) == /\ At(i, "erase") /\ Mishap /\ UNCHANGED <<cloud, history, backs, strays>>
                  /\ Keeps([web EXCEPT !.viewDeleting = FALSE], RemoveAt(jobs, i))
(* The button is free again when the lists are there again. *)
EraseSettled(i) == /\ At(i, "settle") /\ ~\E f \in Filters : Loading(jobs, f)
                   /\ Calm /\ UNCHANGED <<cloud, history, backs, strays>>
                   /\ Keeps([web EXCEPT !.viewDeleting = FALSE], RemoveAt(jobs, i))

(* ---------------------------- the Live Photo stage ----------------------- *)

OnStage == InView /\ Current \in LivePhotos /\ Current \in web.known
StageTo(s) == web' = [web EXCEPT !.stage = s] /\ UNCHANGED <<cloud, history, backs, strays>>
Play == OnStage /\ Act /\ StageTo([web.stage EXCEPT !.playing = ~@]) /\ UNCHANGED jobs
OpenFrames ==
  /\ OnStage /\ ~web.stage.open /\ Act
  /\ IF web.stage.frames # "none" THEN StageTo([web.stage EXCEPT !.open = TRUE]) /\ UNCHANGED jobs
     ELSE StageTo([web.stage EXCEPT !.open = TRUE, !.frames = "extracting"]) /\ Begun(<<Job("frames")>>)
FramesBack(i) ==
  /\ At(i, "frames") /\ Ends(i)
  /\ \/ Calm /\ StageTo(IF jobs[i].live THEN [web.stage EXCEPT !.frames = "ready"] ELSE web.stage)
     \/ Mishap /\ StageTo(IF jobs[i].live THEN [web.stage EXCEPT !.frames = "none", !.open = FALSE] ELSE web.stage)
SelectFrame == /\ OnStage /\ web.stage.open /\ web.stage.frames = "ready" /\ Act
               /\ StageTo([web.stage EXCEPT !.selected = ~@]) /\ UNCHANGED jobs
CloseFrames == /\ OnStage /\ web.stage.open /\ Act
               /\ StageTo([web.stage EXCEPT !.open = FALSE, !.selected = FALSE]) /\ UNCHANGED jobs
ApplyKeyPhoto == /\ OnStage /\ web.stage.open /\ web.stage.selected /\ ~web.stage.applying /\ Act
                 /\ StageTo([web.stage EXCEPT !.applying = TRUE]) /\ Begun(<<Job("key") @@ [photo |-> Current]>>)
(* The bytes changed: the photo's details and every list are fetched again. *)
KeyBack(i) ==
  /\ At(i, "key") /\ UNCHANGED <<cloud, history, backs, strays>>
  /\ \/ /\ Calm
        /\ LET s == IF jobs[i].live THEN [web.stage EXCEPT !.selected = FALSE, !.applying = FALSE] ELSE web.stage
               w == Staled([web EXCEPT !.stage = s]) IN
           Keeps(w, Refetched(w, RemoveAt(jobs, i), Filter))
     \/ /\ Mishap
        /\ Keeps(IF jobs[i].live THEN [web EXCEPT !.stage.applying = FALSE] ELSE web, RemoveAt(jobs, i))

WebIdle == /\ cloud = {} /\ web = NoWeb /\ history = <<>> /\ backs = 0 /\ strays = {}
WebInit == /\ cloud = ToSet(Shots) /\ web = NoWeb /\ backs = 0 /\ strays = {}
           /\ history = <<[filter |-> Nil, viewer |-> FALSE], [filter |-> "all", viewer |-> FALSE]>>
           /\ jobs = <<Anew(NoWeb, "all")>>
WebNext ==
  /\ WebView
  /\ \/ FetchNextPage \/ TryAgain \/ (\E f \in Filters : SetFilter(f) \/ Search(f))
     \/ TogglePalette \/ (\E f \in {"all", Nil} : PaletteGo(f))
     \/ (\E p \in ToSet(Shots) : ToggleSelect(p)) \/ ClearSelection \/ AskDelete \/ CancelDelete \/ DeleteSelected
     \/ (\E n \in DOMAIN Shots : OpenPhoto(n)) \/ Next_ \/ Previous \/ HandleClose \/ PopState \/ PressBack
     \/ Download \/ AskViewDelete \/ CancelViewDelete \/ HandleDelete
     \/ Play \/ OpenFrames \/ SelectFrame \/ CloseFrames \/ ApplyKeyPhoto
     \/ \E i \in DOMAIN jobs :
          \/ PagesBack(i) \/ PagesFailed(i) \/ (\E bad \in SUBSET ToSet(Shots) : DeletesBack(i, bad))
          \/ PhotoBack(i) \/ PhotoFailed(i) \/ DownloadBack(i) \/ EraseBack(i) \/ EraseFailed(i) \/ EraseSettled(i)
          \/ FramesBack(i) \/ KeyBack(i)

WebTypeOK ==
  /\ web.selection \subseteq ToSet(Shots) /\ Range(web.ids) \subseteq ToSet(Shots)
  /\ Viewing => web.index \in DOMAIN web.ids
  /\ \A n \in DOMAIN history : history[n].filter \in Filters \cup {Nil}
  /\ backs \in 0..3 /\ strays \subseteq {"crossed", "palette"}

(* Whenever no pop is on its way, the viewer is open exactly when its entry
   is in front of the history, and its X works: whichever of a deletion, X,
   Escape and Back closed it, Back never meets an entry of a viewer that is
   closed.  Two ways the code loses step are set apart: what happens while a
   pop is on its way (a deletion that empties the viewer pops once more, a
   page that is opened is popped in the entry's place), and the palette,
   which leads elsewhere under an open viewer. *)
ViewerInStep ==
  (WebView /\ strays = {} /\ backs = 0) =>
    /\ Viewing <=> Top(history).viewer
    /\ Viewing => ~web.stuck
=============================================================================
