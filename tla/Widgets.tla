------------------------------ MODULE Widgets -------------------------------
(***************************************************************************)
(* UICApi.cpp and the classes of endpoint/UI.h: widgets are LVGL's objects *)
(* in a tree, and the program holds objects of C++ that each delete theirs *)
(* when they go.  The model keeps which objects there are, what memory the *)
(* library hangs on them (an object's user data, event callbacks that free *)
(* it when the object is deleted, and the table of background images) and  *)
(* which handles the program has.  How a widget looks is left out: a call  *)
(* that only forwards to LVGL uses its handle and changes nothing here.    *)
(* Fonts, which the program loads and frees itself, are left out too, and  *)
(* with them a font that is freed before the widgets it was set for.       *)
(*                                                                         *)
(* The UI has one thread, so every call is one step.                       *)
(***************************************************************************)

CONSTANTS
  Widgets,      \* LVGL's objects, by their place in memory
  Blocks,       \* what the library allocates for them
  Kinds,        \* the kinds that the program makes
  None

ASSUME ObjectsAssumption == None \notin Widgets \cup Blocks /\ "label" \notin Blocks

\* The kinds of widget, section by section of the C interface.  Each of these is
\* one object of LVGL, or one with children that LVGL deletes with it; what is
\* not an action below forwards to LVGL, and the library allocates nothing for it
\* but a text that it frees again (UICApi.cpp:539) and the fonts.
Panels == {"container", "border", "stackpanel"}
Grids == {"grid"}
Docks == {"dockpanel", "menu"}
Tables == {"calendar", "datagrid"}
Trees == {"treeview"}
Buttons == {"button"}
Labels == {"label"}
Images == {"image"}
Texts == {"textbox", "slider", "checkbox"}
Choices == {"keyboard", "switch", "progressbar", "dropdown", "radiobutton"}
Boxes == {"messagebox"}
Lists == {"listbox"}
Simple == UNION {Panels, Grids, Docks, Tables, Trees, Buttons, Labels, Images, Texts,
                 Choices, Boxes, Lists}

\* ... and these have a block in their user data
Composed == {"chart", "gauge"}

\* What tells the program of a click or of a new value
Subscribed ==
  Buttons \cup Texts \cup (Choices \ {"keyboard", "progressbar"}) \cup {"menuitem", "item"}

AllKinds == Simple \cup Composed \cup {"screen", "menuitem", "item"}

ASSUME KindsAssumption == None \notin AllKinds \cup {"label"}

VARIABLES
  kind,         \* object -> its kind, None when there is no such object
  parent,       \* object -> the one that it is in
  data,         \* object -> lv_obj_get_user_data: a block, "label" or None
  frees,        \* object -> the blocks that an LV_EVENT_DELETE callback frees
  image,        \* BgImageTable: object -> its slot
  records,      \* object -> the SubRecords, with their handlers, that its events go to
  heap,         \* the blocks allocated
  owner,        \* object -> the program has a Widget with its handle
  ruined,       \* grids whose new definitions ran out of memory
  strays,       \* blocks that nobody will free (history)
  broken        \* a call used or freed what was gone: anything may follow

widgetVars == <<kind, parent, data, frees, image, records, heap, owner, ruined, strays, broken>>

WidgetsInit ==
  /\ kind = [w \in Widgets |-> None] /\ parent = [w \in Widgets |-> None]
  /\ data = [w \in Widgets |-> None] /\ frees = [w \in Widgets |-> {}]
  /\ image = [w \in Widgets |-> None] /\ records = [w \in Widgets |-> {}] /\ heap = {}
  /\ owner = [w \in Widgets |-> FALSE] /\ ruined = {} /\ strays = {} /\ broken = FALSE

Live(w) == kind[w] # None

\* A set that has, with an object, those in it
Closed(objects) == \A v \in Widgets : Live(v) /\ parent[v] \in objects => v \in objects

\* w and what is in it, at any depth
Tree(w) == {v \in Widgets : \A objects \in SUBSET Widgets :
                              w \in objects /\ Closed(objects) => v \in objects}

\* What no callback of a deleted object frees: an image's descriptor, and the
\* records of its subscriptions
Unfreed(objects) ==
  ({data[w] : w \in {v \in objects : kind[v] = "image"}} \ {None})
  \cup UNION {records[w] : w \in objects}

\* Mutant: no callback empties the table of background images
DeletesButImages(objects) ==
  /\ heap' = heap \ UNION {frees[w] : w \in objects}
  /\ kind' = [w \in Widgets |-> IF w \in objects THEN None ELSE kind[w]]
  /\ parent' = [w \in Widgets |-> IF w \in objects THEN None ELSE parent[w]]
  /\ data' = [w \in Widgets |-> IF w \in objects THEN None ELSE data[w]]
  /\ frees' = [w \in Widgets |-> IF w \in objects THEN {} ELSE frees[w]]
  /\ image' = [w \in Widgets |-> IF w \in objects THEN None ELSE image[w]]
  /\ records' = [w \in Widgets |-> IF w \in objects THEN {} ELSE records[w]]
  /\ ruined' = ruined \ objects
  /\ strays' = strays \cup Unfreed(objects)

\* lv_obj_delete, with what the callbacks of LV_EVENT_DELETE do for each object
Deletes(objects) ==
  LET freed == (UNION {frees[w] : w \in objects}) \cup {image[w] : w \in objects} IN
  /\ heap' = heap \ freed
  /\ kind' = [w \in Widgets |-> IF w \in objects THEN None ELSE kind[w]]
  /\ parent' = [w \in Widgets |-> IF w \in objects THEN None ELSE parent[w]]
  /\ data' = [w \in Widgets |-> IF w \in objects THEN None ELSE data[w]]
  /\ frees' = [w \in Widgets |-> IF w \in objects THEN {} ELSE frees[w]]
  /\ image' = [w \in Widgets |-> IF w \in objects THEN None ELSE image[w]]
  /\ records' = [w \in Widgets |-> IF w \in objects THEN {} ELSE records[w]]
  /\ ruined' = ruined \ objects
  /\ strays' = strays \cup Unfreed(objects)

Makes(w, p, k, owned) ==
  /\ kind' = [kind EXCEPT ![w] = k]
  /\ parent' = [parent EXCEPT ![w] = p]
  /\ owner' = [owner EXCEPT ![w] = owned]

Unused(w) == ~Live(w) /\ ~owner[w]

-----------------------------------------------------------------------------
\* A screen has no parent; the program's object for it owns it
CreateScreen(w) ==
  /\ ~broken /\ Unused(w)
  /\ Makes(w, None, "screen", TRUE)
  /\ UNCHANGED <<data, frees, image, records, heap, ruined, strays, broken>>

\* One object, no memory of its own; nothing is left of it when that fails
Create(w, p, k) ==
  /\ ~broken /\ Unused(w) /\ Live(p) /\ k \in Simple \cap Kinds
  /\ Makes(w, p, k, TRUE)
  /\ UNCHANGED <<data, frees, image, records, heap, ruined, strays, broken>>

\* A chart's series, a gauge's scale and needle: a block hangs on the object
\* and goes with it
CreateChart(w, p, b) ==
  /\ ~broken /\ Unused(w) /\ Live(p) /\ b \notin heap /\ "chart" \in Kinds
  /\ Makes(w, p, "chart", TRUE)
  /\ heap' = heap \cup {b}
  /\ data' = [data EXCEPT ![w] = b] /\ frees' = [frees EXCEPT ![w] = {b}]
  /\ UNCHANGED <<image, records, ruined, strays, broken>>

CreateGauge(w, p, b) ==
  /\ ~broken /\ Unused(w) /\ Live(p) /\ b \notin heap /\ "gauge" \in Kinds
  /\ Makes(w, p, "gauge", TRUE)
  /\ heap' = heap \cup {b}
  /\ data' = [data EXCEPT ![w] = b] /\ frees' = [frees EXCEPT ![w] = {b}]
  /\ UNCHANGED <<image, records, ruined, strays, broken>>

\* Memory runs out for a part of it: the object stays where it was put, and
\* nobody has its handle
CreateHalf(w, p, k) ==
  /\ ~broken /\ Unused(w) /\ Live(p) /\ k \in (Composed \cup {"menuitem"}) \cap Kinds
  /\ k = "menuitem" => kind[p] = "menu"
  /\ Makes(w, p, k, FALSE)
  /\ UNCHANGED <<data, frees, image, records, heap, ruined, strays, broken>>

\* Items of lists and trees, a message box's buttons: the program gets a
\* handle, and the object goes with what it is in
AddItem(w, p) ==
  /\ ~broken /\ Unused(w) /\ Live(p) /\ kind[p] \in Lists \cup Trees \cup Boxes
  /\ Makes(w, p, "item", FALSE)
  /\ UNCHANGED <<data, frees, image, records, heap, ruined, strays, broken>>

\* A menu's item is a button with its label in the user data, or a dropdown
AddMenuItem(w, p, holds) ==
  /\ ~broken /\ Unused(w) /\ Live(p) /\ kind[p] = "menu"
  /\ Makes(w, p, "menuitem", FALSE)
  /\ data' = [data EXCEPT ![w] = holds]
  /\ UNCHANGED <<frees, image, records, heap, ruined, strays, broken>>

-----------------------------------------------------------------------------
\* The setters of a chart and of a gauge go through the block in the user data
ChartStateGone(w) == kind[w] = "chart" /\ data[w] \in Blocks \ heap
GaugeStateGone(w) == kind[w] = "gauge" /\ data[w] \in Blocks \ heap

InOrder(w) == Live(w) /\ ~ChartStateGone(w) /\ ~GaugeStateGone(w)

\* A call through the handle of a Widget that only forwards changes nothing
\* here, unless what it uses is gone
Forward(w) ==
  /\ ~broken /\ owner[w] /\ ~InOrder(w)
  /\ broken' = TRUE
  /\ UNCHANGED <<kind, parent, data, frees, image, records, heap, owner, ruined, strays>>

\* ButtonLabel: made when first needed, remembered in the user data
ButtonLabel(w) ==
  /\ ~broken /\ Live(w) /\ kind[w] \in {"button", "menuitem"}
  /\ data' = [data EXCEPT ![w] = IF @ = None THEN "label" ELSE @]
  /\ UNCHANGED <<kind, parent, frees, image, records, heap, owner, ruined, strays, broken>>

\* grid_set_definitions frees the old ones before it allocates the new ones
GridDefine(w, b) ==
  /\ ~broken /\ Live(w) /\ kind[w] = "grid" /\ b \notin heap
  /\ broken' = (w \in ruined)
  /\ heap' = (heap \ {data[w]}) \cup {b}
  /\ data' = [data EXCEPT ![w] = b]
  /\ frees' = [frees EXCEPT ![w] = (@ \ {data[w]}) \cup {b}]
  /\ ruined' = ruined \ {w}
  /\ UNCHANGED <<kind, parent, image, records, owner, strays>>

\* ... so that without memory the grid keeps what was freed
GridDefineFails(w, lost) ==
  /\ ~broken /\ Live(w) /\ kind[w] = "grid" /\ lost \cap heap = {}
  /\ broken' = (w \in ruined)
  /\ heap' = (heap \ {data[w]}) \cup lost
  /\ strays' = strays \cup lost
  /\ frees' = [frees EXCEPT ![w] = @ \ {data[w]}]
  /\ ruined' = IF data[w] = None THEN ruined ELSE ruined \cup {w}
  /\ UNCHANGED <<kind, parent, data, image, records, owner>>

\* image_set_source: the descriptor before goes; no callback frees the last
ImageSetSource(w, b) ==
  /\ ~broken /\ Live(w) /\ kind[w] = "image" /\ b \notin heap
  /\ heap' = (heap \ {data[w]}) \cup {b}
  /\ data' = [data EXCEPT ![w] = b]
  /\ UNCHANGED <<kind, parent, frees, image, records, owner, ruined, strays, broken>>

\* set_bg_image: the object's slot in the table, made once, filled each time
SetBgImage(w, b) ==
  /\ ~broken /\ Live(w) /\ owner[w] /\ b \notin heap
  /\ image' = [image EXCEPT ![w] = IF @ = None THEN b ELSE @]
  /\ heap' = heap \cup {image'[w]}
  /\ UNCHANGED <<kind, parent, data, frees, records, owner, ruined, strays, broken>>

\* Clicked, ValueChanged: another record each time, which an event callback of the
\* object leads to; "unsubscribe isn't exposed yet"
Subscribe(w, b) ==
  /\ ~broken /\ Live(w) /\ kind[w] \in Subscribed /\ b \notin heap
  /\ heap' = heap \cup {b}
  /\ records' = [records EXCEPT ![w] = @ \cup {b}]
  /\ UNCHANGED <<kind, parent, data, frees, image, owner, ruined, strays, broken>>

\* listbox_clear, treeview_clear: lv_obj_clean
Clear(w) ==
  /\ ~broken /\ Live(w) /\ kind[w] \in {"listbox", "treeview"}
  /\ Deletes(Tree(w) \ {w})
  /\ UNCHANGED <<owner, broken>>

\* messagebox_hide: lv_msgbox_close deletes the box
Hide(w) ==
  /\ ~broken /\ Live(w) /\ kind[w] = "messagebox"
  /\ Deletes(Tree(w))
  /\ UNCHANGED <<owner, broken>>

\* ~Widget: endpoint_ui_widget_destroy
Destroy(w) ==
  /\ ~broken /\ owner[w]
  /\ owner' = [owner EXCEPT ![w] = FALSE]
  /\ IF Live(w)
     THEN Deletes(Tree(w)) /\ UNCHANGED broken
     ELSE broken' = TRUE /\ UNCHANGED <<kind, parent, data, frees, image, records, heap, ruined, strays>>

WidgetsNext ==
  \E w \in Widgets :
    \/ CreateScreen(w)
    \/ \E p \in Widgets :
         \/ \E k \in Kinds : Create(w, p, k) \/ CreateHalf(w, p, k)
         \/ \E b \in Blocks : CreateChart(w, p, b) \/ CreateGauge(w, p, b)
         \/ AddItem(w, p)
         \/ \E holds \in {"label", None} : AddMenuItem(w, p, holds)
    \/ Forward(w)
    \/ ButtonLabel(w)
    \/ \E b \in Blocks : GridDefine(w, b) \/ ImageSetSource(w, b) \/ SetBgImage(w, b) \/ Subscribe(w, b)
    \/ \E lost \in {{}} \cup {{b} : b \in Blocks} : GridDefineFails(w, lost)
    \/ Clear(w)
    \/ Hide(w)
    \/ Destroy(w)

WidgetsSpec == WidgetsInit /\ [][WidgetsNext]_widgetVars

-----------------------------------------------------------------------------
\* Objects, blocks and the program's handles have their types.
WidgetsTypeOK ==
  /\ kind \in [Widgets -> AllKinds \cup {None}]
  /\ parent \in [Widgets -> Widgets \cup {None}]
  /\ data \in [Widgets -> Blocks \cup {"label", None}]
  /\ frees \in [Widgets -> SUBSET Blocks]
  /\ image \in [Widgets -> Blocks \cup {None}] /\ records \in [Widgets -> SUBSET Blocks]
  /\ heap \subseteq Blocks /\ owner \in [Widgets -> BOOLEAN] /\ ruined \subseteq Widgets

\* An object in the tree is in an object in the tree, and what hangs on it is
\* still allocated - but for a grid whose definitions ran out of memory.
AttachedLives ==
  ~broken => \A w \in Widgets : Live(w) =>
    /\ parent[w] # None => Live(parent[w])
    /\ data[w] \in Blocks /\ w \notin ruined => data[w] \in heap
    /\ frees[w] \subseteq heap
    /\ image[w] # None => image[w] \in heap
    /\ records[w] \subseteq heap

\* What is allocated hangs on one object in the tree and goes with it, but for
\* an image's last descriptor, what a failed definition left, and the record and
\* the handler of each subscription of an object that is gone (UICApi.cpp:57-60).
NothingLeaks ==
  ~broken => \A b \in heap \ strays :
    \E w \in Widgets :
      /\ Live(w) /\ b \in {data[w], image[w]} \cup records[w]
      /\ \A v \in Widgets \ (ruined \cup {w}) : b \notin {data[v], image[v]} \cup records[v]

\* Both: no block is used after it was freed, and none is lost but those named.
MemoryIsOwned == AttachedLives /\ NothingLeaks

=============================================================================
