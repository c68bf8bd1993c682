--------------------------- MODULE Resources_proofs ---------------------------
(***************************************************************************)
(* Proofs about the six components of Resources, one after the other, for  *)
(* any widgets, threads, controllers, frequencies, interfaces, processes   *)
(* and timeouts; and about the program that uses them.  What is said of    *)
(* Network, Display and Watchdog is said of their instances there.         *)
(***************************************************************************)
EXTENDS Resources, WellFoundedInduction, TLAPS

-----------------------------------------------------------------------------
(* Widgets: every block is owned once, and the memory of no other is used. *)

Holders == {"chart", "gauge", "grid"}

\* There is nothing left of an object that was deleted.
Bare(w) ==
  /\ parent[w] = None /\ data[w] = None /\ frees[w] = {} /\ image[w] = None
  /\ records[w] = {} /\ w \notin ruined

\* A block in the user data goes with the object, unless it is gone already, or
\* an image's descriptor.
Hangs(w) ==
  /\ data[w] \in Blocks => kind[w] \in Holders \cup {"image"}
  /\ w \in ruined => kind[w] = "grid"
  /\ frees[w] = IF kind[w] \in Holders /\ w \notin ruined THEN {data[w]} \cap Blocks ELSE {}

Objects == \A w \in Widgets : IF Live(w) THEN Hangs(w) ELSE Bare(w)

\* A block is one object's, as its user data, or as its background image or a
\* record of its subscriptions.
Carries(w, b) == Live(w) /\ (b = image[w] \/ b \in records[w])
OwnsData(w, b) == Live(w) /\ b = data[w] /\ w \notin ruined
Owns(w, b) == Carries(w, b) \/ OwnsData(w, b)
OwnedOnce ==
  \A b \in Blocks, w \in Widgets : Owns(w, b) =>
    /\ b \in heap
    /\ ~(Carries(w, b) /\ OwnsData(w, b))
    /\ \A v \in Widgets : Owns(v, b) => v = w
Found == \A b \in heap \ strays : \E w \in Widgets : Owns(w, b)

\* The objects are a tree: nothing is in itself, at any depth.
Rooted ==
  \A w \in Widgets : Live(w) /\ parent[w] # None => Live(parent[w]) /\ parent[w] \notin Tree(w)

WidgetsInv == WidgetsTypeOK /\ (~broken => Objects /\ OwnedOnce /\ Found /\ Rooted)

-----------------------------------------------------------------------------
LEMMA TreeIsClosed == ASSUME NEW w \in Widgets PROVE w \in Tree(w) /\ Closed(Tree(w)) /\ Tree(w) \subseteq Widgets
BY DEF Tree, Closed

LEMMA TreeIsLeast ==
  ASSUME NEW w \in Widgets, NEW S \in SUBSET Widgets, w \in S, Closed(S)
  PROVE  Tree(w) \subseteq S
BY DEF Tree

\* The least set stays the least one: what holds of every set that is closed in
\* the next state.
LEMMA TreeIsLeastNext ==
  ASSUME NEW w \in Widgets, NEW S \in SUBSET Widgets, w \in S,
         \A v \in Widgets : Live(v)' /\ parent'[v] \in S => v \in S
  PROVE  Tree(w)' \subseteq S
BY DEF Tree, Closed

\* With fewer objects, where they were, a tree has no more than it had.
LEMMA TreeShrinks ==
  ASSUME NEW w \in Widgets, \A v \in Widgets : Live(v)' => Live(v) /\ parent'[v] = parent[v]
  PROVE  Tree(w)' \subseteq Tree(w)
<1> DEFINE S == Tree(w)
<1>1. w \in S /\ S \in SUBSET Widgets /\ \A v \in Widgets : Live(v) /\ parent[v] \in S => v \in S
  BY TreeIsClosed DEF Closed
<1> HIDE DEF S
<1>2. PICK T : T = S
  OBVIOUS
<1>3. Tree(w)' \subseteq T
  BY <1>1, <1>2, TreeIsLeastNext
<1> QED BY <1>2, <1>3 DEF S

\* A new object that nothing is in is all that a tree gains; and its own tree.
LEMMA TreeGrows ==
  ASSUME NEW w \in Widgets, NEW v \in Widgets, ~Live(v),
         \A u \in Widgets \ {v} : (Live(u)' <=> Live(u)) /\ parent'[u] = parent[u],
         \A u \in Widgets : Live(u) => parent[u] # v,
         parent'[v] # v
  PROVE  Tree(w)' \subseteq Tree(w) \cup {v} /\ (w = v => Tree(w)' = {v})
<1> DEFINE S == Tree(w) \cup {v}
<1>1. w \in S /\ S \in SUBSET Widgets /\ \A u \in Widgets : Live(u)' /\ parent'[u] \in S => u \in S
  BY TreeIsClosed DEF Closed
<1> HIDE DEF S
<1>2. PICK T : T = S
  OBVIOUS
<1>3. Tree(w)' \subseteq T
  BY <1>1, <1>2, TreeIsLeastNext
<1>4. ASSUME w = v PROVE Tree(w)' \subseteq {v}
  BY <1>4, TreeIsLeastNext
<1>5. w \in Tree(w)'
  BY DEF Tree
<1> QED BY <1>2, <1>3, <1>4, <1>5 DEF S
-----------------------------------------------------------------------------
LEMMA InvMeans ==
  ASSUME WidgetsInv, ~broken
  PROVE  WidgetsTypeOK /\ Objects /\ OwnedOnce /\ Found /\ Rooted
BY DEF WidgetsInv

\* A new object, with or without a block that hangs on it.
LEMMA MakesKeeps ==
  ASSUME WidgetsInv, ~broken, NEW w \in Widgets, ~Live(w), NEW k \in AllKinds,
         NEW p \in Widgets \cup {None}, p # None => Live(p), NEW owned \in BOOLEAN, Makes(w, p, k, owned),
         NEW d \in Blocks \cup {"label", None}, d \in Blocks => k \in Composed /\ d \notin heap,
         data' = [data EXCEPT ![w] = d], frees' = [frees EXCEPT ![w] = {d} \cap Blocks],
         heap' = heap \cup ({d} \cap Blocks), UNCHANGED <<image, records, ruined, strays, broken>>
  PROVE  WidgetsInv'
<1>0. /\ WidgetsTypeOK /\ Objects /\ OwnedOnce /\ Found /\ Rooted
      /\ None \notin Widgets /\ None \notin Blocks /\ "label" \notin Blocks /\ None \notin AllKinds
  BY InvMeans, ObjectsAssumption, KindsAssumption
<1>1. /\ kind' = [kind EXCEPT ![w] = k] /\ parent' = [parent EXCEPT ![w] = p]
      /\ owner' = [owner EXCEPT ![w] = owned] /\ ~broken'
  BY DEF Makes
<1>2. WidgetsTypeOK'
  BY <1>0, <1>1 DEF WidgetsTypeOK
<1>3. /\ kind'[w] = k /\ parent'[w] = p /\ data'[w] = d /\ frees'[w] = {d} \cap Blocks
      /\ \A v \in Widgets \ {w} : /\ kind'[v] = kind[v] /\ parent'[v] = parent[v]
                                  /\ data'[v] = data[v] /\ frees'[v] = frees[v]
      /\ image[w] = None /\ records[w] = {} /\ w \notin ruined
  BY <1>0, <1>1 DEF WidgetsTypeOK, Objects, Bare
<1>4. Live(w)' /\ \A v \in Widgets \ {w} : Live(v)' <=> Live(v)
  BY <1>0, <1>3 DEF Live
<1>5. Objects'
  <2> SUFFICES ASSUME NEW v \in Widgets PROVE (IF Live(v) THEN Hangs(v) ELSE Bare(v))'
    BY DEF Objects
  <2>1. CASE v # w
    BY <1>0, <1>3, <1>4, <2>1 DEF Objects, Hangs, Bare
  <2>2. CASE v = w
    BY <1>0, <1>3, <1>4, <2>2 DEF Hangs, Holders, Composed
  <2> QED BY <2>1, <2>2
<1>6. /\ \A b : OwnsData(w, b)' <=> b = d
      /\ \A b \in Blocks : ~Carries(w, b)'
      /\ \A b : \A v \in Widgets \ {w} : (OwnsData(v, b)' <=> OwnsData(v, b)) /\ (Carries(v, b)' <=> Carries(v, b))
      /\ \A b : ~Owns(w, b)
  BY <1>0, <1>3, <1>4 DEF OwnsData, Carries, Owns
<1>7. OwnedOnce'
  <2> SUFFICES ASSUME NEW b \in Blocks, NEW u \in Widgets, Owns(u, b)'
               PROVE  /\ b \in heap'
                      /\ ~(Carries(u, b)' /\ OwnsData(u, b)')
                      /\ \A v \in Widgets : Owns(v, b)' => v = u
    BY DEF OwnedOnce
  <2>1. CASE b = d
    <3>1. \A v \in Widgets \ {w} : ~Owns(v, b)'
      BY <1>0, <1>6, <2>1 DEF OwnedOnce, Owns
    <3> QED BY <1>6, <2>1, <3>1 DEF Owns
  <2>2. CASE b # d
    <3>1. ~Owns(w, b)' /\ u # w
      BY <1>6, <2>2 DEF Owns
    <3> QED BY <1>0, <1>6, <3>1 DEF OwnedOnce, Owns
  <2> QED BY <2>1, <2>2
<1>8. Found'
  BY <1>0, <1>6 DEF Found, Owns
<1>9. Rooted'
  <2>1. parent'[w] # w /\ \A u \in Widgets : Live(u) => parent[u] # w
    BY <1>0, <1>3 DEF Rooted
  <2> SUFFICES ASSUME NEW v \in Widgets, Live(v)', parent'[v] # None
               PROVE  Live(parent[v])' /\ parent'[v] \notin Tree(v)'
    BY DEF Rooted
  <2>2. CASE v = w
    <3>1. Tree(v)' = {w}
      BY <1>3, <1>4, <2>1, <2>2, TreeGrows
    <3> QED BY <1>0, <1>3, <1>4, <2>1, <2>2, <3>1
  <2>3. CASE v # w
    <3>1. Live(v) /\ parent[v] # None /\ parent'[v] = parent[v] /\ parent[v] # w /\ parent[v] \in Widgets
      BY <1>0, <1>3, <1>4, <2>1, <2>3 DEF WidgetsTypeOK
    <3>2. Tree(v)' \subseteq Tree(v) \cup {w}
      BY <1>3, <1>4, <2>1, TreeGrows
    <3> QED BY <1>0, <1>3, <1>4, <3>1, <3>2 DEF Rooted
  <2> QED BY <2>2, <2>3
<1> QED BY <1>1, <1>2, <1>5, <1>7, <1>8, <1>9 DEF WidgetsInv

-----------------------------------------------------------------------------
\* Other user data for an object: what it had is free, unless it was an item's
\* label.
LEMMA DataKeeps ==
  ASSUME WidgetsInv, ~broken, NEW w \in Widgets, Live(w), w \notin ruined,
         NEW d \in Blocks \cup {"label", None},
         d \in Blocks => d \notin heap /\ kind[w] \in Holders \cup {"image"},
         data' = [data EXCEPT ![w] = d], heap' = (heap \ {data[w]}) \cup ({d} \cap Blocks),
         frees' = [frees EXCEPT ![w] = IF kind[w] \in Holders THEN {d} \cap Blocks ELSE {}],
         UNCHANGED <<kind, parent, image, records, owner, ruined, strays>>
  PROVE  WidgetsInv'
<1>0. /\ WidgetsTypeOK /\ Objects /\ OwnedOnce /\ Found /\ Rooted
      /\ None \notin Widgets /\ None \notin Blocks /\ "label" \notin Blocks
  BY InvMeans, ObjectsAssumption
<1>1. WidgetsTypeOK'
  BY <1>0 DEF WidgetsTypeOK
<1>2. /\ data'[w] = d /\ frees'[w] = IF kind[w] \in Holders THEN {d} \cap Blocks ELSE {}
      /\ \A v \in Widgets \ {w} : data'[v] = data[v] /\ frees'[v] = frees[v]
      /\ \A v \in Widgets : Live(v)' <=> Live(v)
  BY <1>0 DEF WidgetsTypeOK, Live
<1>3. Objects'
  <2> SUFFICES ASSUME NEW v \in Widgets PROVE (IF Live(v) THEN Hangs(v) ELSE Bare(v))'
    BY DEF Objects
  <2>1. CASE v # w
    BY <1>0, <1>2, <2>1 DEF Objects, Hangs, Bare
  <2>2. CASE v = w
    BY <1>0, <1>2, <2>2 DEF Objects, Hangs
  <2> QED BY <2>1, <2>2
<1>4. /\ \A b : OwnsData(w, b)' <=> b = d
      /\ \A b : \A v \in Widgets \ {w} : OwnsData(v, b)' <=> OwnsData(v, b)
      /\ \A b : \A v \in Widgets : Carries(v, b)' <=> Carries(v, b)
      /\ OwnsData(w, data[w])
  BY <1>2 DEF OwnsData, Carries
\* Nobody else had what is free now.
<1>5. ASSUME NEW b \in Blocks, b = data[w] PROVE b # d /\ \A v \in Widgets : ~Owns(v, b)'
  <2>1. b \in heap /\ ~Carries(w, b) /\ \A v \in Widgets : Owns(v, b) => v = w
    BY <1>0, <1>4, <1>5 DEF OwnedOnce, Owns
  <2>2. b # d
    BY <2>1
  <2> QED BY <1>4, <2>1, <2>2 DEF Owns
<1>6. OwnedOnce'
  <2> SUFFICES ASSUME NEW b \in Blocks, NEW u \in Widgets, Owns(u, b)'
               PROVE  /\ b \in heap'
                      /\ ~(Carries(u, b)' /\ OwnsData(u, b)')
                      /\ \A v \in Widgets : Owns(v, b)' => v = u
    BY DEF OwnedOnce
  <2>0. b # data[w]
    BY <1>5
  <2>1. CASE b = d
    <3>1. \A v \in Widgets : ~Owns(v, b)
      BY <1>0, <2>1 DEF OwnedOnce
    <3> QED BY <1>4, <2>1, <3>1 DEF Owns
  <2>2. CASE b # d
    <3>1. \A v \in Widgets : Owns(v, b)' => Owns(v, b)
      BY <1>4, <2>2 DEF Owns
    <3>2. Carries(u, b)' /\ OwnsData(u, b)' => Carries(u, b) /\ OwnsData(u, b)
      BY <1>4, <2>2
    <3> QED BY <1>0, <2>0, <3>1, <3>2 DEF OwnedOnce
  <2> QED BY <2>1, <2>2
<1>7. Found'
  <2> SUFFICES ASSUME NEW b \in heap' \ strays PROVE \E v \in Widgets : Owns(v, b)'
    BY DEF Found
  <2>1. CASE b = d
    BY <1>4, <2>1 DEF Owns
  <2>2. CASE b # d
    <3>1. b \in heap \ strays /\ b # data[w]
      BY <2>2
    <3>2. PICK v \in Widgets : Owns(v, b)
      BY <1>0, <3>1 DEF Found
    <3>3. Owns(v, b)'
      BY <1>4, <3>1, <3>2 DEF Owns, OwnsData
    <3> QED BY <3>3
  <2> QED BY <2>1, <2>2
<1>8. Rooted'
  <2>1. \A v \in Widgets : Tree(v)' \subseteq Tree(v)
    BY <1>2, TreeShrinks
  <2> QED BY <1>0, <1>2, <2>1 DEF Rooted, Live
<1> QED BY <1>1, <1>3, <1>6, <1>7, <1>8 DEF WidgetsInv

-----------------------------------------------------------------------------
\* An object carries a new block besides its user data.
LEMMA CarryKeeps ==
  ASSUME WidgetsInv, ~broken, NEW w \in Widgets, Live(w), NEW b \in Blocks, b \notin heap,
         \/ image[w] = None /\ image' = [image EXCEPT ![w] = b] /\ records' = records
         \/ records' = [records EXCEPT ![w] = @ \cup {b}] /\ image' = image,
         heap' = heap \cup {b}, UNCHANGED <<kind, parent, data, frees, owner, ruined, strays, broken>>
  PROVE  WidgetsInv'
<1>0. /\ WidgetsTypeOK /\ Objects /\ OwnedOnce /\ Found /\ Rooted
      /\ None \notin Widgets /\ None \notin Blocks
  BY InvMeans, ObjectsAssumption
<1>1. WidgetsTypeOK'
  BY <1>0 DEF WidgetsTypeOK
<1>2. \A v \in Widgets : Live(v)' <=> Live(v)
  BY DEF Live
<1>3. \A v \in Widgets \ {w} : image'[v] = image[v] /\ records'[v] = records[v]
  BY <1>0 DEF WidgetsTypeOK
<1>4. /\ \A c : \A v \in Widgets : OwnsData(v, c)' <=> OwnsData(v, c)
      /\ \A c : \A v \in Widgets \ {w} : Carries(v, c)' <=> Carries(v, c)
  BY <1>2, <1>3 DEF OwnsData, Carries
<1>5. \A c \in Blocks : Carries(w, c)' <=> Carries(w, c) \/ c = b
  BY <1>0, <1>2 DEF Carries, WidgetsTypeOK
<1>6. \A v \in Widgets : ~Owns(v, b)
  BY <1>0 DEF OwnedOnce
<1>7. \A c \in Blocks, v \in Widgets : Owns(v, c)' <=> Owns(v, c) \/ (v = w /\ c = b)
  BY <1>4, <1>5 DEF Owns
<1>8. Objects'
  <2> SUFFICES ASSUME NEW v \in Widgets PROVE (IF Live(v) THEN Hangs(v) ELSE Bare(v))'
    BY DEF Objects
  <2>1. CASE Live(v)
    BY <1>0, <1>2, <2>1 DEF Objects, Hangs
  <2>2. CASE ~Live(v)
    BY <1>0, <1>2, <1>3, <2>2 DEF Objects, Bare
  <2> QED BY <2>1, <2>2
<1>9. OwnedOnce'
  BY <1>0, <1>4, <1>5, <1>6, <1>7 DEF OwnedOnce, Owns
<1>10. Found'
  <2> SUFFICES ASSUME NEW c \in heap' \ strays PROVE \E v \in Widgets : Owns(v, c)'
    BY DEF Found
  <2>1. c \in Blocks
    BY <1>0 DEF WidgetsTypeOK
  <2>2. CASE c = b
    BY <1>7, <2>2
  <2>3. CASE c # b
    BY <1>0, <1>7, <2>1, <2>3 DEF Found
  <2> QED BY <2>2, <2>3
<1>11. Rooted'
  <2>1. \A v \in Widgets : Tree(v)' \subseteq Tree(v)
    BY <1>2, TreeShrinks
  <2> QED BY <1>0, <1>2, <2>1 DEF Rooted, Live
<1> QED BY <1>1, <1>8, <1>9, <1>10, <1>11 DEF WidgetsInv

-----------------------------------------------------------------------------
\* Objects are deleted with all that is in them: what hung on them is free.
LEMMA DeletesKeeps ==
  ASSUME WidgetsInv, ~broken, NEW objects \in SUBSET Widgets,
         \A v \in Widgets : Live(v) /\ parent[v] \in objects => v \in objects,
         Deletes(objects), owner' \in [Widgets -> BOOLEAN], UNCHANGED broken
  PROVE  WidgetsInv'
<1>0. /\ WidgetsTypeOK /\ Objects /\ OwnedOnce /\ Found /\ Rooted
      /\ None \notin Widgets /\ None \notin Blocks /\ "label" \notin Blocks
  BY InvMeans, ObjectsAssumption
<1>1. /\ heap' = heap \ ((UNION {frees[w] : w \in objects}) \cup {image[w] : w \in objects})
      /\ kind' = [w \in Widgets |-> IF w \in objects THEN None ELSE kind[w]]
      /\ parent' = [w \in Widgets |-> IF w \in objects THEN None ELSE parent[w]]
      /\ data' = [w \in Widgets |-> IF w \in objects THEN None ELSE data[w]]
      /\ frees' = [w \in Widgets |-> IF w \in objects THEN {} ELSE frees[w]]
      /\ image' = [w \in Widgets |-> IF w \in objects THEN None ELSE image[w]]
      /\ records' = [w \in Widgets |-> IF w \in objects THEN {} ELSE records[w]]
      /\ ruined' = ruined \ objects
      /\ strays' = strays \cup (({data[w] : w \in {v \in objects : kind[v] = "image"}} \ {None})
                               \cup UNION {records[w] : w \in objects})
  BY DEF Deletes, Unfreed
<1>2. WidgetsTypeOK'
  BY <1>0, <1>1 DEF WidgetsTypeOK
<1>3. /\ \A v \in objects : ~Live(v)' /\ Bare(v)'
      /\ \A v \in Widgets \ objects : /\ kind'[v] = kind[v] /\ parent'[v] = parent[v]
                                      /\ image'[v] = image[v] /\ records'[v] = records[v]
                                      /\ data'[v] = data[v] /\ frees'[v] = frees[v]
                                      /\ (v \in ruined' <=> v \in ruined)
  BY <1>1 DEF Live, Bare
<1>4. Objects'
  BY <1>0, <1>3 DEF Objects, Hangs, Bare, Live
<1>5. /\ \A b : \A v \in Widgets \ objects : (OwnsData(v, b)' <=> OwnsData(v, b)) /\ (Carries(v, b)' <=> Carries(v, b))
      /\ \A b : \A v \in objects : ~Owns(v, b)'
  BY <1>3 DEF OwnsData, Carries, Owns, Live
\* What is free now was one of theirs.
<1>6. ASSUME NEW b \in Blocks, NEW v \in Widgets \ objects, Owns(v, b), b \notin heap' PROVE FALSE
  <2>1. b \in heap
    BY <1>0, <1>6 DEF OwnedOnce
  <2>2. PICK u \in objects : b \in frees[u] \/ b = image[u]
    BY <1>1, <1>6, <2>1
  <2>3. Live(u) /\ (b \in frees[u] => b = data[u] /\ u \notin ruined)
    BY <1>0, <1>6, <2>2 DEF Objects, Hangs, Bare
  <2>4. Owns(u, b)
    BY <2>2, <2>3 DEF Owns, Carries, OwnsData
  <2> QED BY <1>0, <1>6, <2>4 DEF OwnedOnce
<1>7. OwnedOnce'
  <2> SUFFICES ASSUME NEW b \in Blocks, NEW u \in Widgets, Owns(u, b)'
               PROVE  /\ b \in heap'
                      /\ ~(Carries(u, b)' /\ OwnsData(u, b)')
                      /\ \A v \in Widgets : Owns(v, b)' => v = u
    BY DEF OwnedOnce
  <2>1. u \in Widgets \ objects /\ Owns(u, b)
    BY <1>5 DEF Owns
  <2>2. \A v \in Widgets : Owns(v, b)' => Owns(v, b)
    BY <1>5 DEF Owns
  <2>3. Carries(u, b)' /\ OwnsData(u, b)' => Carries(u, b) /\ OwnsData(u, b)
    BY <1>5, <2>1
  <2> QED BY <1>0, <1>6, <2>1, <2>2, <2>3 DEF OwnedOnce
<1>8. Found'
  <2> SUFFICES ASSUME NEW b \in heap' \ strays' PROVE \E v \in Widgets : Owns(v, b)'
    BY DEF Found
  <2>1. b \in heap \ strays /\ b \in Blocks
    BY <1>0, <1>1 DEF WidgetsTypeOK
  <2>2. PICK v \in Widgets : Owns(v, b)
    BY <1>0, <2>1 DEF Found
  <2>3. ASSUME v \in objects PROVE FALSE
    <3>1. b # image[v] /\ b \notin frees[v] /\ b \notin records[v]
      BY <1>1, <2>3
    <3>2. b = data[v] /\ v \notin ruined /\ Live(v)
      BY <2>2, <3>1 DEF Owns, Carries, OwnsData
    <3>3. kind[v] = "image"
      BY <1>0, <2>1, <3>1, <3>2 DEF Objects, Hangs
    <3> QED BY <1>0, <1>1, <2>1, <2>3, <3>2, <3>3
  <2> QED BY <1>5, <2>2, <2>3 DEF Owns
<1>9. Rooted'
  <2>1. \A v \in Widgets : Tree(v)' \subseteq Tree(v)
    BY <1>3, TreeShrinks DEF Live
  <2> SUFFICES ASSUME NEW v \in Widgets, Live(v)', parent'[v] # None
               PROVE  Live(parent[v])' /\ parent'[v] \notin Tree(v)'
    BY DEF Rooted
  <2>2. v \notin objects /\ Live(v) /\ parent'[v] = parent[v] /\ parent[v] # None /\ parent[v] \in Widgets
    BY <1>0, <1>3 DEF Live, WidgetsTypeOK
  <2>3. parent[v] \notin objects /\ Live(parent[v]) /\ parent[v] \notin Tree(v)
    BY <1>0, <2>2 DEF Rooted
  <2>4. Live(parent[v])'
    BY <1>3, <2>2, <2>3 DEF Live
  <2> QED BY <2>1, <2>2, <2>3, <2>4
<1> QED BY <1>2, <1>4, <1>7, <1>8, <1>9 DEF WidgetsInv

-----------------------------------------------------------------------------
\* A call that used or freed what was gone: only the types are left to say.
LEMMA BrokenKeeps == ASSUME WidgetsTypeOK', broken' PROVE WidgetsInv'
BY DEF WidgetsInv

LEMMA WidgetsKeep == ASSUME WidgetsInv, [WidgetsNext]_widgetVars PROVE WidgetsInv'
<1>0. WidgetsTypeOK /\ None \notin Widgets /\ None \notin Blocks /\ "label" \notin Blocks /\ None \notin AllKinds
  BY ObjectsAssumption, KindsAssumption DEF WidgetsInv
<1>a. ASSUME NEW w \in Widgets, Unused(w), ~broken
      PROVE  /\ ~Live(w) /\ data = [data EXCEPT ![w] = None]
             /\ frees = [frees EXCEPT ![w] = {None} \cap Blocks] /\ heap = heap \cup ({None} \cap Blocks)
  <2>1. ~Live(w) /\ data[w] = None /\ frees[w] = {}
    BY <1>a, InvMeans DEF Unused, Objects, Bare
  <2> QED BY <1>0, <2>1 DEF WidgetsTypeOK
\* A new object without a block.
<1>1. ASSUME NEW w \in Widgets, Unused(w), ~broken, NEW p \in Widgets \cup {None}, p # None => Live(p),
             NEW k \in AllKinds, NEW owned \in BOOLEAN, Makes(w, p, k, owned),
             UNCHANGED <<data, frees, image, records, heap, ruined, strays, broken>>
      PROVE  WidgetsInv'
  BY <1>1, <1>a, <1>0, MakesKeeps
<1>2. ASSUME NEW w \in Widgets, CreateScreen(w) PROVE WidgetsInv'
  <2>1. "screen" \in AllKinds
    BY DEF AllKinds
  <2> QED BY <1>1, <1>2, <2>1 DEF CreateScreen
<1>3. ASSUME NEW w \in Widgets, NEW p \in Widgets, NEW k \in Kinds, Create(w, p, k) \/ CreateHalf(w, p, k)
      PROVE  WidgetsInv'
  <2>1. k \in AllKinds
    BY <1>3 DEF Create, CreateHalf, AllKinds
  <2> QED BY <1>0, <1>1, <1>3, <2>1 DEF Create, CreateHalf
<1>4. ASSUME NEW w \in Widgets, NEW p \in Widgets, NEW b \in Blocks, CreateChart(w, p, b) \/ CreateGauge(w, p, b)
      PROVE  WidgetsInv'
  <2>1. \E k \in Composed : k \in AllKinds /\ Makes(w, p, k, TRUE)
    BY <1>4 DEF CreateChart, CreateGauge, Composed, AllKinds
  <2>2. /\ ~broken /\ ~Live(w) /\ Live(p) /\ b \notin heap /\ {b} \cap Blocks = {b}
        /\ data' = [data EXCEPT ![w] = b] /\ frees' = [frees EXCEPT ![w] = {b} \cap Blocks]
        /\ heap' = heap \cup ({b} \cap Blocks) /\ UNCHANGED <<image, records, ruined, strays, broken>>
    <3>1. {b} \cap Blocks = {b}
      OBVIOUS
    <3> QED BY <1>4, <3>1 DEF CreateChart, CreateGauge, Unused
  <2> QED BY <2>1, <2>2, MakesKeeps
<1>5. ASSUME NEW w \in Widgets, NEW p \in Widgets, AddItem(w, p) PROVE WidgetsInv'
  <2>1. "item" \in AllKinds
    BY DEF AllKinds
  <2> QED BY <1>1, <1>5, <2>1 DEF AddItem
<1>6. ASSUME NEW w \in Widgets, NEW p \in Widgets, NEW holds \in {"label", None}, AddMenuItem(w, p, holds)
      PROVE  WidgetsInv'
  <2>1. "menuitem" \in AllKinds /\ Live(p)
    BY <1>6 DEF AllKinds, AddMenuItem
  <2>2. {holds} \cap Blocks = {} /\ {None} \cap Blocks = {}
    BY <1>0
  <2>3. ~broken /\ Unused(w) /\ Makes(w, p, "menuitem", FALSE) /\ UNCHANGED <<image, records, ruined, strays, broken>>
    BY <1>6 DEF AddMenuItem
  <2>4. /\ data' = [data EXCEPT ![w] = holds] /\ frees' = [frees EXCEPT ![w] = {holds} \cap Blocks]
        /\ heap' = heap \cup ({holds} \cap Blocks)
    BY <1>6, <1>a, <2>2, <2>3 DEF AddMenuItem
  <2> QED BY <1>0, <1>a, <2>1, <2>3, <2>4, MakesKeeps
<1>7. ASSUME NEW w \in Widgets, Forward(w) PROVE WidgetsInv'
  <2>1. WidgetsTypeOK' /\ broken'
    BY <1>0, <1>7 DEF WidgetsTypeOK, Forward
  <2> QED BY <2>1, BrokenKeeps
<1>8. ASSUME NEW w \in Widgets, ButtonLabel(w) PROVE WidgetsInv'
  <2> DEFINE d == IF data[w] = None THEN "label" ELSE data[w]
  <2>1. ~broken /\ Live(w) /\ kind[w] \in {"button", "menuitem"}
    BY <1>8 DEF ButtonLabel
  <2>2. data[w] \in {"label", None} /\ data[w] \notin Blocks /\ w \notin ruined /\ frees[w] = {}
    BY <1>0, <2>1, InvMeans DEF Objects, Hangs, Holders, WidgetsTypeOK
  <2>3. d \in Blocks \cup {"label", None} /\ d \notin Blocks
    BY <1>0, <2>2
  <2>4. heap' = (heap \ {data[w]}) \cup ({d} \cap Blocks)
    BY <1>0, <1>8, <2>2, <2>3 DEF ButtonLabel, WidgetsTypeOK
  <2>5. data' = [data EXCEPT ![w] = d]
    BY <1>8 DEF ButtonLabel
  <2>6. frees' = [frees EXCEPT ![w] = IF kind[w] \in Holders THEN {d} \cap Blocks ELSE {}]
    BY <1>0, <1>8, <2>1, <2>2 DEF ButtonLabel, Holders, WidgetsTypeOK
  <2>7. UNCHANGED <<kind, parent, image, records, owner, ruined, strays, broken>>
    BY <1>8 DEF ButtonLabel
  <2> HIDE DEF d
  <2> QED BY <2>1, <2>2, <2>3, <2>4, <2>5, <2>6, <2>7, DataKeeps
<1>9. ASSUME NEW w \in Widgets, NEW b \in Blocks, GridDefine(w, b) PROVE WidgetsInv'
  <2>1. ~broken /\ Live(w) /\ kind[w] = "grid" /\ b \notin heap
    BY <1>9 DEF GridDefine
  <2>2. CASE w \in ruined
    <3>1. WidgetsTypeOK' /\ broken'
      BY <1>0, <1>9, <2>2 DEF WidgetsTypeOK, GridDefine
    <3> QED BY <3>1, BrokenKeeps
  <2>3. CASE w \notin ruined
    <3>1. frees[w] = {data[w]} \cap Blocks /\ {b} \cap Blocks = {b}
      BY <2>1, <2>3, InvMeans DEF Objects, Hangs, Holders
    <3>2. frees' = [frees EXCEPT ![w] = IF kind[w] \in Holders THEN {b} \cap Blocks ELSE {}]
      <4>1. (frees[w] \ {data[w]}) \cup {b} = {b}
        BY <3>1
      <4> QED BY <1>9, <2>1, <3>1, <4>1 DEF GridDefine, Holders
    <3>3. /\ heap' = (heap \ {data[w]}) \cup ({b} \cap Blocks) /\ data' = [data EXCEPT ![w] = b]
          /\ UNCHANGED <<kind, parent, image, records, owner, strays>>
      BY <1>9, <3>1 DEF GridDefine
    <3>4. ruined' = ruined
      BY <1>9, <2>1, <2>3 DEF GridDefine
    <3>5. kind[w] \in Holders
      BY <2>1 DEF Holders
    <3> QED BY <2>1, <2>3, <3>2, <3>3, <3>4, <3>5, DataKeeps
  <2> QED BY <2>2, <2>3
<1>10. ASSUME NEW w \in Widgets, NEW b \in Blocks, ImageSetSource(w, b) PROVE WidgetsInv'
  <2>1. ~broken /\ Live(w) /\ kind[w] = "image" /\ kind[w] \notin Holders /\ b \notin heap /\ {b} \cap Blocks = {b}
    BY <1>10 DEF ImageSetSource, Holders
  <2>2. w \notin ruined /\ frees[w] = {}
    BY <2>1, InvMeans DEF Objects, Hangs
  <2>3. frees' = [frees EXCEPT ![w] = IF kind[w] \in Holders THEN {b} \cap Blocks ELSE {}]
    BY <1>0, <1>10, <2>1, <2>2 DEF ImageSetSource, WidgetsTypeOK
  <2>4. /\ heap' = (heap \ {data[w]}) \cup ({b} \cap Blocks) /\ data' = [data EXCEPT ![w] = b]
        /\ UNCHANGED <<kind, parent, image, records, owner, ruined, strays, broken>>
    BY <1>10, <2>1 DEF ImageSetSource
  <2> QED BY <2>1, <2>2, <2>3, <2>4, DataKeeps
<1>13. ASSUME NEW w \in Widgets, Clear(w) \/ Hide(w) PROVE WidgetsInv'
  <2>1. ~broken /\ Live(w) /\ UNCHANGED <<owner, broken>>
    BY <1>13 DEF Clear, Hide
  <2>2. owner' \in [Widgets -> BOOLEAN]
    BY <1>0, <2>1 DEF WidgetsTypeOK
  <2>3. CASE Hide(w)
    <3>1. /\ Tree(w) \in SUBSET Widgets
          /\ \A v \in Widgets : Live(v) /\ parent[v] \in Tree(w) => v \in Tree(w)
      BY TreeIsClosed DEF Closed
    <3> QED BY <2>1, <2>2, <2>3, <3>1, DeletesKeeps DEF Hide
  <2>4. CASE Clear(w)
    <3> DEFINE S == Tree(w) \ {w}
    <3>1. parent[w] \notin S
      <4>1. parent[w] # None => parent[w] \notin Tree(w)
        BY <2>1, InvMeans DEF Rooted
      <4>2. Tree(w) \subseteq Widgets
        BY DEF Tree
      <4> QED BY <1>0, <4>1, <4>2
    <3>2. S \in SUBSET Widgets /\ \A v \in Widgets : Live(v) /\ parent[v] \in S => v \in S
      BY <3>1, TreeIsClosed DEF Closed
    <3>3. Deletes(S)
      BY <2>4 DEF Clear
    <3> HIDE DEF S
    <3> QED BY <2>1, <2>2, <3>2, <3>3, DeletesKeeps
  <2> QED BY <1>13, <2>3, <2>4
<1>14. ASSUME NEW w \in Widgets, Destroy(w) PROVE WidgetsInv'
  <2>1. ~broken /\ owner' \in [Widgets -> BOOLEAN]
    BY <1>0, <1>14 DEF Destroy, WidgetsTypeOK
  <2>2. CASE Live(w)
    <3>1. /\ Tree(w) \in SUBSET Widgets
          /\ \A v \in Widgets : Live(v) /\ parent[v] \in Tree(w) => v \in Tree(w)
      BY TreeIsClosed DEF Closed
    <3> QED BY <1>14, <2>1, <2>2, <3>1, DeletesKeeps DEF Destroy
  <2>3. CASE ~Live(w)
    <3>1. WidgetsTypeOK' /\ broken'
      BY <1>0, <1>14, <2>1, <2>3 DEF WidgetsTypeOK, Destroy
    <3> QED BY <3>1, BrokenKeeps
  <2> QED BY <2>2, <2>3
<1>11. ASSUME NEW w \in Widgets, NEW b \in Blocks, SetBgImage(w, b) PROVE WidgetsInv'
  <2> DEFINE i == IF image[w] = None THEN b ELSE image[w]
  <2>1. ~broken /\ Live(w) /\ b \notin heap
    BY <1>11 DEF SetBgImage
  <2>2. image' = [image EXCEPT ![w] = i] /\ heap' = heap \cup {i} /\ i \in Blocks
    BY <1>0, <1>11 DEF SetBgImage, WidgetsTypeOK
  <2>3. /\ OwnedOnce /\ Objects /\ Found /\ Rooted
    BY <2>1, InvMeans
  <2>4. UNCHANGED <<kind, parent, data, frees, records, owner, ruined, strays, broken>>
    BY <1>11 DEF SetBgImage
  <2>5. WidgetsTypeOK'
    BY <1>0, <2>2, <2>4 DEF WidgetsTypeOK
  <2>6. CASE image[w] # None
    <3>1. image' = image
      BY <1>0, <2>2, <2>6 DEF WidgetsTypeOK
    <3>2. i \in heap
      BY <2>1, <2>2, <2>3, <2>6 DEF OwnedOnce, Owns, Carries
    <3>3. heap' = heap
      BY <2>2, <3>2
    <3>4. \A v \in Widgets : (Live(v)' <=> Live(v)) /\ Tree(v)' = Tree(v)
      BY <2>4 DEF Live, Tree, Closed
    <3>5. Objects' /\ Rooted'
      <4>1. UNCHANGED <<kind, parent, data, frees, image, records, ruined>>
        BY <2>4, <3>1
      <4>2. Objects'
        BY <2>3, <3>4, <4>1 DEF Objects, Hangs, Bare
      <4>3. Rooted'
        BY <2>3, <3>4, <4>1 DEF Rooted, Live
      <4> QED BY <4>2, <4>3
    <3>6. OwnedOnce' /\ Found'
      BY <2>3, <2>4, <3>1, <3>3, <3>4 DEF OwnedOnce, Owns, Carries, OwnsData, Found
    <3> QED BY <2>5, <3>5, <3>6 DEF WidgetsInv
  <2>7. CASE image[w] = None
    <3>1. image' = [image EXCEPT ![w] = b] /\ heap' = heap \cup {b}
      BY <2>2, <2>7
    <3> QED BY <2>1, <2>4, <2>7, <3>1, CarryKeeps
  <2> QED BY <2>6, <2>7
<1>17. ASSUME NEW w \in Widgets, NEW b \in Blocks, Subscribe(w, b) PROVE WidgetsInv'
  BY <1>17, CarryKeeps DEF Subscribe
<1>12. ASSUME NEW w \in Widgets, NEW lost \in SUBSET Blocks, GridDefineFails(w, lost) PROVE WidgetsInv'
  <2>1. ~broken /\ Live(w) /\ kind[w] = "grid" /\ lost \cap heap = {} /\ UNCHANGED <<kind, parent, data, image, records, owner>>
    BY <1>12 DEF GridDefineFails
  <2>2. WidgetsTypeOK'
    BY <1>0, <1>12 DEF WidgetsTypeOK, GridDefineFails
  <2>3. CASE w \in ruined
    <3>1. broken'
      BY <1>12, <2>3 DEF GridDefineFails
    <3> QED BY <2>2, <3>1, BrokenKeeps
  <2>4. CASE w \notin ruined
    <3>0. OwnedOnce /\ Objects /\ Found /\ Rooted
      BY <2>1, InvMeans
    <3>1. frees[w] = {data[w]} \cap Blocks
      BY <2>1, <2>4, <3>0 DEF Objects, Hangs, Holders
    <3>2. /\ frees'[w] = {} /\ \A v \in Widgets \ {w} : frees'[v] = frees[v]
          /\ \A v \in Widgets : Live(v)' <=> Live(v)
      BY <1>0, <1>12, <2>1, <3>1 DEF GridDefineFails, WidgetsTypeOK, Live
    <3>3. /\ heap' = (heap \ {data[w]}) \cup lost /\ strays' = strays \cup lost
          /\ ruined' = IF data[w] = None THEN ruined ELSE ruined \cup {w}
      BY <1>12 DEF GridDefineFails
    <3>4. Objects'
      <4> SUFFICES ASSUME NEW v \in Widgets PROVE (IF Live(v) THEN Hangs(v) ELSE Bare(v))'
        BY DEF Objects
      <4>1. CASE v = w
        <5>1. Hangs(w)'
          BY <1>0, <2>1, <2>4, <3>2, <3>3 DEF Hangs, Holders
        <5> QED BY <2>1, <3>2, <4>1, <5>1
      <4>2. CASE v # w
        <5>1. v \in ruined' <=> v \in ruined
          BY <3>3, <4>2
        <5> QED BY <2>1, <3>0, <3>2, <4>2, <5>1 DEF Objects, Hangs, Bare
      <4> QED BY <4>1, <4>2
    <3>5. /\ \A b \in Blocks : ~OwnsData(w, b)'
          /\ \A b : \A v \in Widgets \ {w} : OwnsData(v, b)' <=> OwnsData(v, b)
          /\ \A b : \A v \in Widgets : Carries(v, b)' <=> Carries(v, b)
          /\ OwnsData(w, data[w])
      BY <1>0, <2>1, <2>4, <3>2, <3>3 DEF OwnsData, Carries
    <3>6. ASSUME NEW b \in Blocks, b = data[w] PROVE \A v \in Widgets : ~Owns(v, b)'
      <4>1. ~Carries(w, b) /\ \A v \in Widgets : Owns(v, b) => v = w
        BY <3>0, <3>5, <3>6 DEF OwnedOnce, Owns
      <4> QED BY <3>5, <4>1 DEF Owns
    <3>7. \A b \in Blocks : \A v \in Widgets : /\ Owns(v, b)' => Owns(v, b) /\ b # data[w]
                                               /\ OwnsData(v, b)' => OwnsData(v, b)
      BY <3>5, <3>6 DEF Owns
    <3>8. OwnedOnce'
      BY <3>0, <3>3, <3>5, <3>7 DEF OwnedOnce
    <3>9. Found'
      <4> SUFFICES ASSUME NEW b \in heap' \ strays' PROVE \E v \in Widgets : Owns(v, b)'
        BY DEF Found
      <4>1. b \in heap \ strays /\ b # data[w] /\ b \in Blocks
        BY <1>0, <3>3 DEF WidgetsTypeOK
      <4>2. PICK v \in Widgets : Owns(v, b)
        BY <3>0, <4>1 DEF Found
      <4>3. Owns(v, b)'
        BY <3>5, <4>1, <4>2 DEF Owns, OwnsData
      <4> QED BY <4>3
    <3>10. Rooted'
      <4>1. \A v \in Widgets : Tree(v)' \subseteq Tree(v)
        BY <2>1, <3>2, TreeShrinks
      <4> QED BY <1>0, <2>1, <3>0, <3>2, <4>1 DEF Rooted, Live
    <3> QED BY <2>2, <3>4, <3>8, <3>9, <3>10 DEF WidgetsInv
  <2> QED BY <2>3, <2>4
<1>15. CASE UNCHANGED widgetVars
  <2>1. \A v \in Widgets : (Live(v)' <=> Live(v)) /\ Tree(v)' = Tree(v)
    BY <1>15 DEF widgetVars, Live, Tree, Closed
  <2>2. WidgetsTypeOK'
    BY <1>0, <1>15 DEF widgetVars, WidgetsTypeOK
  <2>3. ASSUME ~broken PROVE (Objects /\ OwnedOnce /\ Found /\ Rooted)'
    <3>1. UNCHANGED <<kind, parent, data, frees, image, records, heap, ruined, strays>>
      BY <1>15 DEF widgetVars
    <3>2. Objects' /\ Rooted'
      BY <2>1, <2>3, <3>1, InvMeans DEF Objects, Hangs, Bare, Rooted, Live
    <3>3. OwnedOnce' /\ Found'
      BY <2>1, <2>3, <3>1, InvMeans DEF OwnedOnce, Owns, Carries, OwnsData, Found
    <3> QED BY <3>2, <3>3
  <2>4. broken' = broken
    BY <1>15 DEF widgetVars
  <2>5. ~broken' => ~broken
    BY <2>4
  <2> QED BY <2>2, <2>3, <2>5 DEF WidgetsInv
<1>16. ASSUME NEW lost \in {{}} \cup {{b} : b \in Blocks} PROVE lost \in SUBSET Blocks
  BY <1>16
<1> QED BY <1>2, <1>3, <1>4, <1>5, <1>6, <1>7, <1>8, <1>9, <1>10, <1>11, <1>12, <1>13, <1>14, <1>15, <1>16, <1>17
        DEF WidgetsNext

LEMMA WidgetsBegin == WidgetsInit => WidgetsInv
<1> SUFFICES ASSUME WidgetsInit PROVE WidgetsInv
  OBVIOUS
<1>1. \A w \in Widgets : ~Live(w) /\ Bare(w)
  <2> SUFFICES ASSUME NEW w \in Widgets PROVE ~Live(w) /\ Bare(w)
    OBVIOUS
  <2>1. kind[w] = None /\ parent[w] = None /\ data[w] = None /\ frees[w] = {}
    BY DEF WidgetsInit
  <2>2. image[w] = None /\ records[w] = {} /\ ruined = {}
    BY DEF WidgetsInit
  <2> QED BY <2>1, <2>2 DEF Live, Bare
<1>2. WidgetsTypeOK /\ heap = {}
  BY DEF WidgetsInit, WidgetsTypeOK
<1> QED BY <1>1, <1>2 DEF WidgetsInv, Objects, OwnedOnce, Owns, Carries, OwnsData, Found, Rooted

LEMMA MemoryHolds == WidgetsInv => MemoryIsOwned
<1> SUFFICES ASSUME WidgetsInv, ~broken PROVE MemoryIsOwned
  BY DEF MemoryIsOwned, AttachedLives, NothingLeaks
<1>0. /\ WidgetsTypeOK /\ Objects /\ OwnedOnce /\ Found /\ Rooted
      /\ None \notin Widgets /\ None \notin Blocks /\ "label" \notin Blocks
  BY InvMeans, ObjectsAssumption
<1>1. AttachedLives
  <2> SUFFICES ASSUME NEW w \in Widgets, Live(w)
               PROVE  /\ parent[w] # None => Live(parent[w])
                      /\ data[w] \in Blocks /\ w \notin ruined => data[w] \in heap
                      /\ frees[w] \subseteq heap
                      /\ image[w] # None => image[w] \in heap
                      /\ records[w] \subseteq heap
    BY DEF AttachedLives
  <2>1. parent[w] # None => Live(parent[w])
    BY <1>0 DEF Rooted
  <2>2. data[w] \in Blocks /\ w \notin ruined => data[w] \in heap
    BY <1>0 DEF OwnedOnce, Owns, OwnsData
  <2>3. image[w] # None => image[w] \in heap
    <3>1. image[w] # None => image[w] \in Blocks
      BY <1>0 DEF WidgetsTypeOK
    <3> QED BY <1>0, <3>1 DEF OwnedOnce, Owns, Carries
  <2>5. records[w] \subseteq heap
    BY <1>0 DEF OwnedOnce, Owns, Carries, WidgetsTypeOK
  <2>4. frees[w] \subseteq heap
    BY <1>0, <2>2 DEF Objects, Hangs
  <2> QED BY <2>1, <2>2, <2>3, <2>4, <2>5
<1>2. NothingLeaks
  <2> SUFFICES ASSUME NEW b \in heap \ strays
               PROVE  \E w \in Widgets :
                        /\ Live(w) /\ b \in {data[w], image[w]} \cup records[w]
                        /\ \A v \in Widgets \ (ruined \cup {w}) :
                             b \notin {data[v], image[v]} \cup records[v]
    BY DEF NothingLeaks
  <2>1. b \in Blocks
    BY <1>0 DEF WidgetsTypeOK
  <2>2. PICK w \in Widgets : Owns(w, b)
    BY <1>0 DEF Found
  <2>3. ASSUME NEW v \in Widgets \ (ruined \cup {w}), b \in {data[v], image[v]} \cup records[v] PROVE FALSE
    <3>1. Live(v)
      BY <1>0, <2>1, <2>3 DEF Objects, Bare
    <3>2. Owns(v, b)
      BY <2>3, <3>1 DEF Owns, OwnsData, Carries
    <3> QED BY <1>0, <2>1, <2>2, <2>3, <3>2 DEF OwnedOnce
  <2> QED BY <2>2, <2>3 DEF Owns, OwnsData, Carries
<1> QED BY <1>1, <1>2 DEF MemoryIsOwned

\* What hangs on an object of the tree is allocated as long as it does, and every
\* block is one object's or lost in one of the three ways that NothingLeaks names,
\* an image's last descriptor, definitions that ran out of memory and the records
\* of an object's subscriptions (UICApi.cpp), for any widgets and calls.
THEOREM MemoryOwned == WidgetsSpec => []MemoryIsOwned
<1>1. WidgetsInit => WidgetsInv
  BY WidgetsBegin
<1>2. WidgetsInv /\ [WidgetsNext]_widgetVars => WidgetsInv'
  BY WidgetsKeep
<1>3. WidgetsInv => MemoryIsOwned
  BY MemoryHolds
<1> QED BY <1>1, <1>2, <1>3, PTL DEF WidgetsSpec

-----------------------------------------------------------------------------
(* Drivers: a driver is there while somebody uses it.                      *)

-----------------------------------------------------------------------------
(* A thread that is in the midst of Initialize is counted already.         *)
BusyIsCounted == \A t \in Threads : at[t].step # "idle" => t \in users[at[t].controller]

(* Which variables a shape has no use for.                                 *)
UartHasNoModules == peripheral = "uart" => moduleLoaded = FALSE /\ kernel = {}
OnlyCanHasLinks ==
  peripheral # "can" => up = {} /\ \A t \in Threads : at[t].step \in {"idle", "waiting"}

(* ModuleLoaded() is about the counts, and the kernel has what it says.    *)
LoadedIsCounted ==
  peripheral # "uart" =>
    /\ moduleLoaded = FALSE => Nobody(users)
    /\ moduleLoaded = TRUE => ~Nobody(users) /\ Modules \subseteq kernel

(* As long as no command failed, nothing is left of an earlier use.        *)
NothingLeft ==
  failed = FALSE =>
    /\ moduleLoaded = FALSE => kernel = {}
    /\ \A c \in up : users[c] # {}

BoundWhileUsed == peripheral = "uart" => \A c \in Controllers : users[c] # {} => c \in bound

LinkedOnceSetUp ==
  peripheral = "can" /\ failed = FALSE =>
    \A c \in Controllers :
      users[c] # {} /\ (\A t \in users[c] : at[t].step = "idle" \/ at[t].controller # c)
        => c \in up

DriversInv ==
  /\ DriversTypeOK /\ BusyIsCounted /\ UartHasNoModules /\ OnlyCanHasLinks
  /\ LoadedIsCounted /\ NothingLeft /\ BoundWhileUsed /\ LinkedOnceSetUp

-----------------------------------------------------------------------------
\* Moving one thread on keeps the type of where the threads are.
LEMMA GoesType ==
  ASSUME DriversTypeOK, NEW t \in Threads, NEW c \in Controllers,
         NEW step \in {"idle"} \cup Steps
  PROVE  [at EXCEPT ![t] = [step |-> step, controller |-> c]]
           \in [Threads -> [step : {"idle"} \cup Steps, controller : Controllers]]
BY DEF DriversTypeOK

\* Idle is a place, if there is a controller for it.
LEMMA IdleType == ASSUME NEW c \in Controllers
                  PROVE  Idle.step = "idle" /\ Idle.controller \in Controllers
BY DEF Idle

\* A thread that returns is idle, and everybody else is where they were.
LEMMA ReturnsType ==
  ASSUME DriversTypeOK, NEW t \in Threads, Returns(t)
  PROVE  /\ at' \in [Threads -> [step : {"idle"} \cup Steps, controller : Controllers]]
         /\ at'[t].step = "idle"
         /\ \A u \in Threads \ {t} : at'[u] = at[u]
<1>1. at[t].controller \in Controllers
  BY DEF DriversTypeOK
<1>2. Idle \in [step : {"idle"} \cup Steps, controller : Controllers] /\ Idle.step = "idle"
  BY <1>1, IdleType DEF Idle
<1> QED BY <1>2 DEF Returns, DriversTypeOK

\* A thread that goes on is at its new step, and everybody else where they were.
LEMMA GoesOn ==
  ASSUME DriversTypeOK, NEW t \in Threads, NEW c \in Controllers, NEW step \in Steps,
         Goes(t, step, c)
  PROVE  /\ at' \in [Threads -> [step : {"idle"} \cup Steps, controller : Controllers]]
         /\ at'[t].step = step /\ at'[t].controller = c
         /\ \A u \in Threads \ {t} : at'[u] = at[u]
BY GoesType DEF Goes, DriversTypeOK

\* Before the first Initialize nothing is counted.
LEMMA DriversInvInit == DriversInit => DriversInv
<1> SUFFICES ASSUME DriversInit PROVE DriversInv
  OBVIOUS
<1>0. /\ users = [c \in Controllers |-> {}] /\ moduleLoaded = FALSE /\ kernel = {}
      /\ up = {} /\ at = [t \in Threads |-> Idle] /\ failed = FALSE
      /\ bound \subseteq Controllers /\ shown = bound /\ peripheral \in Shapes
  BY DEF DriversInit
<1>1. \A t \in Threads : at[t].step = "idle"
  BY <1>0 DEF Idle
<1>2. DriversTypeOK
  <2>1. Idle \in [step : {"idle"} \cup Steps, controller : Controllers]
    BY ControllersAssumption DEF Idle
  <2>2. /\ at \in [Threads -> [step : {"idle"} \cup Steps, controller : Controllers]]
        /\ users \in [Controllers -> SUBSET Threads]
    BY <1>0, <2>1
  <2>3. moduleLoaded \in BOOLEAN /\ failed \in BOOLEAN
    BY <1>0, Zenon
  <2> QED BY <1>0, <2>2, <2>3 DEF DriversTypeOK
<1>3. \A c \in Controllers : users[c] = {}
  BY <1>0
<1>4. BusyIsCounted /\ UartHasNoModules /\ OnlyCanHasLinks
  BY <1>0, <1>1 DEF BusyIsCounted, UartHasNoModules, OnlyCanHasLinks
<1>5. LoadedIsCounted /\ NothingLeft /\ BoundWhileUsed /\ LinkedOnceSetUp
  BY <1>0, <1>3 DEF LoadedIsCounted, Nobody, NothingLeft, BoundWhileUsed, LinkedOnceSetUp
<1> QED BY <1>2, <1>4, <1>5 DEF DriversInv

-----------------------------------------------------------------------------
\* A step that leaves counts, drivers and links alone, and no thread in the
\* midst of an Initialize but those that were, keeps the invariant; a command
\* may have failed.
LEMMA InvKeptWhenAside ==
  ASSUME DriversInv,
         UNCHANGED <<peripheral, users, moduleLoaded, kernel, bound, up>>,
         shown' \subseteq Controllers,
         at' \in [Threads -> [step : {"idle"} \cup Steps, controller : Controllers]],
         \A t \in Threads : at'[t] = at[t] \/ (at'[t].step = "idle" /\ failed' = TRUE)
                            \/ (at'[t].step = "idle" /\ peripheral # "can"),
         failed' = failed \/ failed' = TRUE
  PROVE  DriversInv'
<1> USE DEF DriversInv
<1>1. failed' \in BOOLEAN
  BY Zenon DEF DriversTypeOK
<1>2. DriversTypeOK'
  BY <1>1 DEF DriversTypeOK
<1>3. BusyIsCounted'
  BY DEF BusyIsCounted
<1>4. UartHasNoModules' /\ OnlyCanHasLinks'
  BY DEF UartHasNoModules, OnlyCanHasLinks
<1>5. LoadedIsCounted' /\ NothingLeft' /\ BoundWhileUsed'
  BY DEF LoadedIsCounted, NothingLeft, BoundWhileUsed, Nobody
<1>6. LinkedOnceSetUp'
  <2> SUFFICES ASSUME peripheral = "can", failed' = FALSE, NEW c \in Controllers,
                      users[c] # {},
                      \A t \in users[c] : at'[t].step = "idle" \/ at'[t].controller # c
               PROVE  c \in up
    BY DEF LinkedOnceSetUp
  <2>1. failed = FALSE /\ \A t \in Threads : at'[t] = at[t]
    OBVIOUS
  <2>2. users[c] \subseteq Threads
    BY DEF DriversTypeOK
  <2> QED BY <2>1, <2>2 DEF LinkedOnceSetUp
<1> QED BY <1>2, <1>3, <1>4, <1>5, <1>6

\* Initialize of a bus or a CAN interface: the modules are there once anybody
\* is counted.
LEMMA InitializeModuleKeeps ==
  ASSUME DriversInv, NEW t \in Threads, NEW c \in Controllers, InitializeModule(t, c)
  PROVE  DriversInv'
<1> USE DEF DriversInv
<1>0. /\ peripheral # "uart" /\ at[t].step = "idle" /\ moduleLoaded' = TRUE
      /\ kernel' = (IF moduleLoaded THEN kernel ELSE Modules)
      /\ users' = [users EXCEPT ![c] = @ \cup {t}]
      /\ Goes(t, "waiting", c)
      /\ UNCHANGED <<peripheral, bound, shown, up, failed>>
  BY DEF InitializeModule, CanStart, Counts
<1>1. /\ at' \in [Threads -> [step : {"idle"} \cup Steps, controller : Controllers]]
      /\ at'[t].step = "waiting" /\ at'[t].controller = c
      /\ \A u \in Threads \ {t} : at'[u] = at[u]
  BY <1>0, GoesOn DEF Steps
<1>2. /\ users' \in [Controllers -> SUBSET Threads]
      /\ users'[c] = users[c] \cup {t} /\ \A d \in Controllers \ {c} : users'[d] = users[d]
  BY <1>0 DEF DriversTypeOK
<1>3. Modules \subseteq kernel' /\ kernel' \subseteq Modules
  <2>1. CASE moduleLoaded = TRUE
    BY <1>0, <2>1 DEF LoadedIsCounted, DriversTypeOK
  <2>2. CASE moduleLoaded = FALSE
    BY <1>0, <2>2
  <2> QED BY <2>1, <2>2 DEF DriversTypeOK
<1>4. DriversTypeOK'
  <2>1. moduleLoaded' \in BOOLEAN /\ failed' \in BOOLEAN
    BY <1>0, Zenon DEF DriversTypeOK
  <2> QED BY <1>0, <1>1, <1>2, <1>3, <2>1 DEF DriversTypeOK
<1>5. BusyIsCounted'
  BY <1>1, <1>2 DEF BusyIsCounted, DriversTypeOK
<1>6. UartHasNoModules' /\ OnlyCanHasLinks' /\ BoundWhileUsed'
  BY <1>0, <1>1 DEF UartHasNoModules, OnlyCanHasLinks, BoundWhileUsed
<1>7. LoadedIsCounted' /\ NothingLeft'
  BY <1>0, <1>2, <1>3 DEF LoadedIsCounted, NothingLeft, Nobody, DriversTypeOK
<1>8. LinkedOnceSetUp'
  <2> SUFFICES ASSUME peripheral = "can", failed = FALSE, NEW d \in Controllers,
                      users'[d] # {},
                      \A u \in users'[d] : at'[u].step = "idle" \/ at'[u].controller # d
               PROVE  d \in up
    BY <1>0 DEF LinkedOnceSetUp
  <2>1. d # c
    BY <1>1, <1>2
  <2>2. \A u \in users[d] : at[u].step = "idle" \/ at[u].controller # d
    BY <1>0, <1>1, <1>2, <2>1 DEF DriversTypeOK
  <2> QED BY <1>2, <2>1, <2>2 DEF LinkedOnceSetUp
<1> QED BY <1>4, <1>5, <1>6, <1>7, <1>8

\* A modprobe that fails leaves what was loaded before it, and nobody counted.
LEMMA ModprobeFailsKeeps ==
  ASSUME DriversInv, NEW t \in Threads, NEW c \in Controllers,
         NEW modules \in SUBSET Modules, ModprobeFails(t, c, modules)
  PROVE  DriversInv'
<1> USE DEF DriversInv
<1>0. /\ peripheral # "uart" /\ moduleLoaded = FALSE /\ kernel' = kernel \cup modules
      /\ failed' = TRUE /\ UNCHANGED <<peripheral, users, moduleLoaded, bound, shown, up, at>>
  <2>1. moduleLoaded = FALSE
    BY Zenon DEF ModprobeFails, DriversTypeOK
  <2> QED BY <2>1 DEF ModprobeFails
<1>1. DriversTypeOK'
  BY <1>0 DEF DriversTypeOK
<1>2. BusyIsCounted' /\ UartHasNoModules' /\ OnlyCanHasLinks'
  BY <1>0 DEF BusyIsCounted, UartHasNoModules, OnlyCanHasLinks
<1>3. LoadedIsCounted' /\ NothingLeft' /\ BoundWhileUsed' /\ LinkedOnceSetUp'
  BY <1>0 DEF LoadedIsCounted, NothingLeft, Nobody, BoundWhileUsed, LinkedOnceSetUp
<1> QED BY <1>1, <1>2, <1>3

\* Initialize of a UART binds its device for the first user.
LEMMA BindKeeps ==
  ASSUME DriversInv, NEW t \in Threads, NEW c \in Controllers, Bind(t, c)
  PROVE  DriversInv'
<1> USE DEF DriversInv
<1>0. /\ peripheral = "uart"
      /\ bound' = (IF users[c] = {} THEN bound \cup {c} ELSE bound)
      /\ users' = [users EXCEPT ![c] = @ \cup {t}]
      /\ Goes(t, "waiting", c)
      /\ UNCHANGED <<peripheral, moduleLoaded, kernel, shown, up, failed>>
  BY DEF Bind, Counts
<1>1. /\ at' \in [Threads -> [step : {"idle"} \cup Steps, controller : Controllers]]
      /\ at'[t].step = "waiting" /\ at'[t].controller = c
      /\ \A u \in Threads \ {t} : at'[u] = at[u]
  BY <1>0, GoesOn DEF Steps
<1>2. /\ users' \in [Controllers -> SUBSET Threads]
      /\ users'[c] = users[c] \cup {t} /\ \A d \in Controllers \ {c} : users'[d] = users[d]
  BY <1>0 DEF DriversTypeOK
<1>3. DriversTypeOK'
  BY <1>0, <1>1, <1>2 DEF DriversTypeOK
<1>4. BusyIsCounted'
  BY <1>1, <1>2 DEF BusyIsCounted, DriversTypeOK
<1>5. UartHasNoModules' /\ OnlyCanHasLinks'
  BY <1>0, <1>1 DEF UartHasNoModules, OnlyCanHasLinks
<1>6. LoadedIsCounted' /\ NothingLeft' /\ LinkedOnceSetUp'
  BY <1>0 DEF LoadedIsCounted, NothingLeft, LinkedOnceSetUp, UartHasNoModules, OnlyCanHasLinks
<1>7. BoundWhileUsed'
  BY <1>0, <1>2 DEF BoundWhileUsed
<1> QED BY <1>3, <1>4, <1>5, <1>6, <1>7

\* Once the device is there, Initialize returns or goes on with the link.
LEMMA DeviceFoundKeeps ==
  ASSUME DriversInv, NEW t \in Threads, DeviceFound(t)
  PROVE  DriversInv'
<1> USE DEF DriversInv
<1>c. at[t].controller \in Controllers
  BY DEF DriversTypeOK
<1>0. /\ at[t].step = "waiting"
      /\ UNCHANGED <<peripheral, users, moduleLoaded, kernel, bound, shown, up, failed>>
  BY DEF DeviceFound
<1>1. CASE peripheral = "can"
  <2>0. Goes(t, "down", at[t].controller)
    BY <1>1 DEF DeviceFound
  <2>1. /\ at' \in [Threads -> [step : {"idle"} \cup Steps, controller : Controllers]]
        /\ at'[t].step = "down" /\ at'[t].controller = at[t].controller
        /\ \A u \in Threads \ {t} : at'[u] = at[u]
    BY <1>c, <2>0, GoesOn DEF Steps
  <2>2. DriversTypeOK'
    BY <1>0, <2>1 DEF DriversTypeOK
  <2>3. BusyIsCounted'
    BY <1>0, <2>1 DEF BusyIsCounted
  <2>4. UartHasNoModules' /\ OnlyCanHasLinks' /\ LoadedIsCounted' /\ NothingLeft' /\ BoundWhileUsed'
    BY <1>0, <1>1 DEF UartHasNoModules, OnlyCanHasLinks, LoadedIsCounted, NothingLeft,
                      BoundWhileUsed, Nobody
  <2>5. LinkedOnceSetUp'
    BY <1>0, <2>1 DEF LinkedOnceSetUp, DriversTypeOK
  <2> QED BY <2>2, <2>3, <2>4, <2>5
<1>2. CASE peripheral # "can"
  <2>1. Returns(t)
    BY <1>2 DEF DeviceFound
  <2> QED BY <1>0, <1>2, <2>1, ReturnsType, InvKeptWhenAside DEF DriversTypeOK
<1> QED BY <1>1, <1>2

\* The commands of a link, while the thread that runs them is counted.
LEMMA LinkDownKeeps ==
  ASSUME DriversInv, NEW t \in Threads, LinkDown(t)
  PROVE  DriversInv'
<1> USE DEF DriversInv
<1>c. at[t].controller \in Controllers
  BY DEF DriversTypeOK
<1>0. /\ at[t].step = "down" /\ up' = up \ {at[t].controller}
      /\ Goes(t, "type", at[t].controller)
      /\ UNCHANGED <<peripheral, users, moduleLoaded, kernel, bound, shown, failed>>
  BY DEF LinkDown
<1>1. /\ at' \in [Threads -> [step : {"idle"} \cup Steps, controller : Controllers]]
      /\ at'[t].step = "type" /\ at'[t].controller = at[t].controller
      /\ \A u \in Threads \ {t} : at'[u] = at[u]
  BY <1>c, <1>0, GoesOn DEF Steps
<1>2. DriversTypeOK'
  BY <1>0, <1>1 DEF DriversTypeOK
<1>3. BusyIsCounted' /\ peripheral = "can" /\ t \in users[at[t].controller]
  BY <1>0, <1>1 DEF BusyIsCounted, OnlyCanHasLinks
<1>4. UartHasNoModules' /\ OnlyCanHasLinks' /\ LoadedIsCounted' /\ NothingLeft' /\ BoundWhileUsed'
  BY <1>0, <1>3 DEF UartHasNoModules, OnlyCanHasLinks, LoadedIsCounted, NothingLeft,
                    BoundWhileUsed, Nobody
<1>5. LinkedOnceSetUp'
  BY <1>0, <1>1, <1>3 DEF LinkedOnceSetUp, DriversTypeOK
<1> QED BY <1>2, <1>3, <1>4, <1>5

\* The bitrate is set while the link is down.
LEMMA LinkTypeKeeps ==
  ASSUME DriversInv, NEW t \in Threads, LinkType(t)
  PROVE  DriversInv'
<1> USE DEF DriversInv
<1>c. at[t].controller \in Controllers
  BY DEF DriversTypeOK
<1>0. /\ at[t].step = "type" /\ Goes(t, "up", at[t].controller)
      /\ UNCHANGED <<peripheral, users, moduleLoaded, kernel, bound, shown, up, failed>>
  BY DEF LinkType
<1>1. /\ at' \in [Threads -> [step : {"idle"} \cup Steps, controller : Controllers]]
      /\ at'[t].step = "up" /\ at'[t].controller = at[t].controller
      /\ \A u \in Threads \ {t} : at'[u] = at[u]
  BY <1>c, <1>0, GoesOn DEF Steps
<1>2. DriversTypeOK'
  BY <1>0, <1>1 DEF DriversTypeOK
<1>3. BusyIsCounted' /\ peripheral = "can"
  BY <1>0, <1>1 DEF BusyIsCounted, OnlyCanHasLinks
<1>4. UartHasNoModules' /\ OnlyCanHasLinks' /\ LoadedIsCounted' /\ NothingLeft' /\ BoundWhileUsed'
  BY <1>0, <1>3 DEF UartHasNoModules, OnlyCanHasLinks, LoadedIsCounted, NothingLeft,
                    BoundWhileUsed, Nobody
<1>5. LinkedOnceSetUp'
  BY <1>0, <1>1 DEF LinkedOnceSetUp, DriversTypeOK
<1> QED BY <1>2, <1>3, <1>4, <1>5

\* The last command puts the link up, of a controller that is counted.
LEMMA LinkUpKeeps ==
  ASSUME DriversInv, NEW t \in Threads, LinkUp(t)
  PROVE  DriversInv'
<1> USE DEF DriversInv
<1>c. at[t].controller \in Controllers
  BY DEF DriversTypeOK
<1>0. /\ at[t].step = "up" /\ up' = up \cup {at[t].controller} /\ Returns(t)
      /\ UNCHANGED <<peripheral, users, moduleLoaded, kernel, bound, shown, failed>>
  BY DEF LinkUp
<1>1. /\ at' \in [Threads -> [step : {"idle"} \cup Steps, controller : Controllers]]
      /\ at'[t].step = "idle"
      /\ \A u \in Threads \ {t} : at'[u] = at[u]
  BY <1>0, ReturnsType
<1>2. DriversTypeOK'
  BY <1>c, <1>0, <1>1 DEF DriversTypeOK
<1>3. BusyIsCounted' /\ peripheral = "can" /\ t \in users[at[t].controller]
  BY <1>0, <1>1 DEF BusyIsCounted, OnlyCanHasLinks
<1>4. UartHasNoModules' /\ OnlyCanHasLinks' /\ LoadedIsCounted' /\ NothingLeft' /\ BoundWhileUsed'
  BY <1>0, <1>3 DEF UartHasNoModules, OnlyCanHasLinks, LoadedIsCounted, NothingLeft,
                    BoundWhileUsed, Nobody
<1>5. LinkedOnceSetUp'
  BY <1>0, <1>1 DEF LinkedOnceSetUp, DriversTypeOK
<1> QED BY <1>2, <1>3, <1>4, <1>5

-----------------------------------------------------------------------------
\* Who gives a controller back is not counted any more; all else stays counted.
LEMMA LeftCounts ==
  ASSUME DriversTypeOK, BusyIsCounted, NEW t \in Threads, NEW c \in Controllers, Uncounts(t, c)
  PROVE  /\ users' \in [Controllers -> SUBSET Threads]
         /\ users'[c] = users[c] \ {t} /\ \A d \in Controllers \ {c} : users'[d] = users[d]
         /\ t \in users[c] /\ at[t].step = "idle"
         /\ \A u \in Threads : at[u].step # "idle" => u \in users'[at[u].controller]
<1>1. users' = [users EXCEPT ![c] = @ \ {t}] /\ t \in users[c] /\ at[t].step = "idle"
  BY DEF Uncounts, Left
<1>2. /\ users' \in [Controllers -> SUBSET Threads]
      /\ users'[c] = users[c] \ {t} /\ \A d \in Controllers \ {c} : users'[d] = users[d]
  BY <1>1 DEF DriversTypeOK
<1> QED BY <1>1, <1>2 DEF BusyIsCounted, DriversTypeOK

\* UnInitialize of a bus or a CAN interface takes the modules only when nobody
\* is counted, of any controller.
LEMMA UnInitializeKeeps ==
  ASSUME DriversInv, NEW t \in Threads, NEW c \in Controllers, NEW rest \in SUBSET Modules,
         NEW linkStays \in BOOLEAN, UnInitialize(t, c, rest, linkStays)
  PROVE  DriversInv'
<1> USE DEF DriversInv
<1> PICK last \in BOOLEAN : last = (users[c] = {t})
  BY Zenon
<1> PICK nobody \in BOOLEAN : nobody = (Nobody(Left(t, c)) /\ moduleLoaded)
  BY Zenon
<1>0. /\ peripheral # "uart" /\ Uncounts(t, c)
      /\ nobody = FALSE => rest = kernel
      /\ moduleLoaded' = (moduleLoaded /\ ~nobody) /\ kernel' = rest
      /\ shown' = (IF Modules \subseteq rest THEN shown ELSE {})
      /\ UNCHANGED <<peripheral, bound, at>>
  BY Zenon DEF UnInitialize
<1>1. up' = (IF Modules \subseteq rest
             THEN IF peripheral = "can" /\ last = TRUE /\ linkStays = FALSE THEN up \ {c} ELSE up
             ELSE {})
  BY Zenon DEF UnInitialize
<1>2. failed' = (failed \/ (nobody /\ rest # {}) \/ (last /\ linkStays))
  BY Zenon DEF UnInitialize
<1>3. failed' \in BOOLEAN /\ moduleLoaded' \in BOOLEAN
  BY <1>0, <1>2, Zenon DEF DriversTypeOK
<1>4. failed' = FALSE => /\ failed = FALSE
                         /\ nobody = TRUE => rest = {}
                         /\ last = TRUE => linkStays = FALSE
  BY <1>2, Zenon DEF DriversTypeOK
<1>5. /\ nobody = TRUE => moduleLoaded' = FALSE
      /\ nobody = FALSE => moduleLoaded' = moduleLoaded
  BY <1>0, Zenon DEF DriversTypeOK
<1>6. /\ users' \in [Controllers -> SUBSET Threads] /\ users' = Left(t, c)
      /\ users'[c] = users[c] \ {t} /\ \A d \in Controllers \ {c} : users'[d] = users[d]
      /\ t \in users[c] /\ at[t].step = "idle"
      /\ \A u \in Threads : at[u].step # "idle" => u \in users'[at[u].controller]
  BY <1>0, LeftCounts DEF Uncounts
<1>7. moduleLoaded = TRUE /\ Modules \subseteq kernel
  BY <1>0, <1>6 DEF LoadedIsCounted, Nobody, DriversTypeOK
<1>8. /\ nobody = TRUE => Nobody(users')
      /\ nobody = FALSE => ~Nobody(users')
  <2>1. Nobody(users') <=> Nobody(Left(t, c))
    BY <1>6 DEF Nobody
  <2>2. moduleLoaded = TRUE
    BY <1>7
  <2>3. Nobody(Left(t, c)) => nobody = TRUE
    BY <2>2, Zenon
  <2>4. ~Nobody(Left(t, c)) => nobody = FALSE
    BY Zenon
  <2> QED BY <2>1, <2>3, <2>4
<1>9. DriversTypeOK'
  BY <1>0, <1>1, <1>3, <1>6 DEF DriversTypeOK
<1>10. BusyIsCounted' /\ UartHasNoModules' /\ BoundWhileUsed'
  BY <1>0, <1>6 DEF BusyIsCounted, UartHasNoModules, BoundWhileUsed
<1>11. OnlyCanHasLinks'
  BY <1>0, <1>1 DEF OnlyCanHasLinks
<1>12. LoadedIsCounted'
  BY <1>0, <1>5, <1>7, <1>8 DEF LoadedIsCounted
<1>13. NothingLeft'
  <2> SUFFICES ASSUME failed' = FALSE
               PROVE  /\ moduleLoaded' = FALSE => kernel' = {}
                      /\ \A d \in up' : users'[d] # {}
    BY DEF NothingLeft
  <2>1. moduleLoaded' = FALSE => kernel' = {}
    BY <1>0, <1>4, <1>5, <1>7
  <2>2. ASSUME NEW d \in up' PROVE users'[d] # {}
    <3>1. d \in up /\ d \in Controllers /\ users[d] # {}
      BY <1>1, <1>4 DEF NothingLeft, DriversTypeOK
    <3>2. CASE d = c
      <4>1. peripheral = "can"
        BY <3>1 DEF OnlyCanHasLinks
      <4>2. last = FALSE
        BY <1>1, <1>4, <3>2, <4>1
      <4>3. users[c] # {t}
        BY <4>2, Zenon
      <4> QED BY <1>6, <3>2, <4>3
    <3>3. CASE d # c
      BY <1>6, <3>1, <3>3
    <3> QED BY <3>2, <3>3
  <2> QED BY <2>1, <2>2
<1>14. LinkedOnceSetUp'
  <2> SUFFICES ASSUME peripheral = "can", failed' = FALSE, NEW d \in Controllers,
                      users'[d] # {},
                      \A u \in users'[d] : at[u].step = "idle" \/ at[u].controller # d
               PROVE  d \in up'
    BY <1>0 DEF LinkedOnceSetUp
  <2>1. nobody = FALSE
    BY <1>8 DEF Nobody
  <2>2. Modules \subseteq rest
    BY <1>0, <1>7, <2>1
  <2>3. users[d] # {} /\ \A u \in users[d] : at[u].step = "idle" \/ at[u].controller # d
    BY <1>6
  <2>4. d \in up
    BY <1>4, <2>3 DEF LinkedOnceSetUp
  <2>5. d = c => last = FALSE
    <3>1. d = c => users[c] # {t}
      BY <1>6
    <3> QED BY <3>1, Zenon
  <2> QED BY <1>1, <2>2, <2>4, <2>5
<1> QED BY <1>9, <1>10, <1>11, <1>12, <1>13, <1>14

\* UnInitialize of a UART unbinds a device that nobody uses any more.
LEMMA UnbindKeeps ==
  ASSUME DriversInv, NEW t \in Threads, NEW c \in Controllers, NEW fails \in BOOLEAN,
         Unbind(t, c, fails)
  PROVE  DriversInv'
<1> USE DEF DriversInv
<1>0. /\ peripheral = "uart" /\ Uncounts(t, c)
      /\ failed' = (failed \/ fails)
      /\ UNCHANGED <<peripheral, moduleLoaded, kernel, up, at>>
  BY Zenon DEF Unbind
<1>1. /\ users[c] # {t} => bound' = bound /\ shown' = shown
      /\ bound' \in {bound, bound \ {c}} /\ shown' \in {shown, shown \ {c}}
  BY DEF Unbind
<1>2. failed' \in BOOLEAN /\ (failed' = FALSE => failed = FALSE)
  BY <1>0, Zenon DEF DriversTypeOK
<1>3. /\ users' \in [Controllers -> SUBSET Threads]
      /\ users'[c] = users[c] \ {t} /\ \A d \in Controllers \ {c} : users'[d] = users[d]
      /\ \A u \in Threads : at[u].step # "idle" => u \in users'[at[u].controller]
  BY <1>0, LeftCounts
<1>4. DriversTypeOK'
  BY <1>0, <1>1, <1>2, <1>3 DEF DriversTypeOK
<1>5. BusyIsCounted' /\ UartHasNoModules' /\ OnlyCanHasLinks'
  BY <1>0, <1>3 DEF BusyIsCounted, UartHasNoModules, OnlyCanHasLinks
<1>6. LoadedIsCounted' /\ NothingLeft' /\ LinkedOnceSetUp'
  BY <1>0 DEF LoadedIsCounted, NothingLeft, LinkedOnceSetUp, UartHasNoModules, OnlyCanHasLinks
<1>7. BoundWhileUsed'
  <2> SUFFICES ASSUME NEW d \in Controllers, users'[d] # {} PROVE d \in bound'
    BY DEF BoundWhileUsed
  <2>1. d \in bound
    BY <1>0, <1>3 DEF BoundWhileUsed
  <2> QED BY <1>1, <1>3, <2>1
<1> QED BY <1>4, <1>5, <1>6, <1>7

-----------------------------------------------------------------------------
\* Every step keeps the invariant.
LEMMA DriversInvNext == DriversInv /\ [DriversNext]_driverVars => DriversInv'
<1> SUFFICES ASSUME DriversInv, [DriversNext]_driverVars PROVE DriversInv'
  OBVIOUS
<1>t. DriversTypeOK
  BY DEF DriversInv
<1>1. ASSUME NEW t \in Threads, NEW c \in Controllers, BindFails(t, c) PROVE DriversInv'
  BY <1>t, <1>1, InvKeptWhenAside DEF BindFails, DriversTypeOK
<1>2. ASSUME NEW c \in Controllers, Appears(c) PROVE DriversInv'
  BY <1>t, <1>2, InvKeptWhenAside DEF Appears, DriversTypeOK
<1>3. ASSUME NEW t \in Threads, WaitTimesOut(t) PROVE DriversInv'
  <2>1. /\ at' \in [Threads -> [step : {"idle"} \cup Steps, controller : Controllers]]
        /\ at'[t].step = "idle" /\ \A u \in Threads \ {t} : at'[u] = at[u]
    BY <1>t, <1>3, ReturnsType DEF WaitTimesOut
  <2> QED BY <1>t, <1>3, <2>1, InvKeptWhenAside DEF WaitTimesOut, DriversTypeOK
<1>4. ASSUME NEW t \in Threads, LinkFails(t) PROVE DriversInv'
  <2>1. /\ at' \in [Threads -> [step : {"idle"} \cup Steps, controller : Controllers]]
        /\ at'[t].step = "idle" /\ \A u \in Threads \ {t} : at'[u] = at[u]
    BY <1>t, <1>4, ReturnsType DEF LinkFails
  <2> QED BY <1>t, <1>4, <2>1, InvKeptWhenAside DEF LinkFails, DriversTypeOK
<1>5. CASE UNCHANGED driverVars
  BY <1>t, <1>5, InvKeptWhenAside DEF driverVars, DriversTypeOK
<1>6. ASSUME NEW t \in Threads, NEW c \in Controllers, NEW modules \in SUBSET Modules,
             ModprobeFails(t, c, modules)
      PROVE  DriversInv'
  BY <1>6, ModprobeFailsKeeps
<1>7. ASSUME NEW t \in Threads, NEW c \in Controllers, NEW rest \in SUBSET Modules,
             NEW linkStays \in BOOLEAN, UnInitialize(t, c, rest, linkStays)
      PROVE  DriversInv'
  BY <1>7, UnInitializeKeeps
<1>8. ASSUME NEW t \in Threads, NEW c \in Controllers, NEW fails \in BOOLEAN,
             Unbind(t, c, fails)
      PROVE  DriversInv'
  BY <1>8, UnbindKeeps
<1>9. ASSUME NEW t \in Threads, NEW c \in Controllers,
             InitializeModule(t, c) \/ Bind(t, c)
      PROVE  DriversInv'
  BY <1>9, InitializeModuleKeeps, BindKeeps
<1>10. ASSUME NEW t \in Threads, DeviceFound(t) \/ LinkDown(t) \/ LinkType(t) \/ LinkUp(t)
       PROVE  DriversInv'
  BY <1>10, DeviceFoundKeeps, LinkDownKeeps, LinkTypeKeeps, LinkUpKeeps
<1> QED
  BY <1>1, <1>2, <1>3, <1>4, <1>5, <1>6, <1>7, <1>8, <1>9, <1>10, Zenon DEF DriversNext

LEMMA DriversHold == DriversInv => DriversTypeOK /\ DriverFollowsUse
<1> SUFFICES ASSUME DriversInv PROVE DriversTypeOK /\ DriverFollowsUse
  OBVIOUS
<1> USE DEF DriversInv
<1>1. LoadedWhileUsed
  BY DEF LoadedWhileUsed, LoadedIsCounted, BoundWhileUsed, HasDriver, Nobody, DriversTypeOK
<1>2. UnusedIsUnloaded
  <2> SUFFICES ASSUME Nobody(users), failed = FALSE
               PROVE  moduleLoaded = FALSE /\ kernel = {} /\ up = {}
    BY Zenon DEF UnusedIsUnloaded, DriversTypeOK
  <2>1. moduleLoaded = FALSE
    BY DEF UartHasNoModules, LoadedIsCounted, DriversTypeOK
  <2> QED BY <2>1 DEF NothingLeft, Nobody, DriversTypeOK
<1>3. InitializedIsUp
  <2>1. ~failed => failed = FALSE
    BY Zenon DEF DriversTypeOK
  <2> QED BY <2>1 DEF InitializedIsUp, LinkedOnceSetUp
<1> QED BY <1>1, <1>2, <1>3 DEF DriverFollowsUse

\* Counts, modules, devices, links and threads keep their types.
THEOREM DriversTypeInvariant == DriversSpec => []DriversTypeOK
BY DriversInvInit, DriversInvNext, DriversHold, PTL DEF DriversSpec

\* For every number of controllers, threads and modules: a driver is there while
\* a controller that needs it is counted, goes with the last, and a link that
\* was set up stays up.
THEOREM DriverIsThereWhileUsed == DriversSpec => []DriverFollowsUse
BY DriversInvInit, DriversInvNext, DriversHold, PTL DEF DriversSpec

-----------------------------------------------------------------------------
(* Pwm: no write asks for a duty time longer than the period.              *)

\* llround(1e9 / frequency) is a time.
LEMMA PeriodType == ASSUME NEW f \in Frequencies PROVE Period(f) \in Nat
<1>1. f \in Nat /\ f > 0 /\ Second \in Nat
  BY UnitsAssumption
<1>2. (2 * Second + f) \div (2 * f) \in Nat
  BY <1>1, SMTT(30)
<1> QED BY <1>2 DEF Period

\* llround(period * dutyCycle) is a time of at most the period.
LEMMA DutyWithinPeriod ==
  ASSUME NEW p \in Nat, NEW q \in Quarters
  PROVE  Duty(p, q) \in Nat /\ Duty(p, q) <= p
<1>1. q \in {0, 1, 2, 3, 4}
  BY DEF Quarters
<1> QED BY <1>1, SMTT(30) DEF Duty

-----------------------------------------------------------------------------
\* The values at the start are of the variables' types.
LEMMA PwmInitType == PwmInit => PwmTypeOK
<1> SUFFICES ASSUME PwmInit PROVE PwmTypeOK
  OBVIOUS
<1>1. kperiod \in Nat
  BY PeriodType DEF PwmInit
<1>2. settled \in BOOLEAN /\ exported \in BOOLEAN /\ enabled \in BOOLEAN
  BY Zenon DEF PwmInit
<1> QED BY <1>1, <1>2 DEF PwmInit, PwmTypeOK, Quarters

LEMMA PwmTypeNext == PwmTypeOK /\ [PwmNext]_pwmVars => PwmTypeOK'
<1> SUFFICES ASSUME PwmTypeOK, [PwmNext]_pwmVars PROVE PwmTypeOK'
  OBVIOUS
<1> USE DEF PwmTypeOK
<1>0. /\ WantedPeriod \in Nat /\ WantedDuty \in Nat
      /\ wanted.frequency \in Frequencies /\ wanted.duty \in Quarters
  BY PeriodType, DutyWithinPeriod DEF WantedPeriod, WantedDuty, Wishes
<1>1. ASSUME NEW w \in Wishes, Open(w) PROVE PwmTypeOK'
  BY <1>1 DEF Open, Order
<1>2. ASSUME NEW w \in Wishes, Set(w) PROVE PwmTypeOK'
  BY <1>2 DEF Set, Order, kernelVars
<1>3. CASE WriteDutyFirst
  BY <1>0, <1>3 DEF WriteDutyFirst
<1>4. CASE WritePeriodLast
  BY <1>0, <1>4 DEF WritePeriodLast, Assigns
<1>5. CASE WritePeriodFirst
  BY <1>0, <1>5 DEF WritePeriodFirst
<1>6. CASE WriteDutyLast
  BY <1>0, <1>6 DEF WriteDutyLast, Assigns
<1>7. CASE WriteFails
  BY <1>7 DEF WriteFails, kernelVars
<1>8. CASE Start
  BY <1>8 DEF Start
<1>9. CASE Stop
  BY <1>9 DEF Stop
<1>10. ASSUME NEW s \in BOOLEAN, NEW u \in BOOLEAN, Close(s, u) PROVE PwmTypeOK'
  <2>1. enabled' \in BOOLEAN /\ exported' \in BOOLEAN /\ settled' \in BOOLEAN
    BY <1>10, Zenon DEF Close
  <2> QED BY <1>10, <2>1 DEF Close, Quarters
<1>11. CASE UNCHANGED pwmVars
  BY <1>11 DEF pwmVars
<1> QED
  BY <1>1, <1>2, <1>3, <1>4, <1>5, <1>6, <1>7, <1>8, <1>9, <1>10, <1>11 DEF PwmNext

\* Every variable of the object and the kernel keeps its type.
THEOREM PwmTypeInvariant == PwmSpec => []PwmTypeOK
BY PwmInitType, PwmTypeNext, PTL DEF PwmSpec

-----------------------------------------------------------------------------
(* What holds between any two writes: an object's copy of the period is at *)
(* most the kernel's, as a failed Apply may have left a longer period but  *)
(* never a shorter one, and the duty time is at most the copy.  Each order *)
(* of the writes is taken on its side of the copy.                         *)
Kept ==
  /\ kduty <= kperiod
  /\ pc # "closed" => kduty <= period_ /\ period_ <= kperiod

Ordered ==
  /\ pc \in {"dutyFirst", "periodLast"} => WantedPeriod < period_
  /\ pc \in {"periodFirst", "dutyLast"} => period_ <= WantedPeriod
  /\ pc = "periodLast" => kduty = WantedDuty
  /\ pc = "dutyLast" => kperiod = WantedPeriod

SettledAtRest == settled => pc = "open"

PwmInv == PwmTypeOK /\ Kept /\ Ordered /\ SettledAtRest /\ SettledIsApplied

\* The times wanted are times, and the duty time fits the period.
LEMMA WantedFits ==
  ASSUME PwmTypeOK
  PROVE  WantedPeriod \in Nat /\ WantedDuty \in Nat /\ WantedDuty <= WantedPeriod
BY PeriodType, DutyWithinPeriod DEF PwmTypeOK, WantedPeriod, WantedDuty, Wishes

\* At the start the kernel has no duty time yet.
LEMMA PwmInvInit == PwmInit => PwmTypeOK /\ Kept /\ Ordered /\ SettledAtRest /\ SettledIsApplied
<1> SUFFICES ASSUME PwmInit PROVE PwmTypeOK /\ Kept /\ Ordered /\ SettledAtRest /\ SettledIsApplied
  OBVIOUS
<1>1. PwmTypeOK
  BY PwmInitType
<1> QED BY <1>1 DEF PwmInit, PwmTypeOK, Kept, Ordered, SettledAtRest, SettledIsApplied

\* Every write, and every failure of one, keeps the copy between the duty time
\* and the period.
LEMMA PwmInvNext == PwmInv /\ PwmTypeOK' /\ [PwmNext]_pwmVars => PwmInv'
<1> SUFFICES ASSUME PwmInv, PwmTypeOK', [PwmNext]_pwmVars PROVE PwmInv'
  OBVIOUS
<1>0. WantedPeriod \in Nat /\ WantedDuty \in Nat /\ WantedDuty <= WantedPeriod
  BY WantedFits DEF PwmInv
<1>t. period_ \in Nat /\ kperiod \in Nat /\ kduty \in Nat
  BY DEF PwmInv, PwmTypeOK
<1>i. Kept /\ Ordered /\ SettledAtRest /\ SettledIsApplied
  BY DEF PwmInv
<1>w. wanted' = wanted => WantedPeriod' = WantedPeriod /\ WantedDuty' = WantedDuty
  BY DEF WantedPeriod, WantedDuty
<1>a. (Kept' /\ Ordered' /\ SettledAtRest' /\ SettledIsApplied') => PwmInv'
  BY DEF PwmInv
<1>1. ASSUME NEW w \in Wishes, Open(w) PROVE PwmInv'
  <2>1. WantedPeriod' = Period(w.frequency) /\ Period(w.frequency) \in Nat
    BY <1>1, PeriodType DEF Open, WantedPeriod, Wishes
  <2>2. /\ pc = "closed" /\ settled' = FALSE /\ period_' = kperiod
        /\ kperiod' = kperiod /\ kduty' = kduty
    BY <1>1 DEF Open
  <2>3. /\ Period(w.frequency) < kperiod => pc' = "dutyFirst"
        /\ ~(Period(w.frequency) < kperiod) => pc' = "periodFirst"
    BY <1>1 DEF Open, Order
  <2>4. Kept'
    BY <1>i, <1>t, <2>2 DEF Kept
  <2>5. Ordered'
    BY <1>t, <2>1, <2>2, <2>3 DEF Ordered
  <2>6. SettledAtRest' /\ SettledIsApplied'
    BY <2>2, Zenon DEF SettledAtRest, SettledIsApplied
  <2> QED BY <1>a, <2>4, <2>5, <2>6
<1>2. ASSUME NEW w \in Wishes, Set(w) PROVE PwmInv'
  <2>1. WantedPeriod' = Period(w.frequency) /\ Period(w.frequency) \in Nat
    BY <1>2, PeriodType DEF Set, WantedPeriod, Wishes
  <2>2. /\ pc = "open" /\ settled' = FALSE /\ period_' = period_
        /\ kperiod' = kperiod /\ kduty' = kduty
    BY <1>2 DEF Set, kernelVars
  <2>3. /\ Period(w.frequency) < period_ => pc' = "dutyFirst"
        /\ ~(Period(w.frequency) < period_) => pc' = "periodFirst"
    BY <1>2 DEF Set, Order
  <2>4. Kept'
    BY <1>i, <1>t, <2>2 DEF Kept
  <2>5. Ordered'
    BY <1>t, <2>1, <2>2, <2>3 DEF Ordered
  <2>6. SettledAtRest' /\ SettledIsApplied'
    BY <2>2, Zenon DEF SettledAtRest, SettledIsApplied
  <2> QED BY <1>a, <2>4, <2>5, <2>6
<1>3. CASE WriteDutyFirst
  <2>1. /\ pc = "dutyFirst" /\ pc' = "periodLast" /\ settled' = settled /\ period_' = period_
        /\ kperiod' = kperiod /\ kduty' = WantedDuty /\ wanted' = wanted
    BY <1>3 DEF WriteDutyFirst
  <2>2. kduty' <= WantedPeriod /\ WantedPeriod < period_ /\ period_ <= kperiod
    BY <1>0, <1>i, <2>1 DEF Kept, Ordered
  <2>3. Kept'
    BY <1>0, <1>t, <2>1, <2>2 DEF Kept
  <2>4. Ordered'
    BY <1>w, <2>1, <2>2 DEF Ordered
  <2>5. SettledAtRest' /\ SettledIsApplied'
    BY <1>i, <2>1 DEF SettledAtRest, SettledIsApplied
  <2> QED BY <1>a, <2>3, <2>4, <2>5
<1>4. CASE WritePeriodLast
  <2>1. /\ pc = "periodLast" /\ pc' = "open" /\ period_' = WantedPeriod /\ kperiod' = WantedPeriod
        /\ kduty' = kduty /\ frequency_' = wanted.frequency /\ dutyCycle_' = wanted.duty
    BY <1>4 DEF WritePeriodLast, Assigns
  <2>2. kduty = WantedDuty
    BY <1>i, <2>1 DEF Ordered
  <2>3. Kept'
    BY <1>0, <2>1, <2>2 DEF Kept
  <2>4. Ordered' /\ SettledAtRest'
    BY <2>1 DEF Ordered, SettledAtRest
  <2>5. SettledIsApplied'
    BY <2>1, <2>2 DEF SettledIsApplied, WantedPeriod, WantedDuty
  <2> QED BY <1>a, <2>3, <2>4, <2>5
<1>5. CASE WritePeriodFirst
  <2>1. /\ pc = "periodFirst" /\ pc' = "dutyLast" /\ settled' = settled /\ period_' = period_
        /\ kperiod' = WantedPeriod /\ kduty' = kduty /\ wanted' = wanted
    BY <1>5 DEF WritePeriodFirst
  <2>2. kduty <= period_ /\ period_ <= WantedPeriod
    BY <1>i, <2>1 DEF Kept, Ordered
  <2>3. Kept'
    BY <1>0, <1>t, <2>1, <2>2 DEF Kept
  <2>4. Ordered'
    BY <1>w, <2>1, <2>2 DEF Ordered
  <2>5. SettledAtRest' /\ SettledIsApplied'
    BY <1>i, <2>1 DEF SettledAtRest, SettledIsApplied
  <2> QED BY <1>a, <2>3, <2>4, <2>5
<1>6. CASE WriteDutyLast
  <2>1. /\ pc = "dutyLast" /\ pc' = "open" /\ period_' = WantedPeriod /\ kperiod' = kperiod
        /\ kduty' = WantedDuty /\ frequency_' = wanted.frequency /\ dutyCycle_' = wanted.duty
    BY <1>6 DEF WriteDutyLast, Assigns
  <2>2. kperiod = WantedPeriod
    BY <1>i, <2>1 DEF Ordered
  <2>3. Kept'
    BY <1>0, <2>1, <2>2 DEF Kept
  <2>4. Ordered' /\ SettledAtRest'
    BY <2>1 DEF Ordered, SettledAtRest
  <2>5. SettledIsApplied'
    BY <2>1, <2>2 DEF SettledIsApplied, WantedPeriod, WantedDuty
  <2> QED BY <1>a, <2>3, <2>4, <2>5
<1>7. CASE WriteFails
  <2>1. /\ pc \in {"dutyFirst", "periodLast", "periodFirst", "dutyLast"} /\ pc' \in {"closed", "open"}
        /\ settled' = settled /\ UNCHANGED <<period_, kperiod, kduty, wanted>>
    BY <1>7 DEF WriteFails, Writing, kernelVars
  <2>2. ~settled
    BY <1>i, <2>1 DEF SettledAtRest
  <2>3. Kept' /\ Ordered'
    BY <1>i, <2>1 DEF Kept, Ordered
  <2>4. SettledAtRest' /\ SettledIsApplied'
    BY <2>1, <2>2 DEF SettledAtRest, SettledIsApplied
  <2> QED BY <1>a, <2>3, <2>4
<1>8. CASE Start
  <2>1. UNCHANGED <<pc, period_, frequency_, dutyCycle_, wanted, settled, kperiod, kduty>>
    BY <1>8 DEF Start
  <2> QED BY <1>a, <1>i, <1>w, <2>1 DEF Kept, Ordered, SettledAtRest, SettledIsApplied
<1>9. CASE Stop
  <2>1. UNCHANGED <<pc, period_, frequency_, dutyCycle_, wanted, settled, kperiod, kduty>>
    BY <1>9 DEF Stop
  <2> QED BY <1>a, <1>i, <1>w, <2>1 DEF Kept, Ordered, SettledAtRest, SettledIsApplied
<1>10. ASSUME NEW s \in BOOLEAN, NEW u \in BOOLEAN, Close(s, u) PROVE PwmInv'
  <2>1. pc' = "closed" /\ settled' = FALSE /\ kperiod' = kperiod /\ kduty' = kduty
    BY <1>10 DEF Close
  <2>2. Kept' /\ Ordered'
    BY <1>i, <2>1 DEF Kept, Ordered
  <2>3. SettledAtRest' /\ SettledIsApplied'
    BY <2>1 DEF SettledAtRest, SettledIsApplied
  <2> QED BY <1>a, <2>2, <2>3
<1>11. CASE UNCHANGED pwmVars
  <2>1. UNCHANGED <<pc, period_, frequency_, dutyCycle_, wanted, settled, kperiod, kduty>>
    BY <1>11 DEF pwmVars
  <2> QED BY <1>a, <1>i, <1>w, <2>1 DEF Kept, Ordered, SettledAtRest, SettledIsApplied
<1> QED
  BY <1>1, <1>2, <1>3, <1>4, <1>5, <1>6, <1>7, <1>8, <1>9, <1>10, <1>11 DEF PwmNext

LEMMA PwmHolds == PwmInv => WritesFit
<1> SUFFICES ASSUME PwmInv PROVE WritesFit
  OBVIOUS
<1>1. period_ \in Nat /\ kperiod \in Nat /\ kduty \in Nat
  BY DEF PwmInv, PwmTypeOK
<1>2. WantedPeriod \in Nat /\ WantedDuty \in Nat /\ WantedDuty <= WantedPeriod
  BY WantedFits DEF PwmInv
<1>3. pc \in {"dutyFirst", "dutyLast"} => WantedDuty <= kperiod
  <2>1. CASE pc = "dutyFirst"
    BY <1>1, <1>2, <2>1 DEF PwmInv, Kept, Ordered
  <2>2. CASE pc = "dutyLast"
    BY <1>2, <2>2 DEF PwmInv, Ordered
  <2> QED BY <2>1, <2>2
<1>4. pc \in {"periodFirst", "periodLast"} => kduty <= WantedPeriod
  <2>1. CASE pc = "periodFirst"
    BY <1>1, <1>2, <2>1 DEF PwmInv, Kept, Ordered
  <2>2. CASE pc = "periodLast"
    BY <1>2, <2>2 DEF PwmInv, Ordered
  <2> QED BY <2>1, <2>2
<1> QED
  BY <1>3, <1>4 DEF PwmInv, WritesFit, DutyFits

\* No write that Apply makes is longer than the period the kernel would have,
\* and what a call that came back wrote is what the kernel has.
THEOREM PwmWritesFit == PwmSpec => []WritesFit
<1>1. PwmInit => PwmInv
  BY PwmInvInit DEF PwmInv
<1> QED BY <1>1, PwmInvNext, PwmHolds, PwmTypeInvariant, PTL DEF PwmSpec

-----------------------------------------------------------------------------
(* Network: what Enable configured is found again, and carries.            *)


NetPlaces == {"idle", "pick", "dhcp", "static", "route", "add", "down"}
NetCalls == [at : NetPlaces, on : Net!Interfaces \cup {None}, among : SUBSET Net!Interfaces, dhcp : BOOLEAN]
Metrics == {0, 100, 200, None}
Contents == [whole : BOOLEAN, dhcp : [Net!Types -> BOOLEAN], mac : [Net!Types -> Net!Interfaces \cup {None}]]
Sections == [dhcp : BOOLEAN, mac : Net!Interfaces \cup {None}]

\* The links' and the settings' part, and what the calls have found
NetTypes ==
  /\ present \subseteq Net!Interfaces /\ netUp \subseteq present /\ linked \subseteq netUp
  /\ asking \in [Net!Interfaces -> Nat] /\ leased \in [Net!Interfaces -> Nat]
  /\ \A i \in Net!Interfaces : asking[i] + leased[i] <= MaxClients
  /\ pidfile \in [Net!Interfaces -> BOOLEAN]
  /\ metric \in [Net!Interfaces -> Metrics]
  /\ netPc \in [Net!Types -> NetCalls] /\ configured \in [Net!Types -> Net!Interfaces \cup {None}]

\* What is being saved differs from the file in the section of one type.
NetSettings ==
  /\ file \in Contents /\ tmp \in Contents \cup {None}
  /\ lastSaved \in [Net!Types -> Sections \cup {None}]
  /\ saver \in [at : {"idle", "write", "rename"}, content : Contents, type : Net!Types \cup {None}]
  /\ saver.at # "idle" =>
       /\ saver.type \in Net!Types /\ saver.content.whole
       /\ \A t \in Net!Types \ {saver.type} : Net!Section(saver.content, t) = Net!Section(Net!Load, t)
  /\ Net!SettingsWhole

\* A call works on an interface of its type, and chooses it among some: those
\* that it has given up have no carrier, or one that came too late.
CallOf(type) ==
  /\ netPc[type].at \notin {"idle", "pick"} => netPc[type].on \in Net!Kind(type)
  /\ netPc[type].at = "pick" =>
       /\ netPc[type].among \subseteq Net!Kind(type) /\ netPc[type].on \in netPc[type].among
       /\ \A j \in netPc[type].among \cap linked : j < netPc[type].on => j \in overdue
  /\ netPc[type].at \in {"pick", "down"} => configured[type] = None

\* What Enable chose has a carrier and no other before it, or is the first of
\* those without; but for carriers that came too late.
FoundAgain(type) ==
  LET one == configured[type]
      isUp == Net!Candidates(type) \cap netUp IN
  one # None =>
    /\ one \in isUp
    /\ \A j \in isUp \cap linked : j \in overdue \/ (one \in linked /\ one <= j)
    /\ one \notin linked => \A j \in isUp : one <= j

\* A client's route is there only while Enable is about to replace it, or late;
\* any other has the metric of its type.
RouteOf(type) ==
  \A i \in Net!Kind(type) :
    /\ metric[i] \in {None, 0, Net!MetricForType(type)}
    /\ metric[i] = 0 => i \in late \/ (netPc[type].at = "route" /\ netPc[type].on = i)

NetworkInv ==
  /\ NetTypes /\ NetSettings
  /\ \A type \in Net!Types : CallOf(type) /\ FoundAgain(type) /\ RouteOf(type)

-----------------------------------------------------------------------------
\* Of any interfaces there is a first one.
LEMMA FirstIsOne ==
  ASSUME NEW S \in SUBSET Nat, S # {}
  PROVE  Net!First(S) \in S /\ \A y \in S : Net!First(S) <= y
<1> DEFINE Less == OpToRel(<, Nat)
<1>1. IsWellFoundedOn(Less, Nat)
  BY NatLessThanWellFounded
<1>2. \A x, y \in Nat : y < x => <<y, x>> \in Less
  BY SMT DEF OpToRel
<1> HIDE DEF Less
<1>3. PICK x \in S : \A y \in S : ~(<<y, x>> \in Less)
  BY <1>1, WFMin
<1>4. ASSUME NEW y \in S PROVE x <= y
  <2>1. x \in Nat /\ y \in Nat /\ <<y, x>> \notin Less
    BY <1>3
  <2>2. ~(y < x)
    BY <1>2, <2>1
  <2> QED BY <2>1, <2>2
<1> QED BY <1>4 DEF Net!First

LEMMA KindsApart ==
  ASSUME NEW type \in Net!Types
  PROVE  /\ Net!Kind(type) \subseteq Net!Interfaces /\ Net!Kind(type) \subseteq Nat /\ None \notin Net!Interfaces
         /\ \A t \in Net!Types \ {type} : Net!Kind(t) \cap Net!Kind(type) = {}
         /\ \A i \in Net!Kind(type) : i # None
         /\ Net!MetricForType(type) \in {100, 200} /\ Net!MetricForType(type) \notin {None, 0}
<1>1. /\ Net!Kind(type) \in {Ethernet, Wifi} /\ Net!MetricForType(type) \in {100, 200}
      /\ \A t \in Net!Types \ {type} : Net!Kind(t) \cap Net!Kind(type) = {}
  BY NetworkAssumption DEF Net!Types, Net!Kind, Net!MetricForType
<1>2. Net!Interfaces \subseteq Nat /\ Net!Kind(type) \subseteq Net!Interfaces
  BY <1>1, NetworkAssumption DEF Net!Interfaces
<1>3. None \notin Nat /\ 100 \in Nat /\ 200 \in Nat
  BY NetworkAssumption
<1>4. Net!MetricForType(type) \notin {None, 0}
  BY <1>1, <1>3
<1>5. None \notin Net!Interfaces
  BY <1>2, <1>3
<1>6. \A i \in Net!Kind(type) : i # None
  BY <1>2, <1>5
<1> QED BY <1>1, <1>2, <1>4, <1>5, <1>6

\* The name of a type's interface is one of those it is looked for among.  Where
\* one of them is up it is such a one: the first with a carrier, or with none
\* that has one the first.
LEMMA NameIsOne ==
  ASSUME NEW type \in Net!Types
  PROVE  /\ Net!Candidates(type) \subseteq present \cap Net!Kind(type)
         /\ Net!Name(type) # None => Net!Name(type) \in Net!Candidates(type)
         /\ Net!Candidates(type) \cap netUp # {} =>
              /\ Net!Name(type) \in Net!Candidates(type) \cap netUp
              /\ Net!Name(type) \in linked =>
                   \A j \in Net!Candidates(type) \cap netUp : j \in linked => Net!Name(type) <= j
              /\ Net!Name(type) \notin linked =>
                   \A j \in Net!Candidates(type) \cap netUp : j \notin linked /\ Net!Name(type) <= j
<1> DEFINE isUp == Net!Candidates(type) \cap netUp
           carried == {i \in isUp : Net!HasCarrier(i)}
<1>1. Net!Candidates(type) \subseteq present \cap Net!Kind(type)
  BY DEF Net!Candidates
<1>2. Net!Candidates(type) \in SUBSET Nat /\ isUp \in SUBSET Nat /\ carried \in SUBSET Nat
  BY <1>1, KindsApart
<1>3. Net!Name(type) = IF carried # {} THEN Net!First(carried)
                   ELSE IF isUp # {} THEN Net!First(isUp)
                   ELSE IF Net!Candidates(type) # {} THEN Net!First(Net!Candidates(type)) ELSE None
  BY DEF Net!Name
<1>4. /\ carried \subseteq isUp /\ isUp \subseteq Net!Candidates(type) /\ isUp \subseteq netUp
      /\ \A j \in isUp : j \in carried <=> j \in linked
  BY DEF Net!HasCarrier
<1> HIDE DEF isUp, carried
<1>5. carried # {} => Net!First(carried) \in carried /\ \A j \in carried : Net!First(carried) <= j
  BY <1>2, FirstIsOne
<1>6. isUp # {} => Net!First(isUp) \in isUp /\ \A j \in isUp : Net!First(isUp) <= j
  BY <1>2, FirstIsOne
<1>7. Net!Candidates(type) # {} => Net!First(Net!Candidates(type)) \in Net!Candidates(type)
  BY <1>2, FirstIsOne
<1>8. Net!Name(type) # None => Net!Name(type) \in Net!Candidates(type)
  BY <1>3, <1>4, <1>5, <1>6, <1>7
<1>9. ASSUME isUp # {}
      PROVE  /\ Net!Name(type) \in isUp
             /\ Net!Name(type) \in linked => \A j \in isUp : j \in linked => Net!Name(type) <= j
             /\ Net!Name(type) \notin linked => \A j \in isUp : j \notin linked /\ Net!Name(type) <= j
  <2>1. CASE carried # {}
    BY <1>3, <1>4, <1>5, <2>1
  <2>2. CASE carried = {}
    BY <1>3, <1>4, <1>6, <1>9, <2>2
  <2> QED BY <2>1, <2>2
<1> QED BY <1>1, <1>8, <1>9 DEF isUp

\* What Enable chose has the name, or one whose carrier came too late has it.
LEMMA NameIsFound ==
  ASSUME NEW type \in Net!Types, FoundAgain(type), configured[type] # None
  PROVE  Net!Name(type) \in {configured[type]} \cup overdue /\ Net!Name(type) \in netUp
<1> DEFINE one == configured[type]
           isUp == Net!Candidates(type) \cap netUp
<1>1. /\ one \in isUp /\ \A j \in isUp : j \in linked => j \in overdue \/ (one \in linked /\ one <= j)
      /\ one \notin linked => \A j \in isUp : one <= j
  BY DEF FoundAgain
<1>2. /\ Net!Name(type) \in isUp
      /\ Net!Name(type) \in linked => \A j \in isUp : j \in linked => Net!Name(type) <= j
      /\ Net!Name(type) \notin linked => \A j \in isUp : j \notin linked /\ Net!Name(type) <= j
  BY <1>1, NameIsOne
<1>3. isUp \subseteq Nat /\ isUp \subseteq netUp
  BY NameIsOne, KindsApart
<1>4. PICK name : name = Net!Name(type)
  OBVIOUS
<1> HIDE DEF isUp, one
<1>5. one \in Nat /\ name \in Nat
  BY <1>1, <1>2, <1>3, <1>4
<1>6. name \in {one} \cup overdue
  <2>1. CASE name \in linked
    <3>1. name \in overdue \/ (one \in linked /\ one <= name)
      BY <1>1, <1>2, <1>4, <2>1
    <3>2. one \in linked => name <= one
      BY <1>1, <1>2, <1>4, <2>1
    <3> QED BY <1>5, <3>1, <3>2
  <2>2. CASE name \notin linked
    <3>1. name <= one /\ one \notin linked
      BY <1>1, <1>2, <1>4, <2>2
    <3>2. one <= name
      BY <1>1, <1>2, <1>4, <3>1
    <3> QED BY <1>5, <3>1, <3>2
  <2> QED BY <2>1, <2>2
<1> QED BY <1>2, <1>3, <1>4, <1>6 DEF one

-----------------------------------------------------------------------------
(* A step of one type's thread.                                            *)

\* The parts of the invariant that are about one type
TypeInv(type) == CallOf(type) /\ FoundAgain(type) /\ RouteOf(type)

\* A type's interfaces and links stay as they are.
LinksStay(type) ==
  \A i \in Net!Kind(type) :
    (i \in netUp' <=> i \in netUp) /\ (i \in linked' <=> i \in linked) /\ (i \in overdue' <=> i \in overdue)

\* What another type's step leaves as it is
Apart(type) ==
  /\ netPc'[type] = netPc[type] /\ configured'[type] = configured[type] /\ LinksStay(type)
  /\ \A i \in Net!Kind(type) : metric'[i] = metric[i] /\ (i \in late' <=> i \in late)

\* What is configured is found again while the links and the settings stay.
LEMMA FoundStays ==
  ASSUME NEW type \in Net!Types, FoundAgain(type), UNCHANGED <<present, file>>,
         configured'[type] = configured[type], LinksStay(type)
  PROVE  FoundAgain(type)'
<1>1. Net!Candidates(type)' = Net!Candidates(type) /\ Net!Candidates(type) \subseteq Net!Kind(type)
  BY DEF Net!Candidates, Net!Load
<1>2. \A j \in Net!Candidates(type) :
        (j \in netUp' <=> j \in netUp) /\ (j \in linked' <=> j \in linked) /\ (j \in overdue' <=> j \in overdue)
  BY <1>1 DEF LinksStay
<1> QED BY <1>1, <1>2 DEF FoundAgain

LEMMA OtherStays ==
  ASSUME NetworkInv, NEW type \in Net!Types, UNCHANGED <<present, file>>, Apart(type)
  PROVE  TypeInv(type)'
<1>0. CallOf(type) /\ FoundAgain(type) /\ RouteOf(type)
  BY DEF NetworkInv
<1>1. CallOf(type)'
  BY <1>0 DEF CallOf, Apart, LinksStay
<1>2. RouteOf(type)'
  BY <1>0 DEF RouteOf, Apart, Net!MetricForType
<1>3. FoundAgain(type)'
  BY <1>0, FoundStays DEF Apart
<1> QED BY <1>1, <1>2, <1>3 DEF TypeInv

LEMMA CallIs ==
  ASSUME NetworkInv, NEW type \in Net!Types
  PROVE  /\ netPc[type] \in NetCalls /\ Net!Kind(type) \subseteq Net!Interfaces
         /\ netPc[type].at \notin {"idle", "pick"} => netPc[type].on \in Net!Kind(type)
         /\ netPc[type].at = "pick" =>
              /\ netPc[type].among \subseteq Net!Kind(type) /\ netPc[type].on \in netPc[type].among
              /\ \A j \in netPc[type].among \cap linked : j < netPc[type].on => j \in overdue
         /\ netPc[type].at \in {"pick", "down"} => configured[type] = None
         /\ NetTypes /\ FoundAgain(type) /\ RouteOf(type)
BY KindsApart DEF NetworkInv, NetTypes, CallOf

\* How a call goes on
LEMMA CallGoesOn ==
  ASSUME netPc \in [Net!Types -> NetCalls], NEW type \in Net!Types, NEW place \in NetPlaces, NEW which \in Net!Interfaces
  PROVE  /\ Net!At(type, place, which) =>
              /\ netPc' \in [Net!Types -> NetCalls] /\ \A t \in Net!Types \ {type} : netPc'[t] = netPc[t]
              /\ netPc'[type].at = place /\ netPc'[type].on = which
         /\ Net!Returns(type) =>
              /\ netPc' \in [Net!Types -> NetCalls] /\ \A t \in Net!Types \ {type} : netPc'[t] = netPc[t]
              /\ netPc'[type].at = "idle"
<1>1. [at |-> place, on |-> which, among |-> netPc[type].among, dhcp |-> netPc[type].dhcp] \in NetCalls /\ Net!Idle \in NetCalls
  BY DEF NetCalls, Net!Idle, NetPlaces
<1> DEFINE call == [at |-> place, on |-> which, among |-> netPc[type].among, dhcp |-> netPc[type].dhcp]
<1>2. ASSUME Net!At(type, place, which) PROVE netPc' \in [Net!Types -> NetCalls] /\ netPc'[type] = call /\ \A t \in Net!Types \ {type} : netPc'[t] = netPc[t]
  <2>1. netPc' = [netPc EXCEPT ![type].at = place, ![type].on = which]
    BY <1>2 DEF Net!At
  <2>2. netPc'[type] = call
    BY <2>1 DEF NetCalls
  <2>3. \A t \in Net!Types \ {type} : netPc'[t] = netPc[t]
    BY <2>1 DEF NetCalls
  <2> QED BY <1>1, <2>1, <2>2, <2>3
<1>3. Net!Idle.at = "idle"
  BY DEF Net!Idle
<1> QED BY <1>1, <1>2, <1>3 DEF Net!Returns

\* Another type has other interfaces.
LEMMA Others ==
  ASSUME NEW type \in Net!Types, NEW i \in Net!Kind(type), NEW t \in Net!Types \ {type}, NEW j \in Net!Kind(t)
  PROVE  j # i /\ j \in Net!Interfaces /\ i \in Net!Interfaces
BY KindsApart

\* The steps that only go on with the call: interfaces, clients and routes stay.
Step(type) == NetTypes' /\ TypeInv(type)' /\ \A t \in Net!Types \ {type} : Apart(t)

LEMMA EnableSteps ==
  ASSUME NetworkInv, NetSettings, NEW type \in Net!Types, Net!Enable(type) PROVE Step(type)
<1> DEFINE adminUp == Net!IsAdminUp(Net!Candidates(type))
<1>0. /\ NetTypes /\ Net!Candidates(type) \subseteq present \cap Net!Kind(type) /\ RouteOf(type)
      /\ Net!Kind(type) \subseteq Net!Interfaces /\ Net!Kind(type) \subseteq Nat
      /\ \A t \in Net!Types \ {type} : Net!Kind(t) \cap Net!Kind(type) = {}
  BY CallIs, NameIsOne, KindsApart
<1>1. /\ UNCHANGED <<present, linked, asking, leased, pidfile, metric, late>> /\ netPc[type] = Net!Idle
      /\ netUp' = netUp \cup adminUp /\ configured' = [configured EXCEPT ![type] = None]
      /\ overdue' = overdue \ Net!Kind(type)
      /\ netPc' = [netPc EXCEPT ![type] = IF adminUp = {} THEN Net!Idle
                   ELSE [at |-> "pick", on |-> Net!First(adminUp), among |-> adminUp, dhcp |-> Net!Load.dhcp[type]]]
  BY DEF Net!Enable, Net!leases
<1>2. adminUp \subseteq present \cap Net!Kind(type) /\ adminUp \subseteq Net!Interfaces /\ adminUp \in SUBSET Nat
  BY <1>0 DEF Net!IsAdminUp
<1> HIDE DEF adminUp
<1>3. Net!Load.dhcp[type] \in BOOLEAN
  BY DEF NetSettings, Net!Load, Contents, Net!Defaults, Net!Content
<1>a. adminUp # {} => Net!First(adminUp) \in adminUp /\ \A j \in adminUp : Net!First(adminUp) <= j
  BY <1>2, FirstIsOne
<1>4. PICK c \in NetCalls : /\ netPc' = [netPc EXCEPT ![type] = c]
                            /\ c.at = "pick" => /\ c.among = adminUp /\ adminUp # {}
                                                /\ c.on = Net!First(adminUp)
                            /\ c.at \in {"idle", "pick"}
  <2>1. Net!Idle \in NetCalls /\ Net!Idle.at = "idle"
    BY DEF Net!Idle, NetCalls, NetPlaces
  <2>3. CASE adminUp = {}
    BY <1>1, <2>1, <2>3
  <2>4. CASE adminUp # {}
    <3>1. [at |-> "pick", on |-> Net!First(adminUp), among |-> adminUp, dhcp |-> Net!Load.dhcp[type]] \in NetCalls
      BY <1>2, <1>3, <1>a, <2>4 DEF NetCalls, NetPlaces
    <3> QED BY <1>1, <2>4, <3>1
  <2> QED BY <2>3, <2>4
<1>5. /\ netPc' \in [Net!Types -> NetCalls] /\ configured' \in [Net!Types -> Net!Interfaces \cup {None}]
      /\ netPc'[type] = c /\ configured'[type] = None
      /\ \A t \in Net!Types \ {type} : netPc'[t] = netPc[t] /\ configured'[t] = configured[t]
  BY <1>0, <1>1, <1>4 DEF NetTypes
<1>6. NetTypes'
  <2>1. netUp' \subseteq present /\ linked' \subseteq netUp'
    BY <1>0, <1>1, <1>2 DEF NetTypes
  <2> QED BY <1>0, <1>1, <1>5, <2>1 DEF NetTypes
<1>7. ASSUME NEW t \in Net!Types \ {type} PROVE Apart(t)
  <2>1. LinksStay(t)
    BY <1>0, <1>1, <1>2 DEF LinksStay
  <2> QED BY <1>1, <1>5, <2>1 DEF Apart
<1>8. TypeInv(type)'
  <2>1. CallOf(type)'
    <3>1. CASE c.at = "idle"
      BY <1>5, <3>1 DEF CallOf
    <3>2. CASE c.at = "pick"
      <4>1. /\ c.among = adminUp /\ adminUp # {} /\ c.on = Net!First(adminUp) /\ c.on \in adminUp
            /\ \A j \in adminUp : j \in Nat /\ c.on <= j
        BY <1>2, <1>4, <1>a, <3>2
      <4>2. \A j \in adminUp : ~(j < c.on)
        BY <4>1
      <4> QED BY <1>2, <1>5, <3>2, <4>1, <4>2 DEF CallOf
    <3> QED BY <1>4, <3>1, <3>2
  <2>2. FoundAgain(type)'
    BY <1>5 DEF FoundAgain
  <2>3. netPc[type].at = "idle"
    BY <1>1 DEF Net!Idle
  <2>4. RouteOf(type)'
    BY <1>0, <1>1, <2>3 DEF RouteOf, Net!MetricForType
  <2> QED BY <2>1, <2>2, <2>4 DEF TypeInv
<1> QED BY <1>6, <1>7, <1>8 DEF Step

\* What Enable chooses, with a carrier or when the time was up for each
LEMMA ChosenSteps ==
  ASSUME NetworkInv, NEW type \in Net!Types, netPc[type].at = "pick", NEW i \in netPc[type].among,
         Net!Chosen(type, i), UNCHANGED <<Net!links, Net!leases, Net!settings>>,
         \A j \in netPc[type].among \cap linked : j \in overdue \/ (i \in linked /\ i <= j),
         i \notin linked => \A j \in netPc[type].among : i <= j
  PROVE  Step(type)
<1> DEFINE among == netPc[type].among
<1>0. /\ NetTypes /\ netPc[type] \in NetCalls /\ RouteOf(type)
      /\ among \subseteq Net!Kind(type) /\ Net!Kind(type) \subseteq Net!Interfaces /\ None \notin Net!Interfaces
  BY CallIs, KindsApart
<1>1. /\ UNCHANGED <<present, netUp, linked, overdue, asking, leased, pidfile, metric, late, file>>
      /\ \E place \in {"dhcp", "static"} : Net!At(type, place, i)
      /\ configured' = [configured EXCEPT ![type] = IF among = Net!Candidates(type) \cap netUp THEN i ELSE None]
  BY DEF Net!Chosen, Net!leases, Net!links, Net!settings
<1>7. i \in Net!Interfaces /\ i \in Net!Kind(type)
  BY <1>0
<1> HIDE DEF among
<1>8. /\ netPc' \in [Net!Types -> NetCalls] /\ netPc'[type].at \in {"dhcp", "static"} /\ netPc'[type].on = i
      /\ \A t \in Net!Types \ {type} : netPc'[t] = netPc[t]
  <2>1. PICK place \in {"dhcp", "static"} : Net!At(type, place, i)
    BY <1>1
  <2>2. place \in NetPlaces /\ netPc \in [Net!Types -> NetCalls]
    BY <1>0 DEF NetPlaces, NetTypes
  <2> QED BY <1>7, <2>1, <2>2, CallGoesOn
<1>9. /\ configured' \in [Net!Types -> Net!Interfaces \cup {None}]
      /\ configured'[type] = IF among = Net!Candidates(type) \cap netUp THEN i ELSE None
      /\ \A t \in Net!Types \ {type} : configured'[t] = configured[t]
  BY <1>0, <1>1, <1>7 DEF NetTypes
<1>10. NetTypes'
  BY <1>0, <1>1, <1>8, <1>9 DEF NetTypes
<1>11. ASSUME NEW t \in Net!Types \ {type} PROVE Apart(t)
  BY <1>1, <1>8, <1>9 DEF Apart, LinksStay
<1>12. TypeInv(type)'
  <2>1. CallOf(type)'
    BY <1>7, <1>8 DEF CallOf
  <2>2. RouteOf(type)'
    BY <1>0, <1>1, <1>8 DEF RouteOf, Net!MetricForType
  <2>3. Net!Candidates(type)' = Net!Candidates(type)
    BY <1>1 DEF Net!Candidates, Net!Load
  <2>4. FoundAgain(type)'
    <3>1. CASE among # Net!Candidates(type) \cap netUp
      BY <1>9, <3>1 DEF FoundAgain
    <3>2. CASE among = Net!Candidates(type) \cap netUp
      <4>1. configured'[type] = i
        BY <1>9, <3>2
      <4>2. /\ i \in among /\ \A j \in among \cap linked : j \in overdue \/ (i \in linked /\ i <= j)
            /\ i \notin linked => \A j \in among : i <= j
        BY DEF among
      <4> QED BY <1>1, <2>3, <3>2, <4>1, <4>2 DEF FoundAgain
    <3> QED BY <3>1, <3>2
  <2> QED BY <2>1, <2>2, <2>4 DEF TypeInv
<1> QED BY <1>10, <1>11, <1>12 DEF Step

LEMMA PickSteps ==
  ASSUME NetworkInv, NEW type \in Net!Types, Net!Pick(type) PROVE Step(type)
<1>1. /\ netPc[type].at = "pick" /\ netPc[type].on \in linked /\ Net!Chosen(type, netPc[type].on)
      /\ UNCHANGED <<Net!links, Net!leases, Net!settings>>
  BY DEF Net!Pick, Net!HasCarrier
<1>2. /\ netPc[type].on \in netPc[type].among /\ netPc[type].among \subseteq Nat
      /\ \A j \in netPc[type].among \cap linked : j < netPc[type].on => j \in overdue
  BY <1>1, CallIs, KindsApart
<1>3. \A j \in netPc[type].among \cap linked : j \in overdue \/ netPc[type].on <= j
  BY <1>2
<1> QED BY <1>1, <1>2, <1>3, ChosenSteps

LEMMA CarrierTimeoutSteps ==
  ASSUME NetworkInv, NEW type \in Net!Types, Net!CarrierTimeout(type) PROVE Step(type)
<1> DEFINE among == netPc[type].among
           later == {j \in among : j > netPc[type].on}
<1>1. /\ netPc[type].at = "pick" /\ netPc[type].on \notin linked
      /\ IF later # {} THEN Net!At(type, "pick", Net!First(later)) /\ UNCHANGED configured
                       ELSE Net!Chosen(type, Net!First(among))
      /\ UNCHANGED <<Net!links, Net!leases, Net!settings>>
  BY DEF Net!CarrierTimeout, Net!HasCarrier
<1>2. /\ netPc[type].on \in among /\ among \subseteq Nat /\ among \in SUBSET Net!Interfaces
      /\ among \subseteq Net!Kind(type) /\ configured[type] = None /\ RouteOf(type) /\ NetTypes
      /\ \A j \in among \cap linked : j < netPc[type].on => j \in overdue
  BY <1>1, CallIs, KindsApart
<1>3. later \subseteq among /\ \A j \in among : j \in later \/ j <= netPc[type].on
  BY <1>2
<1>4. \A j \in among \cap linked : j \in later \/ j \in overdue
  BY <1>1, <1>2
<1>5. CASE later = {}
  <2>1. Net!First(among) \in among /\ \A j \in among : Net!First(among) <= j
    BY <1>2, FirstIsOne
  <2>2. \A j \in among \cap linked : j \in overdue
    BY <1>4, <1>5
  <2>3. Net!Chosen(type, Net!First(among))
    BY <1>1, <1>5
  <2> QED BY <1>1, <2>1, <2>2, <2>3, ChosenSteps
<1>6. CASE later # {}
  <2> DEFINE next == Net!First(later)
  <2>1. later \in SUBSET Nat
    BY <1>2, <1>3
  <2>2. next \in later /\ \A j \in later : next <= j
    BY <1>6, <2>1, FirstIsOne
  <2>3. Net!At(type, "pick", next) /\ UNCHANGED configured
    BY <1>1, <1>6
  <2> HIDE DEF later, next
  <2>4. next \in among /\ next \in Net!Interfaces
    BY <1>2, <1>3, <2>2
  <2>5. /\ netPc' \in [Net!Types -> NetCalls] /\ netPc'[type].at = "pick" /\ netPc'[type].on = next
        /\ \A t \in Net!Types \ {type} : netPc'[t] = netPc[t]
    <3>1. netPc \in [Net!Types -> NetCalls] /\ "pick" \in NetPlaces
      BY <1>2 DEF NetTypes, NetPlaces
    <3> QED BY <2>3, <2>4, <3>1, CallGoesOn
  <2>6. netPc'[type].among = among
    BY <1>2, <2>3 DEF Net!At, NetTypes, NetCalls
  <2>7. UNCHANGED <<present, netUp, linked, overdue, asking, leased, pidfile, metric, late, file>>
    BY <1>1 DEF Net!links, Net!leases, Net!settings
  <2>8. \A j \in among \cap linked : j < next => j \in overdue
    <3> SUFFICES ASSUME NEW j \in among \cap linked, j < next PROVE j \in overdue
      OBVIOUS
    <3>1. j \notin later
      BY <1>2, <2>2, <2>4
    <3> QED BY <1>4, <3>1
  <2>9. CallOf(type)'
    BY <1>2, <2>3, <2>4, <2>5, <2>6, <2>7, <2>8 DEF CallOf
  <2>10. FoundAgain(type)'
    BY <1>2, <2>3 DEF FoundAgain
  <2>11. RouteOf(type)'
    BY <1>1, <1>2, <2>5, <2>7 DEF RouteOf, Net!MetricForType
  <2>12. NetTypes'
    BY <1>2, <2>3, <2>5, <2>7 DEF NetTypes
  <2>13. \A t \in Net!Types \ {type} : Apart(t)
    BY <2>3, <2>5, <2>7 DEF Apart, LinksStay
  <2> QED BY <2>9, <2>10, <2>11, <2>12, <2>13 DEF Step, TypeInv
<1> QED BY <1>5, <1>6

\* The steps that are about clients and routes: the interface stays configured.
LEMMA RoutesStep ==
  ASSUME NetworkInv, NEW type \in Net!Types, UNCHANGED <<present, netUp, linked, overdue, configured, file>>,
         NetTypes', netPc'[type].at \notin {"pick", "down"},
         netPc'[type].at \in {"idle"} \/ netPc'[type].on \in Net!Kind(type),
         \A t \in Net!Types \ {type} : netPc'[t] = netPc[t],
         \A t \in Net!Types \ {type} : \A i \in Net!Kind(t) : metric'[i] = metric[i] /\ (i \in late' <=> i \in late),
         RouteOf(type)'
  PROVE  Step(type)
<1>1. ASSUME NEW t \in Net!Types \ {type} PROVE Apart(t)
  BY DEF Apart, LinksStay
<1>2. CallOf(type)'
  BY DEF CallOf
<1>3. FoundAgain(type)
  BY CallIs
<1>4. FoundAgain(type)'
  BY <1>3, FoundStays DEF LinksStay
<1> QED BY <1>1, <1>2, <1>4 DEF Step, TypeInv

\* While nobody saves, what is said of the settings stays.
LEMMA SettingsStay == ASSUME NetSettings, UNCHANGED <<file, tmp, saver, lastSaved>> PROVE NetSettings'
<1>1. Net!Load' = Net!Load
  BY DEF Net!Load
<1>2. \A t \in Net!Types : /\ Net!Section(saver.content, t)' = Net!Section(saver.content, t)
                           /\ Net!Section(Net!Load, t)' = Net!Section(Net!Load, t)
                           /\ Net!Section(file, t)' = Net!Section(file, t)
  BY <1>1 DEF Net!Section
<1>3. Net!SettingsWhole'
  BY <1>2 DEF NetSettings, Net!SettingsWhole
<1> QED BY <1>1, <1>2, <1>3 DEF NetSettings

LEMMA StartDhcpSteps ==
  ASSUME NetworkInv, NEW type \in Net!Types, Net!StartDhcp(type) PROVE Step(type)
<1> DEFINE i == netPc[type].on
<1>0. /\ NetTypes /\ netPc[type].at = "dhcp" /\ RouteOf(type) /\ i \in Net!Kind(type) /\ i \in Net!Interfaces
      /\ Net!Kind(type) \subseteq Net!Interfaces /\ netPc \in [Net!Types -> NetCalls] /\ "route" \in NetPlaces /\ MaxClients \in Nat
  BY CallIs, NetworkAssumption DEF Net!StartDhcp, NetTypes, NetPlaces
<1>1. /\ UNCHANGED <<present, netUp, linked, overdue, leased, metric, late, configured, file>>
      /\ \/ /\ asking[i] + leased[i] < MaxClients
            /\ asking' = [asking EXCEPT ![i] = @ + 1] /\ pidfile' = [pidfile EXCEPT ![i] = TRUE]
         \/ UNCHANGED <<asking, pidfile>>
      /\ Net!At(type, "route", i)
  BY DEF Net!StartDhcp, Net!links, Net!settings
<1>2. /\ netPc' \in [Net!Types -> NetCalls] /\ netPc'[type].at = "route" /\ netPc'[type].on = i
      /\ \A t \in Net!Types \ {type} : netPc'[t] = netPc[t]
  BY <1>0, <1>1, CallGoesOn
<1>3. /\ asking' \in [Net!Interfaces -> Nat] /\ pidfile' \in [Net!Interfaces -> BOOLEAN]
      /\ \A j \in Net!Interfaces : asking'[j] + leased[j] <= MaxClients
  <2>1. CASE UNCHANGED <<asking, pidfile>>
    BY <1>0, <2>1 DEF NetTypes
  <2>2. CASE /\ asking[i] + leased[i] < MaxClients
             /\ asking' = [asking EXCEPT ![i] = @ + 1] /\ pidfile' = [pidfile EXCEPT ![i] = TRUE]
    <3>1. pidfile' \in [Net!Interfaces -> BOOLEAN]
      BY <1>0, <2>2 DEF NetTypes
    <3>2. asking' \in [Net!Interfaces -> Nat] /\ \A j \in Net!Interfaces : asking'[j] + leased[j] <= MaxClients
      BY <1>0, <2>2 DEF NetTypes
    <3> QED BY <3>1, <3>2
  <2> QED BY <1>1, <2>1, <2>2
<1>4. NetTypes'
  BY <1>0, <1>1, <1>2, <1>3 DEF NetTypes
<1>5. RouteOf(type)'
  BY <1>0, <1>1, <1>2 DEF RouteOf, Net!MetricForType
<1>6. netPc'[type].at \notin {"pick", "down"} /\ netPc'[type].on \in Net!Kind(type)
  BY <1>0, <1>2
<1> QED BY <1>1, <1>2, <1>4, <1>5, <1>6, RoutesStep

\* A route is put or taken, and the call is elsewhere.
LEMMA RouteSteps ==
  ASSUME NetworkInv, NEW type \in Net!Types,
         Net!DeleteRoute(type) \/ Net!AddRoute(type) \/ Net!RouteTimeout(type)
           \/ \E outcome \in {"throws", "no gateway", "gateway"} : Net!ApplyStatic(type, outcome)
  PROVE  Step(type)
<1> DEFINE i == netPc[type].on
<1>0. /\ NetTypes /\ RouteOf(type) /\ i \in Net!Kind(type) /\ i \in Net!Interfaces
      /\ Net!Kind(type) \subseteq Net!Interfaces /\ netPc \in [Net!Types -> NetCalls] /\ "add" \in NetPlaces
      /\ {Net!MetricForType(type), None} \subseteq Metrics
      /\ Net!MetricForType(type) # None /\ Net!MetricForType(type) # 0 /\ None # 0
  <2>1. netPc[type].at \notin {"idle", "pick"}
    BY DEF Net!DeleteRoute, Net!AddRoute, Net!RouteTimeout, Net!ApplyStatic
  <2>2. NetTypes /\ RouteOf(type) /\ i \in Net!Kind(type) /\ Net!Kind(type) \subseteq Net!Interfaces
    BY <2>1, CallIs
  <2>3. Net!MetricForType(type) \in {100, 200} /\ Net!MetricForType(type) # None
    BY KindsApart
  <2>4. {Net!MetricForType(type), None} \subseteq Metrics
    BY <2>3 DEF Metrics
  <2>5. "add" \in NetPlaces /\ netPc \in [Net!Types -> NetCalls] /\ i \in Net!Interfaces
    BY <2>2 DEF NetTypes, NetPlaces
  <2>6. None \notin Nat /\ 0 \in Nat
    BY NetworkAssumption
  <2>7. None # 0
    BY <2>6
  <2>8. Net!MetricForType(type) # 0
    BY KindsApart
  <2> QED BY <2>2, <2>3, <2>4, <2>5, <2>7, <2>8
<1>1. UNCHANGED <<present, netUp, linked, overdue, asking, leased, pidfile, configured, file>>
  BY DEF Net!DeleteRoute, Net!AddRoute, Net!RouteTimeout, Net!ApplyStatic, Net!links, Net!leases, Net!settings
<1>2. Net!At(type, "add", i) \/ Net!Returns(type)
  BY DEF Net!DeleteRoute, Net!AddRoute, Net!RouteTimeout, Net!ApplyStatic
<1>3. /\ netPc' \in [Net!Types -> NetCalls] /\ netPc'[type].at \in {"add", "idle"}
      /\ netPc'[type].at = "idle" \/ netPc'[type].on = i
      /\ \A t \in Net!Types \ {type} : netPc'[t] = netPc[t]
  BY <1>0, <1>2, CallGoesOn
\* The route is another one, or the one there was while the call did not wait for it.
<1>4. \E m \in {None, Net!MetricForType(type), metric[i]} :
        /\ metric' = [metric EXCEPT ![i] = m]
        /\ late' = late \/ (late' = late \ {i} /\ m \in {None, Net!MetricForType(type)})
        /\ m \in {None, Net!MetricForType(type)} \/ netPc[type].at # "route"
  <2>1. metric = [metric EXCEPT ![i] = metric[i]]
    BY <1>0 DEF NetTypes
  <2>2. CASE Net!DeleteRoute(type)
    BY <2>2 DEF Net!DeleteRoute
  <2>3. CASE Net!AddRoute(type)
    BY <2>3 DEF Net!AddRoute
  <2>4. CASE Net!RouteTimeout(type)
    BY <2>1, <2>4 DEF Net!RouteTimeout, Net!leases
  <2>5. CASE \E outcome \in {"throws", "no gateway", "gateway"} : Net!ApplyStatic(type, outcome)
    <3>1. PICK outcome \in {"throws", "no gateway", "gateway"} : Net!ApplyStatic(type, outcome)
      BY <2>5
    <3>2. CASE outcome = "throws"
      BY <3>1, <3>2 DEF Net!ApplyStatic
    <3>3. CASE outcome # "throws"
      BY <3>1, <3>3 DEF Net!ApplyStatic
    <3> QED BY <3>2, <3>3
  <2> QED BY <2>2, <2>3, <2>4, <2>5
<1>5. PICK m \in {None, Net!MetricForType(type), metric[i]} :
        /\ metric' = [metric EXCEPT ![i] = m]
        /\ late' = late \/ (late' = late \ {i} /\ m \in {None, Net!MetricForType(type)})
        /\ m \in {None, Net!MetricForType(type)} \/ netPc[type].at # "route"
  BY <1>4
<1>6. m \in Metrics
  <2>1. metric[i] \in Metrics
    BY <1>0 DEF NetTypes
  <2> QED BY <1>0, <1>5, <2>1
<1>7. /\ metric' \in [Net!Interfaces -> Metrics] /\ metric'[i] = m
      /\ \A j \in Net!Interfaces \ {i} : metric'[j] = metric[j]
  BY <1>0, <1>5, <1>6 DEF NetTypes
<1>8. NetTypes'
  BY <1>0, <1>1, <1>3, <1>7 DEF NetTypes
<1>9. RouteOf(type)'
  <2> SUFFICES ASSUME NEW j \in Net!Kind(type)
               PROVE  /\ metric'[j] \in {None, 0, Net!MetricForType(type)}
                      /\ metric'[j] = 0 => j \in late'
    BY DEF RouteOf, Net!MetricForType
  <2>1. /\ metric[j] \in {None, 0, Net!MetricForType(type)}
        /\ metric[j] = 0 => j \in late \/ (netPc[type].at = "route" /\ i = j)
    BY <1>0 DEF RouteOf
  <2>2. CASE j # i
    BY <1>0, <1>5, <1>7, <2>1, <2>2
  <2>3. CASE j = i
    BY <1>0, <1>5, <1>7, <2>1, <2>3
  <2> QED BY <2>2, <2>3
<1>10. ASSUME NEW t \in Net!Types \ {type}, NEW j \in Net!Kind(t)
       PROVE  metric'[j] = metric[j] /\ (j \in late' <=> j \in late)
  <2>1. j # i /\ j \in Net!Interfaces
    BY <1>0, Others
  <2> QED BY <1>5, <1>7, <2>1
<1>11. netPc'[type].at \in {"idle"} \/ netPc'[type].on \in Net!Kind(type)
  BY <1>0, <1>3
<1> QED BY <1>1, <1>3, <1>8, <1>9, <1>10, <1>11, RoutesStep

\* A client that is stopped is one fewer, and the file does not name it any more.
LEMMA StopType ==
  ASSUME NetTypes, NEW i \in Net!Interfaces, Net!StopDhcp(i)
  PROVE  /\ asking' \in [Net!Interfaces -> Nat] /\ leased' \in [Net!Interfaces -> Nat]
         /\ pidfile' \in [Net!Interfaces -> BOOLEAN]
         /\ \A j \in Net!Interfaces : asking'[j] + leased'[j] <= MaxClients
<1>0. /\ asking \in [Net!Interfaces -> Nat] /\ leased \in [Net!Interfaces -> Nat] /\ MaxClients \in Nat
      /\ \A j \in Net!Interfaces : asking[j] + leased[j] <= MaxClients
  BY NetworkAssumption DEF NetTypes
<1>1. pidfile' \in [Net!Interfaces -> BOOLEAN]
  BY DEF Net!StopDhcp, NetTypes
<1>2. \/ asking[i] > 0 /\ asking' = [asking EXCEPT ![i] = @ - 1] /\ leased' = leased
      \/ leased[i] > 0 /\ leased' = [leased EXCEPT ![i] = @ - 1] /\ asking' = asking
      \/ asking' = asking /\ leased' = leased
  BY DEF Net!StopDhcp
<1>3. CASE asking[i] > 0 /\ asking' = [asking EXCEPT ![i] = @ - 1] /\ leased' = leased
  BY <1>0, <1>1, <1>3
<1>4. CASE leased[i] > 0 /\ leased' = [leased EXCEPT ![i] = @ - 1] /\ asking' = asking
  BY <1>0, <1>1, <1>4
<1>5. CASE asking' = asking /\ leased' = leased
  BY <1>0, <1>1, <1>5
<1> QED BY <1>2, <1>3, <1>4, <1>5

LEMMA DisableSteps ==
  ASSUME NetworkInv, NEW type \in Net!Types, Net!Disable(type) PROVE Step(type)
<1>0. /\ NetTypes /\ RouteOf(type) /\ netPc[type] = Net!Idle /\ netPc \in [Net!Types -> NetCalls]
      /\ Net!Name(type) \in Net!Kind(type) /\ Net!Name(type) \in Net!Interfaces /\ "down" \in NetPlaces
  BY CallIs, NameIsOne DEF Net!Disable, NetTypes, NetPlaces
<1>1. /\ UNCHANGED <<present, netUp, linked, overdue, metric, late>> /\ Net!StopDhcp(Net!Name(type))
      /\ configured' = [configured EXCEPT ![type] = None] /\ Net!At(type, "down", Net!Name(type))
  BY DEF Net!Disable, Net!links
<1>2. /\ netPc' \in [Net!Types -> NetCalls] /\ netPc'[type].at = "down" /\ netPc'[type].on = Net!Name(type)
      /\ \A t \in Net!Types \ {type} : netPc'[t] = netPc[t]
  BY <1>0, <1>1, CallGoesOn
<1>3. /\ configured' \in [Net!Types -> Net!Interfaces \cup {None}] /\ configured'[type] = None
      /\ \A t \in Net!Types \ {type} : configured'[t] = configured[t]
  BY <1>0, <1>1 DEF NetTypes
<1>4. NetTypes'
  BY <1>0, <1>1, <1>2, <1>3, StopType DEF NetTypes
<1>5. ASSUME NEW t \in Net!Types \ {type} PROVE Apart(t)
  BY <1>1, <1>2, <1>3 DEF Apart, LinksStay
<1>6. CallOf(type)' /\ FoundAgain(type)'
  BY <1>0, <1>2, <1>3 DEF CallOf, FoundAgain
<1>7. netPc[type].at = "idle"
  BY <1>0 DEF Net!Idle
<1>8. RouteOf(type)'
  BY <1>0, <1>1, <1>7 DEF RouteOf, Net!MetricForType
<1> QED BY <1>4, <1>5, <1>6, <1>8 DEF Step, TypeInv

LEMMA LinkDownSteps ==
  ASSUME NetworkInv, NEW type \in Net!Types, Net!LinkDown(type) PROVE Step(type)
<1> DEFINE i == netPc[type].on
<1>0. /\ NetTypes /\ RouteOf(type) /\ netPc \in [Net!Types -> NetCalls] /\ i \in Net!Kind(type) /\ i \in Net!Interfaces
      /\ "down" \in NetPlaces /\ configured[type] = None /\ Net!Kind(type) \subseteq Net!Interfaces /\ netPc[type].at = "down"
      /\ None \in Metrics /\ None # 0
  <2>1. None \in Metrics /\ None # 0
    <3>1. None \notin Nat /\ 0 \in Nat
      BY NetworkAssumption
    <3> QED BY <3>1 DEF Metrics
  <2> QED BY <2>1, CallIs DEF Net!LinkDown, NetTypes, NetPlaces
<1>1. /\ UNCHANGED <<present, asking, leased, pidfile, configured>> /\ Net!Returns(type)
      /\ netUp' = netUp \ {i} /\ linked' = linked \ {i} /\ overdue' = overdue \ {i} /\ late' = late \ {i}
      /\ metric' = [metric EXCEPT ![i] = None]
  BY DEF Net!LinkDown
<1>2. /\ netPc' \in [Net!Types -> NetCalls] /\ netPc'[type].at = "idle"
      /\ \A t \in Net!Types \ {type} : netPc'[t] = netPc[t]
  BY <1>0, <1>1, CallGoesOn
<1>3. /\ metric' \in [Net!Interfaces -> Metrics] /\ metric'[i] = None
      /\ \A j \in Net!Interfaces \ {i} : metric'[j] = metric[j]
  BY <1>0, <1>1 DEF NetTypes
<1>4. NetTypes'
  BY <1>0, <1>1, <1>2, <1>3 DEF NetTypes
<1>5. ASSUME NEW t \in Net!Types \ {type} PROVE Apart(t)
  <2>1. \A j \in Net!Kind(t) : j # i /\ j \in Net!Interfaces
    BY <1>0, Others
  <2> QED BY <1>1, <1>2, <1>3, <2>1 DEF Apart, LinksStay
<1>6. CallOf(type)' /\ FoundAgain(type)'
  BY <1>0, <1>1, <1>2 DEF CallOf, FoundAgain
<1>8. RouteOf(type)'
  <2> SUFFICES ASSUME NEW j \in Net!Kind(type)
               PROVE  /\ metric'[j] \in {None, 0, Net!MetricForType(type)}
                      /\ metric'[j] = 0 => j \in late'
    BY DEF RouteOf, Net!MetricForType
  <2>1. CASE j # i
    BY <1>0, <1>1, <1>3, <2>1 DEF RouteOf
  <2>2. CASE j = i
    BY <1>0, <1>3, <2>2
  <2> QED BY <2>1, <2>2
<1> QED BY <1>4, <1>5, <1>6, <1>8 DEF Step, TypeInv

\* Whichever step it is, the whole invariant stays.
LEMMA TypeStepKeeps ==
  ASSUME NetworkInv, NEW type \in Net!Types, Net!TypeStep(type) PROVE NetworkInv'
<1>1. Step(type)
  BY EnableSteps, PickSteps, CarrierTimeoutSteps, StartDhcpSteps, RouteSteps, DisableSteps, LinkDownSteps
     DEF Net!TypeStep, NetworkInv
<1>2. UNCHANGED <<present, file, tmp, saver, lastSaved>>
  BY DEF Net!TypeStep, Net!Enable, Net!Pick, Net!CarrierTimeout, Net!StartDhcp, Net!DeleteRoute, Net!AddRoute,
     Net!RouteTimeout, Net!Disable, Net!LinkDown, Net!ApplyStatic, Net!links, Net!leases, Net!settings
<1>3. NetSettings'
  BY <1>2, SettingsStay DEF NetworkInv
<1>4. \A t \in Net!Types \ {type} : TypeInv(t)'
  BY <1>1, <1>2, OtherStays DEF Step
<1> QED BY <1>1, <1>3, <1>4 DEF NetworkInv, TypeInv, Step

-----------------------------------------------------------------------------
(* The world and the settings.                                             *)

\* With nothing configured any more, only the calls and the routes matter.
LEMMA NothingConfigured ==
  ASSUME NetworkInv, NEW type \in Net!Types, netPc' = netPc, configured' = [t \in Net!Types |-> None],
         \A i \in Net!Kind(type) : i \in linked' => i \in linked /\ (i \in overdue => i \in overdue'),
         \A i \in Net!Kind(type) : \/ metric'[i] = None /\ None # 0
                                   \/ metric'[i] = metric[i] /\ (i \in late => i \in late')
  PROVE  TypeInv(type)'
<1>0. CallOf(type) /\ RouteOf(type)
  BY DEF NetworkInv
<1>1. CallOf(type)'
  BY <1>0 DEF CallOf
<1>2. FoundAgain(type)'
  BY DEF FoundAgain
<1>3. RouteOf(type)'
  <2> SUFFICES ASSUME NEW i \in Net!Kind(type)
               PROVE  /\ metric'[i] \in {None, 0, Net!MetricForType(type)}
                      /\ metric'[i] = 0 => i \in late' \/ (netPc[type].at = "route" /\ netPc[type].on = i)
    BY DEF RouteOf, Net!MetricForType
  <2> QED BY <1>0 DEF RouteOf
<1> QED BY <1>1, <1>2, <1>3 DEF TypeInv

LEMMA WorldKeeps ==
  ASSUME NetworkInv, NEW i \in Net!Interfaces, Net!Cable(i) \/ Net!Plug(i) \/ Net!Unplug(i) PROVE NetworkInv'
<1>0. NetTypes /\ NetSettings /\ MaxClients \in Nat /\ None \in Metrics /\ None # 0
  <2>1. None \notin Nat /\ 0 \in Nat
    BY NetworkAssumption
  <2> QED BY <2>1, NetworkAssumption DEF NetworkInv, Metrics
<1>1. /\ UNCHANGED <<netPc, file, tmp, saver, lastSaved>> /\ configured' = [t \in Net!Types |-> None]
  BY DEF Net!Cable, Net!Plug, Net!Unplug, Net!leases, Net!settings
<1>2. \/ metric' = metric /\ late' = late /\ overdue' = overdue /\ linked' \subseteq linked
      \/ /\ metric' = [metric EXCEPT ![i] = None] /\ late' = late \ {i}
         /\ overdue' = overdue \ {i} /\ linked' = linked \ {i}
  BY DEF Net!Cable, Net!Plug, Net!Unplug, Net!leases
<1>3. NetTypes'
  <2>1. CASE Net!Cable(i)
    <3>1. /\ UNCHANGED <<present, netUp, asking, leased, pidfile, metric>>
          /\ linked' = linked \ {i}
      BY <2>1 DEF Net!Cable, Net!leases
    <3> QED BY <1>0, <1>1, <3>1 DEF NetTypes
  <2>2. CASE Net!Plug(i)
    BY <1>0, <1>1, <2>2 DEF Net!Plug, Net!leases, NetTypes
  <2>3. CASE Net!Unplug(i)
    <3>1. present' \subseteq Net!Interfaces /\ netUp' \subseteq present' /\ linked' \subseteq netUp'
      BY <1>0, <2>3 DEF Net!Unplug, NetTypes
    <3>2. /\ asking' \in [Net!Interfaces -> Nat] /\ leased' \in [Net!Interfaces -> Nat]
          /\ \A j \in Net!Interfaces : asking'[j] + leased'[j] <= MaxClients
      BY <1>0, <2>3 DEF Net!Unplug, NetTypes
    <3>3. pidfile' \in [Net!Interfaces -> BOOLEAN] /\ metric' \in [Net!Interfaces -> Metrics]
      BY <1>0, <2>3 DEF Net!Unplug, NetTypes
    <3> QED BY <1>0, <1>1, <3>1, <3>2, <3>3 DEF NetTypes
  <2> QED BY <2>1, <2>2, <2>3
<1>4. NetSettings'
  BY <1>0, <1>1, SettingsStay
<1>5. ASSUME NEW type \in Net!Types PROVE TypeInv(type)'
  <2>1. \A j \in Net!Kind(type) : j \in linked' => j \in linked /\ (j \in overdue => j \in overdue')
    BY <1>2
  <2>2. \A j \in Net!Kind(type) : \/ metric'[j] = None /\ None # 0
                                  \/ metric'[j] = metric[j] /\ (j \in late => j \in late')
    BY <1>0, <1>2, KindsApart DEF NetTypes
  <2> QED BY <1>1, <2>1, <2>2, NothingConfigured
<1> QED BY <1>3, <1>4, <1>5 DEF NetworkInv, TypeInv

\* A carrier comes while Enable waits for it, or is overdue.
LEMMA NegotiatesKeeps ==
  ASSUME NetworkInv, NEW i \in Net!Interfaces, Net!Negotiates(i) PROVE NetworkInv'
<1>0. NetTypes /\ NetSettings
  BY DEF NetworkInv
<1>1. /\ UNCHANGED <<present, netUp, asking, leased, pidfile, metric, late, netPc, configured>>
      /\ UNCHANGED <<file, tmp, saver, lastSaved>>
      /\ i \in netUp \ linked /\ linked' = linked \cup {i}
      /\ overdue' = IF \E t \in Net!Types : Net!Awaited(t, i) THEN overdue ELSE overdue \cup {i}
  BY DEF Net!Negotiates, Net!leases, Net!settings
<1>2. NetTypes'
  BY <1>0, <1>1 DEF NetTypes
<1>3. NetSettings'
  BY <1>0, <1>1, SettingsStay
<1>4. ASSUME NEW type \in Net!Types PROVE TypeInv(type)'
  <2>0. CallOf(type) /\ FoundAgain(type) /\ RouteOf(type) /\ overdue \subseteq overdue'
    BY <1>1 DEF NetworkInv
  <2>1. ASSUME i \in Net!Kind(type), i \notin overdue' PROVE Net!Awaited(type, i)
    <3>1. PICK t \in Net!Types : Net!Awaited(t, i)
      BY <1>1, <2>1
    <3>2. i \in Net!Kind(t)
      BY <3>1 DEF Net!Awaited, NetworkInv, CallOf
    <3> QED BY <2>1, <3>1, <3>2, KindsApart
  <2>2. CallOf(type)'
    <3> SUFFICES ASSUME netPc[type].at = "pick", NEW j \in netPc[type].among, j \in linked', j < netPc[type].on
                 PROVE  j \in overdue'
      BY <1>1, <2>0 DEF CallOf
    <3>1. CASE j # i
      BY <1>1, <2>0, <3>1 DEF CallOf
    <3>2. CASE j = i
      <4>1. i \in Net!Kind(type) /\ i \in Nat /\ netPc[type].on \in Nat
        BY <2>0, <3>2, KindsApart DEF CallOf
      <4>2. ~(netPc[type].on <= i)
        BY <3>2, <4>1
      <4> QED BY <2>1, <3>2, <4>1, <4>2 DEF Net!Awaited
    <3> QED BY <3>1, <3>2
  <2>3. FoundAgain(type)'
    <3> SUFFICES ASSUME configured[type] # None PROVE FoundAgain(type)'
      BY <1>1 DEF FoundAgain
    <3>1. ~Net!Awaited(type, i)
      BY <2>0 DEF Net!Awaited, CallOf
    <3>2. i \in Net!Kind(type) => i \in overdue'
      BY <2>1, <3>1
    <3>3. Net!Candidates(type)' = Net!Candidates(type) /\ Net!Candidates(type) \subseteq Net!Kind(type)
      BY <1>1 DEF Net!Candidates, Net!Load
    <3> QED BY <1>1, <2>0, <3>2, <3>3 DEF FoundAgain
  <2>4. RouteOf(type)'
    BY <1>1, <2>0 DEF RouteOf, Net!MetricForType
  <2> QED BY <2>2, <2>3, <2>4 DEF TypeInv
<1> QED BY <1>2, <1>3, <1>4 DEF NetworkInv, TypeInv

\* A client's route is put where Enable waits for it, or it is late.
LEMMA RouteIsPut ==
  ASSUME NetworkInv, NEW i \in Net!Interfaces, Net!PutsRoute(i),
         UNCHANGED <<present, netUp, linked, overdue, pidfile, netPc, configured, file, tmp, saver, lastSaved>>,
         asking' \in [Net!Interfaces -> Nat], leased' \in [Net!Interfaces -> Nat],
         \A j \in Net!Interfaces : asking'[j] + leased'[j] <= MaxClients
  PROVE  NetworkInv'
<1>0. NetTypes /\ NetSettings /\ 0 \in Metrics
  BY DEF NetworkInv, Metrics
<1>1. /\ metric' = [metric EXCEPT ![i] = 0]
      /\ late' = IF \E t \in Net!Types : netPc[t].at = "route" /\ netPc[t].on = i THEN late ELSE late \cup {i}
  BY DEF Net!PutsRoute
<1>3. metric' \in [Net!Interfaces -> Metrics] /\ metric'[i] = 0 /\ \A j \in Net!Interfaces \ {i} : metric'[j] = metric[j]
  BY <1>0, <1>1 DEF NetTypes
<1>5. NetTypes'
  BY <1>0, <1>3 DEF NetTypes
<1>6. NetSettings'
  BY <1>0, SettingsStay
<1>7. ASSUME NEW type \in Net!Types PROVE TypeInv(type)'
  <2>0. CallOf(type) /\ FoundAgain(type) /\ RouteOf(type)
    BY DEF NetworkInv
  <2>1. CallOf(type)'
    BY <2>0 DEF CallOf
  <2>3. FoundAgain(type)'
    BY <2>0, FoundStays DEF LinksStay
  <2>4. RouteOf(type)'
    <3> SUFFICES ASSUME NEW j \in Net!Kind(type)
                 PROVE  /\ metric'[j] \in {None, 0, Net!MetricForType(type)}
                        /\ metric'[j] = 0 => j \in late' \/ (netPc[type].at = "route" /\ netPc[type].on = j)
      BY DEF RouteOf, Net!MetricForType
    <3>4. CASE j = i
      <4>1. CASE \E t \in Net!Types : netPc[t].at = "route" /\ netPc[t].on = i
        <5>1. PICK t \in Net!Types : netPc[t].at = "route" /\ netPc[t].on = i
          BY <4>1
        <5>2. i \in Net!Kind(t)
          BY <5>1 DEF NetworkInv, CallOf
        <5>3. t = type
          BY <3>4, <5>2, KindsApart
        <5> QED BY <1>3, <3>4, <5>1, <5>3
      <4>2. CASE ~\E t \in Net!Types : netPc[t].at = "route" /\ netPc[t].on = i
        <5>1. i \in late'
          BY <1>1, <4>2
        <5> QED BY <1>3, <3>4, <5>1
      <4> QED BY <4>1, <4>2
    <3>5. CASE j # i
      <4>1. j \in Net!Interfaces /\ late \subseteq late'
        BY <1>1, KindsApart
      <4> QED BY <1>3, <2>0, <3>5, <4>1 DEF RouteOf
    <3> QED BY <3>4, <3>5
  <2> QED BY <2>1, <2>3, <2>4 DEF TypeInv
<1> QED BY <1>5, <1>6, <1>7 DEF NetworkInv, TypeInv

LEMMA AnswerKeeps ==
  ASSUME NetworkInv, NEW i \in Net!Interfaces, Net!Answer(i) PROVE NetworkInv'
<1>1. NetTypes
  BY DEF NetworkInv
<1>2. /\ asking[i] > 0 /\ Net!PutsRoute(i)
      /\ asking' = [asking EXCEPT ![i] = @ - 1] /\ leased' = [leased EXCEPT ![i] = @ + 1]
      /\ UNCHANGED <<present, netUp, linked, overdue, pidfile, netPc, configured, file, tmp, saver, lastSaved>>
  BY DEF Net!Answer, Net!links, Net!settings
<1>3. /\ asking' \in [Net!Interfaces -> Nat] /\ leased' \in [Net!Interfaces -> Nat]
      /\ \A j \in Net!Interfaces : asking'[j] + leased'[j] <= MaxClients
  BY <1>1, <1>2, NetworkAssumption DEF NetTypes
<1> QED BY <1>2, <1>3, RouteIsPut

LEMMA RenewsKeeps ==
  ASSUME NetworkInv, NEW i \in Net!Interfaces, Net!Renews(i) PROVE NetworkInv'
<1>1. NetTypes
  BY DEF NetworkInv
<1>2. /\ Net!PutsRoute(i) /\ UNCHANGED <<asking, leased>>
      /\ UNCHANGED <<present, netUp, linked, overdue, pidfile, netPc, configured, file, tmp, saver, lastSaved>>
  BY DEF Net!Renews, Net!links, Net!settings
<1>3. /\ asking' \in [Net!Interfaces -> Nat] /\ leased' \in [Net!Interfaces -> Nat]
      /\ \A j \in Net!Interfaces : asking'[j] + leased'[j] <= MaxClients
  BY <1>1, <1>2 DEF NetTypes
<1> QED BY <1>2, <1>3, RouteIsPut

\* What can be read, and what is written instead of it
LEMMA ContentsAre ==
  ASSUME NetSettings
  PROVE  /\ Net!Defaults \in Contents /\ Net!Torn \in Contents /\ Net!Load \in Contents /\ Net!Load.whole
         /\ Net!NoSaver \in [at : {"idle", "write", "rename"}, content : Contents, type : Net!Types \cup {None}]
         /\ Net!NoSaver.at = "idle"
<1>1. Net!Defaults \in Contents /\ Net!Defaults.whole
  BY DEF Net!Defaults, Contents, Net!Content
<1>2. Net!Torn \in Contents
  BY DEF Net!Torn, Net!Defaults, Contents, Net!Content
<1>3. Net!Load \in Contents /\ Net!Load.whole
  BY <1>1 DEF Net!Load, NetSettings
<1>4. Net!NoSaver.at = "idle" /\ Net!NoSaver = [at |-> "idle", content |-> Net!Defaults, type |-> None]
  BY DEF Net!NoSaver
<1> QED BY <1>1, <1>2, <1>3, <1>4

LEMMA SetKeeps ==
  ASSUME NetSettings, NEW wish \in NetworkSettings, Net!SetInterfaceSettings(wish) PROVE NetSettings'
<1> DEFINE new == [Net!Load EXCEPT !.dhcp[wish.type] = wish.dhcp, !.mac[wish.type] = wish.mac]
<1>1. wish.type \in Net!Types /\ wish.dhcp \in BOOLEAN /\ wish.mac \in Net!Interfaces \cup {None}
  BY NetworkAssumption DEF Net!Types, Net!Interfaces
<1>2. PICK opens \in BOOLEAN :
        /\ tmp' = IF opens THEN Net!Torn ELSE tmp
        /\ saver' = [at |-> IF opens THEN "write" ELSE "rename", type |-> wish.type, content |-> new]
  BY DEF Net!SetInterfaceSettings
<1>3. file' = file /\ lastSaved' = lastSaved
  BY DEF Net!SetInterfaceSettings
<1>4. /\ new \in Contents /\ new.whole
      /\ \A t \in Net!Types \ {wish.type} : Net!Section(new, t) = Net!Section(Net!Load, t)
  BY <1>1, ContentsAre DEF Contents, Net!Section
<1> HIDE DEF new
<1>5. tmp' \in Contents \cup {None}
  BY <1>2, ContentsAre DEF NetSettings
<1>6. Net!Load' = Net!Load
  BY <1>3 DEF Net!Load
<1>7. saver' \in [at : {"idle", "write", "rename"}, content : Contents, type : Net!Types \cup {None}]
  BY <1>1, <1>2, <1>4
<1>8. saver'.type = wish.type /\ saver'.content = new
  BY <1>2
<1>9. \A t \in Net!Types \ {saver'.type} : Net!Section(saver.content, t)' = Net!Section(Net!Load, t)'
  BY <1>4, <1>6, <1>8 DEF Net!Section
<1>10. Net!SettingsWhole'
  BY <1>3 DEF NetSettings, Net!SettingsWhole, Net!Section
<1> QED BY <1>1, <1>3, <1>4, <1>5, <1>7, <1>8, <1>9, <1>10 DEF NetSettings

LEMMA WriteKeeps == ASSUME NetSettings, Net!Write PROVE NetSettings'
<1>1. /\ saver.at = "write" /\ saver' = [saver EXCEPT !.at = "rename"] /\ tmp' \in {saver.content, Net!Torn}
      /\ file' = file /\ lastSaved' = lastSaved
  BY DEF Net!Write
<1>2. saver \in [at : {"idle", "write", "rename"}, content : Contents, type : Net!Types \cup {None}]
  BY DEF NetSettings
<1>3. /\ saver' \in [at : {"idle", "write", "rename"}, content : Contents, type : Net!Types \cup {None}]
      /\ saver'.content = saver.content /\ saver'.type = saver.type
  BY <1>1, <1>2
<1>4. tmp' \in Contents \cup {None}
  BY <1>1, <1>2, ContentsAre
<1>5. Net!Load' = Net!Load
  BY <1>1 DEF Net!Load
<1>6. /\ saver.type \in Net!Types /\ saver.content.whole
      /\ \A t \in Net!Types \ {saver.type} : Net!Section(saver.content, t) = Net!Section(Net!Load, t)
  BY <1>1 DEF NetSettings
<1>7. \A t \in Net!Types \ {saver'.type} : Net!Section(saver.content, t)' = Net!Section(Net!Load, t)'
  BY <1>3, <1>5, <1>6 DEF Net!Section
<1>8. Net!SettingsWhole'
  BY <1>1 DEF NetSettings, Net!SettingsWhole, Net!Section
<1> QED BY <1>1, <1>3, <1>4, <1>6, <1>7, <1>8 DEF NetSettings

\* The file is what was to be saved, and then the others' sections are those that
\* it had; or nothing that was saved is left.
LEMMA RenameKeeps == ASSUME NetSettings, Net!Rename PROVE NetSettings'
<1>1. /\ saver.at = "rename" /\ tmp # None /\ file' = tmp /\ tmp' = None /\ saver' = Net!NoSaver
      /\ lastSaved' = IF tmp = saver.content
                      THEN [lastSaved EXCEPT ![saver.type] = Net!Section(saver.content, saver.type)]
                      ELSE [t \in Net!Types |-> None]
  BY DEF Net!Rename
<1>2. /\ saver.type \in Net!Types /\ saver.content.whole /\ saver.content \in Contents
      /\ \A t \in Net!Types \ {saver.type} : Net!Section(saver.content, t) = Net!Section(Net!Load, t)
      /\ lastSaved \in [Net!Types -> Sections \cup {None}] /\ Net!SettingsWhole
  BY <1>1 DEF NetSettings
<1>3. file' \in Contents
  BY <1>1 DEF NetSettings
<1>4. saver' \in [at : {"idle", "write", "rename"}, content : Contents, type : Net!Types \cup {None}] /\ saver'.at = "idle"
  BY <1>1, ContentsAre
<1>5. CASE tmp = saver.content
  <2>1. Net!Section(saver.content, saver.type) \in Sections
    BY <1>2 DEF Net!Section, Sections, Contents
  <2>2. /\ lastSaved' \in [Net!Types -> Sections \cup {None}]
        /\ lastSaved'[saver.type] = Net!Section(saver.content, saver.type)
        /\ \A t \in Net!Types \ {saver.type} : lastSaved'[t] = lastSaved[t]
    BY <1>1, <1>2, <1>5, <2>1
  <2>3. file' = saver.content
    BY <1>1, <1>5
  <2>4. \A t \in Net!Types : Net!Section(file, t)' = Net!Section(saver.content, t)
    BY <2>3 DEF Net!Section
  <2>5. ASSUME NEW t \in Net!Types, lastSaved'[t] # None PROVE file'.whole /\ Net!Section(file, t)' = lastSaved'[t]
    <3>1. CASE t = saver.type
      BY <1>2, <2>2, <2>3, <2>4, <3>1
    <3>2. CASE t # saver.type
      <4>1. lastSaved[t] # None
        BY <2>2, <2>5, <3>2
      <4>2. file.whole /\ Net!Section(file, t) = lastSaved[t]
        BY <1>2, <4>1 DEF Net!SettingsWhole
      <4>3. Net!Load = file
        BY <4>2 DEF Net!Load
      <4> QED BY <1>2, <2>2, <2>3, <2>4, <3>2, <4>2, <4>3
    <3> QED BY <3>1, <3>2
  <2> QED BY <1>1, <1>3, <1>4, <2>2, <2>5 DEF NetSettings, Net!SettingsWhole
<1>6. CASE tmp # saver.content
  <2>1. lastSaved' = [t \in Net!Types |-> None]
    BY <1>1, <1>6
  <2> QED BY <1>1, <1>3, <1>4, <2>1 DEF NetSettings, Net!SettingsWhole
<1> QED BY <1>5, <1>6

LEMMA EndKeeps == ASSUME NetSettings, Net!RenameFails \/ Net!Crash PROVE NetSettings'
<1>1. saver' = Net!NoSaver /\ tmp' \in {tmp, None} /\ file' = file /\ lastSaved' = lastSaved
  BY DEF Net!RenameFails, Net!Crash
<1>2. saver' \in [at : {"idle", "write", "rename"}, content : Contents, type : Net!Types \cup {None}] /\ saver'.at = "idle"
  BY <1>1, ContentsAre
<1>3. Net!SettingsWhole'
  BY <1>1 DEF NetSettings, Net!SettingsWhole, Net!Section
<1>4. tmp' \in Contents \cup {None}
  BY <1>1 DEF NetSettings
<1> QED BY <1>1, <1>2, <1>3, <1>4 DEF NetSettings

LEMMA SettingsKeeps ==
  ASSUME NetworkInv,
         \/ \E wish \in NetworkSettings : Net!SetInterfaceSettings(wish)
         \/ Net!Write \/ Net!Rename \/ Net!RenameFails \/ Net!Crash
  PROVE  NetworkInv'
<1>0. NetTypes /\ NetSettings
  BY DEF NetworkInv
<1>1. UNCHANGED <<present, netUp, linked, overdue, asking, leased, pidfile, metric, late, netPc>>
  BY DEF Net!SetInterfaceSettings, Net!Write, Net!Rename, Net!RenameFails, Net!Crash, Net!links, Net!leases
<1>2. UNCHANGED <<configured, file>> \/ configured' = [t \in Net!Types |-> None]
  BY DEF Net!SetInterfaceSettings, Net!Write, Net!Rename, Net!RenameFails, Net!Crash
<1>3. NetSettings'
  BY <1>0, SetKeeps, WriteKeeps, RenameKeeps, EndKeeps
<1>4. NetTypes'
  <2>1. configured' \in [Net!Types -> Net!Interfaces \cup {None}]
    BY <1>0, <1>2 DEF NetTypes
  <2> QED BY <1>0, <1>1, <2>1 DEF NetTypes
<1>5. ASSUME NEW type \in Net!Types PROVE TypeInv(type)'
  <2>1. CASE UNCHANGED <<configured, file>>
    BY <1>1, <2>1, OtherStays DEF Apart, LinksStay
  <2>2. CASE configured' = [t \in Net!Types |-> None]
    BY <1>1, <2>2, NothingConfigured
  <2> QED BY <1>2, <2>1, <2>2
<1> QED BY <1>3, <1>4, <1>5 DEF NetworkInv, TypeInv

-----------------------------------------------------------------------------
LEMMA NetworkBegins == Net!Init => NetworkInv
<1> SUFFICES ASSUME Net!Init PROVE NetworkInv
  OBVIOUS
<1>0. 0 \in Nat /\ MaxClients \in Nat /\ None \in Metrics /\ None # 0
  <2>1. None \notin Nat /\ 0 \in Nat
    BY NetworkAssumption
  <2> QED BY <2>1, NetworkAssumption DEF Metrics
<1>1. Net!Idle \in NetCalls /\ Net!Idle.at = "idle"
  BY DEF Net!Idle, NetCalls, NetPlaces
<1>2. NetTypes
  <2>1. present \subseteq Net!Interfaces /\ netUp \subseteq present /\ linked \subseteq netUp
    BY DEF Net!Init
  <2>2. /\ asking \in [Net!Interfaces -> Nat] /\ leased \in [Net!Interfaces -> Nat]
        /\ \A i \in Net!Interfaces : asking[i] + leased[i] <= MaxClients
    BY <1>0 DEF Net!Init
  <2> QED BY <1>0, <1>1, <2>1, <2>2 DEF Net!Init, NetTypes
<1>3. NetSettings
  <2>1. Net!Defaults \in Contents
    BY DEF Net!Defaults, Contents, Net!Content
  <2>2. Net!Torn \in Contents
    BY DEF Net!Torn, Net!Defaults, Contents, Net!Content
  <2>3. /\ file \in Contents /\ tmp = None /\ saver = Net!NoSaver
        /\ lastSaved = [t \in Net!Types |-> IF file.whole THEN Net!Section(file, t) ELSE None]
    BY <2>1, <2>2 DEF Net!Init
  <2>4. \A t \in Net!Types : Net!Section(file, t) \in Sections
    BY <2>3 DEF Net!Section, Sections, Contents
  <2>5. /\ saver.at = "idle"
        /\ saver \in [at : {"idle", "write", "rename"}, content : Contents, type : Net!Types \cup {None}]
    BY <2>1, <2>3 DEF Net!NoSaver
  <2>6. Net!SettingsWhole
    BY <2>3 DEF Net!SettingsWhole
  <2>7. lastSaved \in [Net!Types -> Sections \cup {None}]
    BY <2>3, <2>4
  <2> QED BY <2>3, <2>5, <2>6, <2>7 DEF NetSettings
<1>4. ASSUME NEW type \in Net!Types PROVE TypeInv(type)
  <2>1. CallOf(type) /\ FoundAgain(type)
    BY <1>1 DEF Net!Init, CallOf, FoundAgain
  <2>2. RouteOf(type)
    BY <1>0, KindsApart DEF Net!Init, RouteOf
  <2> QED BY <2>1, <2>2 DEF TypeInv
<1> QED BY <1>2, <1>3, <1>4 DEF NetworkInv, TypeInv

LEMMA NetworkKeeps == ASSUME NetworkInv, [Net!Next]_networkVars PROVE NetworkInv'
<1>1. ASSUME NEW i \in Net!Interfaces, Net!Cable(i) \/ Net!Plug(i) \/ Net!Unplug(i) PROVE NetworkInv'
  BY <1>1, WorldKeeps
<1>2. ASSUME NEW i \in Net!Interfaces, Net!Negotiates(i) \/ Net!Answer(i) \/ Net!Renews(i) PROVE NetworkInv'
  BY <1>2, NegotiatesKeeps, AnswerKeeps, RenewsKeeps
<1>3. ASSUME NEW type \in Net!Types, Net!TypeStep(type) PROVE NetworkInv'
  BY <1>3, TypeStepKeeps
<1>4. ASSUME \/ \E wish \in NetworkSettings : Net!SetInterfaceSettings(wish)
             \/ Net!Write \/ Net!Rename \/ Net!RenameFails \/ Net!Crash
      PROVE  NetworkInv'
  BY <1>4, SettingsKeeps
<1>5. CASE UNCHANGED networkVars
  <2>1. NetTypes' /\ NetSettings'
    BY <1>5, SettingsStay DEF networkVars, NetworkInv, NetTypes
  <2>2. ASSUME NEW type \in Net!Types PROVE TypeInv(type)'
    BY <1>5, OtherStays DEF networkVars, Apart, LinksStay
  <2> QED BY <2>1, <2>2 DEF NetworkInv, TypeInv
<1> QED BY <1>1, <1>2, <1>3, <1>4, <1>5 DEF Net!Next

LEMMA NetworkHolds ==
  NetworkInv => Net!TypeOK /\ Net!EthernetCarries /\ Net!NameIsConfigured /\ Net!SettingsWhole
<1> SUFFICES ASSUME NetworkInv PROVE Net!TypeOK /\ Net!EthernetCarries /\ Net!NameIsConfigured /\ Net!SettingsWhole
  OBVIOUS
<1>0. NetTypes /\ NetSettings /\ MaxClients \in Nat
  BY NetworkAssumption DEF NetworkInv
<1>1. Net!TypeOK
  <2>1. \A i \in Net!Interfaces : asking[i] \in 0..MaxClients /\ leased[i] \in 0..MaxClients
    BY <1>0 DEF NetTypes
  <2>2. asking \in [Net!Interfaces -> 0..MaxClients] /\ leased \in [Net!Interfaces -> 0..MaxClients]
    BY <1>0, <2>1 DEF NetTypes
  <2>3. saver.at \in {"idle", "write", "rename"}
    BY <1>0 DEF NetSettings
  <2> QED BY <1>0, <2>2, <2>3 DEF Net!TypeOK, NetTypes, Metrics
<1>2. Net!EthernetCarries
  <2> SUFFICES ASSUME \A t \in Net!Types : netPc[t] = Net!Idle,
                      NEW e \in Net!Ready("ethernet"), NEW w \in Net!Ready("wifi") \ late
               PROVE  metric[e] < metric[w]
    BY DEF Net!EthernetCarries
  <2>1. e \in Net!Kind("ethernet") /\ metric[e] # None /\ w \in Net!Kind("wifi") /\ metric[w] # None
    BY DEF Net!Ready
  <2>2. \A t \in Net!Types : netPc[t].at = "idle"
    BY DEF Net!Idle
  <2>3. "ethernet" \in Net!Types /\ "wifi" \in Net!Types
    BY DEF Net!Types
  <2>4. metric[e] \in {0, 100}
    BY <2>1, <2>3 DEF NetworkInv, RouteOf, Net!MetricForType
  <2>5. metric[w] = 200
    BY <2>1, <2>2, <2>3 DEF NetworkInv, RouteOf, Net!MetricForType
  <2> QED BY <2>4, <2>5
<1>3. Net!NameIsConfigured
  <2> SUFFICES ASSUME NEW t \in Net!Types, configured[t] # None
               PROVE  Net!Name(t) \in {configured[t]} \cup overdue /\ Net!IsEnabled(t)
    BY DEF Net!NameIsConfigured
  <2>1. Net!Name(t) \in {configured[t]} \cup overdue /\ Net!Name(t) \in netUp
    BY NameIsFound DEF NetworkInv
  <2>2. netUp \subseteq Net!Interfaces /\ None \notin Net!Interfaces
    BY <1>0, KindsApart DEF NetTypes
  <2> QED BY <2>1, <2>2 DEF Net!IsEnabled
<1> QED BY <1>0, <1>1, <1>2, <1>3 DEF NetSettings

-----------------------------------------------------------------------------
(* Display: one process of the program holds the light, at the level asked.*)


DisplayPlaces ==
  {"idle", "drm", "panel", "light", "reap", "fork", "name", "framebuffer", "unpanel", "undrm"}

DisplayTypes ==
  /\ Display!TypeOK /\ displayPc \in DisplayPlaces /\ on \in BOOLEAN
  /\ gpioset \in [Pids -> {"none", "starts", "holds", "told", "zombie"}]
  /\ forked \in Pids \cup {None} /\ (displayPc = "name" => forked \in Pids)
  /\ strangers \in BOOLEAN

\* The process that the next Enable or Disable tells to end
Newest == IF displayPc = "name" THEN forked ELSE backlightFile

\* A process of the program's own that has the line is the newest one, and when
\* another is about to start there is none.
OnlyNewest ==
  /\ \A p \in Display!Alive \cap mine : p = Newest
  /\ displayPc = "fork" => Display!Alive \cap mine = {}

\* But for the moment in which it changes, the newest one has the line.
NewestHolds ==
  displayPc \notin {"reap", "fork"} /\ asked # None /\ ~strangers =>
    /\ Display!Alive = {Newest} /\ Newest \in Pids /\ gpioset[Newest] \in {"starts", "holds"}
    /\ level[Newest] = asked

DisplayInv == DisplayTypes /\ OnlyNewest /\ NewestHolds

-----------------------------------------------------------------------------
LEMMA DisplayBegins == Display!Init => DisplayInv
<1> SUFFICES ASSUME Display!Init PROVE DisplayInv
  OBVIOUS
<1>1. DisplayTypes
  BY DEF Display!Init, DisplayTypes, DisplayPlaces, Display!TypeOK, Display!Levels
<1>2. Display!Alive = {}
  BY DEF Display!Init, Display!Alive
<1> QED BY <1>1, <1>2 DEF Display!Init, DisplayInv, OnlyNewest, NewestHolds

\* Everything about the light stays: the call goes on elsewhere.
LEMMA LightStays ==
  ASSUME DisplayInv, UNCHANGED Display!light, DisplayTypes', displayPc \notin {"reap", "fork", "name"},
         displayPc' \notin {"reap", "fork", "name"}
  PROVE  DisplayInv'
<1>1. UNCHANGED <<gpioset, level, mine, forked, backlightFile, asked, strangers>>
  BY DEF Display!light
<1>2. Display!Alive' = Display!Alive /\ Newest' = Newest
  BY <1>1 DEF Display!Alive, Newest
<1>3. OnlyNewest'
  BY <1>1, <1>2 DEF DisplayInv, OnlyNewest
<1>4. NewestHolds'
  BY <1>1, <1>2 DEF DisplayInv, NewestHolds
<1> QED BY <1>3, <1>4 DEF DisplayInv

\* A process goes on by itself: only one that is alive does, and it ends or has
\* the line.
LEMMA ProcessGoesOn ==
  ASSUME DisplayInv, NEW p \in Pids, Display!GpiosetStarts(p) \/ Display!GpiosetEnds(p)
  PROVE  DisplayInv'
<1>0. DisplayTypes /\ Display!TypeOK /\ None \notin Pids
  BY ProcessesAssumption DEF DisplayInv, DisplayTypes
<1>1. /\ UNCHANGED <<config, displayPc, on, Display!panel, level, mine, forked, backlightFile, asked, strangers>>
      /\ p \in Display!Alive
      /\ gpioset'[p] \in {"holds", "none", "zombie"} /\ \A q \in Pids \ {p} : gpioset'[q] = gpioset[q]
      /\ gpioset' \in [Pids -> {"none", "starts", "holds", "told", "zombie"}]
  BY <1>0 DEF DisplayTypes, Display!GpiosetStarts, Display!GpiosetEnds, Display!Alive, Display!Ended
<1>2. UNCHANGED <<loaded, fb, stream>> /\ Newest' = Newest /\ Display!Alive' \subseteq Display!Alive
  BY <1>1 DEF Display!panel, Newest, Display!Alive
<1>3. DisplayTypes'
  BY <1>0, <1>1, <1>2 DEF DisplayTypes, Display!TypeOK
<1>4. OnlyNewest'
  BY <1>1, <1>2 DEF DisplayInv, OnlyNewest
<1>5. NewestHolds'
  <2> SUFFICES ASSUME displayPc \notin {"reap", "fork"}, asked # None, ~strangers
               PROVE  /\ Display!Alive' = {Newest} /\ Newest \in Pids /\ gpioset'[Newest] \in {"starts", "holds"}
                      /\ level[Newest] = asked
    BY <1>1, <1>2 DEF NewestHolds
  <2>1. /\ Display!Alive = {Newest} /\ Newest \in Pids /\ gpioset[Newest] \in {"starts", "holds"}
        /\ level[Newest] = asked
    BY DEF DisplayInv, NewestHolds
  <2>2. p = Newest /\ \A q \in Pids \ {p} : gpioset[q] \notin {"holds", "told"}
    BY <1>1, <2>1 DEF Display!Alive
  <2>3. gpioset'[p] = "holds"
    BY <1>0, <2>1, <2>2 DEF Display!GpiosetStarts, Display!GpiosetEnds, DisplayTypes
  <2>4. p \in Display!Alive'
    BY <2>3 DEF Display!Alive
  <2> QED BY <1>2, <2>1, <2>2, <2>3, <2>4
<1> QED BY <1>3, <1>4, <1>5 DEF DisplayInv

LEMMA DisplayKeeps == ASSUME DisplayInv, [Display!Next]_displayVars PROVE DisplayInv'
<1>0. DisplayTypes /\ Display!TypeOK /\ None \notin Pids
  BY ProcessesAssumption DEF DisplayInv, DisplayTypes
<1>1. ASSUME NEW p \in Pids, Display!GpiosetStarts(p) \/ Display!GpiosetEnds(p) PROVE DisplayInv'
  BY <1>1, ProcessGoesOn
<1>2. CASE Display!FramebufferAppears \/ Display!Enable \/ Display!Enabled \/ Display!EnableTimesOut \/ Display!NoBacklight
           \/ (\E c \in Display!Settings : Display!SetSettings(c)) \/ UNCHANGED displayVars
  <2>1. UNCHANGED Display!light
    BY <1>2 DEF Display!FramebufferAppears, Display!Enable, Display!Enabled, Display!EnableTimesOut, Display!NoBacklight, Display!SetSettings, displayVars, Display!light
  <2>2. DisplayTypes'
    <3>1. CASE UNCHANGED displayVars
      BY <1>0, <3>1 DEF displayVars, DisplayTypes, Display!TypeOK
    <3>2. CASE \E c \in Display!Settings : Display!SetSettings(c)
      BY <1>0, <3>2 DEF Display!SetSettings, Display!light, Display!panel, DisplayTypes, Display!TypeOK
    <3>3. CASE Display!FramebufferAppears
      BY <1>0, <3>3 DEF Display!FramebufferAppears, Display!light, DisplayTypes, Display!TypeOK
    <3>4. CASE Display!Enable
      BY <1>0, <3>4 DEF Display!Enable, Display!light, Display!panel, DisplayTypes, DisplayPlaces, Display!TypeOK
    <3>5. CASE Display!Enabled
      BY <1>0, <3>5 DEF Display!Enabled, Display!light, DisplayTypes, DisplayPlaces, Display!TypeOK
    <3>6. CASE Display!EnableTimesOut
      BY <1>0, <3>6 DEF Display!EnableTimesOut, Display!light, Display!panel, DisplayTypes, DisplayPlaces, Display!TypeOK
    <3>7. CASE Display!NoBacklight
      <4>1. displayPc' \in DisplayPlaces /\ displayPc' # "name"
        BY <3>7 DEF Display!NoBacklight, Display!After, DisplayPlaces
      <4> QED BY <1>0, <3>7, <4>1 DEF Display!NoBacklight, Display!light, Display!panel, DisplayTypes, Display!TypeOK
    <3> QED BY <1>2, <3>1, <3>2, <3>3, <3>4, <3>5, <3>6, <3>7
  <2>3. CASE UNCHANGED displayVars
    <3>1. Display!Alive' = Display!Alive /\ Newest' = Newest
      BY <2>3 DEF displayVars, Display!Alive, Newest
    <3> QED BY <2>2, <2>3, <3>1 DEF displayVars, DisplayInv, OnlyNewest, NewestHolds
  <2>4. CASE \E c \in Display!Settings : Display!SetSettings(c)
    BY <2>1, <2>2, <2>4, LightStays DEF Display!SetSettings
  <2>5. CASE Display!Enable \/ Display!Enabled \/ Display!EnableTimesOut \/ Display!NoBacklight
    <3>1. displayPc \notin {"reap", "fork", "name"} /\ displayPc' \notin {"reap", "fork", "name"}
      BY <2>5 DEF Display!Enable, Display!Enabled, Display!EnableTimesOut, Display!NoBacklight, Display!After
    <3> QED BY <2>1, <2>2, <3>1, LightStays
  <2>6. CASE Display!FramebufferAppears
    <3>1. UNCHANGED <<displayPc, gpioset, level, mine, forked, backlightFile, asked, strangers>>
      BY <2>6 DEF Display!FramebufferAppears, Display!light
    <3>2. Display!Alive' = Display!Alive /\ Newest' = Newest
      BY <3>1 DEF Display!Alive, Newest
    <3> QED BY <2>2, <3>1, <3>2 DEF DisplayInv, OnlyNewest, NewestHolds
  <2> QED BY <1>2, <2>3, <2>4, <2>5, <2>6
<1>3. ASSUME NEW place \in DisplayPlaces, NEW module \in {"stm_drm", "panel-simple"}, NEW next \in DisplayPlaces,
             NEW well \in BOOLEAN, Display!Modprobe(place, module, next, well) \/ Display!ModprobeRemoves(place, module, next, well),
             place \notin {"reap", "fork", "name"}, next \notin {"reap", "fork", "name"}
      PROVE  DisplayInv'
  <2>1. UNCHANGED Display!light /\ displayPc = place /\ displayPc' = next /\ UNCHANGED <<config, on, stream>>
    BY <1>3 DEF Display!Modprobe, Display!ModprobeRemoves
  <2>2. loaded' \subseteq {"stm_drm", "panel-simple"} /\ fb' \in BOOLEAN
    BY <1>0, <1>3 DEF Display!Modprobe, Display!ModprobeRemoves, Display!TypeOK
  <2>3. DisplayTypes'
    BY <1>0, <1>3, <2>1, <2>2 DEF DisplayTypes, Display!TypeOK, Display!light
  <2> QED BY <1>3, <2>1, <2>3, LightStays
<1>4. CASE Display!Disable
  <2>1. UNCHANGED Display!light /\ displayPc = "idle" /\ displayPc' = "light"
    BY <1>4 DEF Display!Disable
  <2>2. DisplayTypes'
    BY <1>0, <1>4 DEF Display!Disable, DisplayTypes, DisplayPlaces, Display!TypeOK, Display!light
  <2> QED BY <2>1, <2>2, LightStays
<1>5. CASE Display!ProgramEnds
  <2>1. /\ mine' = {} /\ asked' = None /\ displayPc' = "idle"
        /\ gpioset' \in [Pids -> {"none", "starts", "holds", "told", "zombie"}]
    BY <1>0, <1>5 DEF Display!ProgramEnds, DisplayTypes
  <2>2. DisplayTypes'
    BY <1>0, <1>5, <2>1 DEF Display!ProgramEnds, DisplayTypes, DisplayPlaces, Display!TypeOK
  <2> QED BY <2>1, <2>2 DEF DisplayInv, OnlyNewest, NewestHolds
<1>6. CASE Display!StopHeldBacklight
  <2>1. /\ UNCHANGED <<config, on, Display!panel, level, mine, forked, backlightFile, asked, strangers>>
        /\ displayPc = "light" /\ displayPc' = "reap"
        /\ gpioset' = [p \in Pids |-> IF p = backlightFile /\ gpioset[p] \in {"starts", "holds"} THEN "told" ELSE gpioset[p]]
    BY <1>6 DEF Display!StopHeldBacklight
  <2>2. Display!Alive' = Display!Alive /\ Newest = backlightFile /\ Newest' = backlightFile
    BY <1>0, <2>1 DEF Display!Alive, Newest
  <2>3. DisplayTypes'
    BY <1>0, <2>1 DEF DisplayTypes, DisplayPlaces, Display!TypeOK, Display!panel
  <2> QED BY <2>1, <2>2, <2>3 DEF DisplayInv, OnlyNewest, NewestHolds
<1>7. CASE Display!Reaps
  <2>1. /\ UNCHANGED <<config, on, Display!panel, level, forked, asked, strangers>>
        /\ displayPc = "reap" /\ displayPc' = "fork" /\ backlightFile' = None
        /\ backlightFile \in mine => gpioset[backlightFile] \notin {"starts", "holds", "told"}
        /\ gpioset' = [p \in Pids |-> IF p = backlightFile /\ gpioset[p] = "zombie" THEN "none" ELSE gpioset[p]]
        /\ mine' \subseteq mine
    BY <1>7 DEF Display!Reaps
  <2>2. Display!Alive' = Display!Alive /\ Newest = backlightFile
    BY <1>0, <2>1 DEF Display!Alive, Newest
  <2>3. Display!Alive' \cap mine' = {}
    BY <2>1, <2>2 DEF DisplayInv, OnlyNewest, Display!Alive
  <2>4. DisplayTypes'
    BY <1>0, <2>1 DEF DisplayTypes, DisplayPlaces, Display!TypeOK, Display!panel
  <2> QED BY <2>1, <2>3, <2>4 DEF DisplayInv, OnlyNewest, NewestHolds
<1>8. ASSUME NEW p \in Pids, Display!Fork(p) PROVE DisplayInv'
  <2>1. /\ UNCHANGED <<config, on, Display!panel, backlightFile>> /\ displayPc = "fork" /\ displayPc' = "name" /\ gpioset[p] = "none"
        /\ gpioset' = [gpioset EXCEPT ![p] = "starts"] /\ level' = [level EXCEPT ![p] = Display!Wanted]
        /\ mine' = mine \cup {p} /\ forked' = p /\ asked' = Display!Wanted /\ strangers' = (Display!Alive \ mine # {})
    BY <1>8 DEF Display!Fork
  <2>2. Display!Wanted \in Display!Levels
    BY DEF Display!Wanted, Display!Levels
  <2>3. DisplayTypes'
    BY <1>0, <2>1, <2>2 DEF DisplayTypes, DisplayPlaces, Display!TypeOK, Display!panel
  <2>4. Display!Alive' = Display!Alive \cup {p} /\ p \notin Display!Alive /\ Newest' = p
    BY <1>0, <2>1 DEF Display!Alive, Newest, DisplayTypes
  <2>5. Display!Alive \cap mine = {}
    BY <2>1 DEF DisplayInv, OnlyNewest
  <2>6. OnlyNewest'
    BY <2>1, <2>4, <2>5 DEF OnlyNewest
  <2>7. NewestHolds'
    <3> SUFFICES ASSUME ~strangers'
                 PROVE  Display!Alive' = {p} /\ gpioset'[p] \in {"starts", "holds"} /\ level'[p] = asked'
      BY <2>4 DEF NewestHolds
    <3>1. Display!Alive = {}
      BY <2>1, <2>5
    <3> QED BY <1>0, <2>1, <2>4, <3>1 DEF DisplayTypes, Display!TypeOK
  <2> QED BY <2>3, <2>6, <2>7 DEF DisplayInv
<1>9. CASE Display!NameIt
  <2>1. /\ UNCHANGED <<config, on, Display!panel, gpioset, level, mine, asked, strangers>>
        /\ displayPc = "name" /\ displayPc' \notin {"reap", "fork", "name"} /\ backlightFile' = forked /\ forked' = None
        /\ displayPc' \in DisplayPlaces
    BY <1>9 DEF Display!NameIt, Display!After, DisplayPlaces
  <2>2. Display!Alive' = Display!Alive /\ Newest' = Newest
    BY <2>1 DEF Display!Alive, Newest
  <2>3. DisplayTypes'
    BY <1>0, <2>1 DEF DisplayTypes, Display!TypeOK, Display!panel
  <2> QED BY <2>1, <2>2, <2>3 DEF DisplayInv, OnlyNewest, NewestHolds
<1>10. {"drm", "panel", "light", "unpanel", "undrm", "idle"} \subseteq DisplayPlaces
  BY DEF DisplayPlaces
<1> QED BY <1>1, <1>2, <1>3, <1>4, <1>5, <1>6, <1>7, <1>8, <1>9, <1>10 DEF Display!Next

LEMMA DisplayHolds == DisplayInv => Display!TypeOK /\ Display!OneHolder /\ Display!BacklightAsAsked
<1> SUFFICES ASSUME DisplayInv PROVE Display!TypeOK /\ Display!OneHolder /\ Display!BacklightAsAsked
  OBVIOUS
<1>1. Display!OneHolder
  <2>1. \A p \in Display!Alive \cap mine : p = Newest
    BY DEF DisplayInv, OnlyNewest
  <2> QED BY <2>1 DEF Display!OneHolder
<1>2. Display!BacklightAsAsked
  BY DEF DisplayInv, NewestHolds, Newest, Display!BacklightAsAsked
<1> QED BY <1>1, <1>2 DEF DisplayInv, DisplayTypes

-----------------------------------------------------------------------------
(* Watchdog: the board is watched, and restarts in time.                   *)

(* Rounding up to seconds, as Enable does, gives enough of them.           *)
LEMMA SecondsAreEnough ==
  ASSUME NEW n \in Nat \ {0}
  PROVE  /\ Watchdog!Seconds(n) \in Nat \ {0}
         /\ Watchdog!Seconds(n) * TicksPerSecond >= n
<1> DEFINE m == n + TicksPerSecond - 1
           q == m \div TicksPerSecond
           r == m % TicksPerSecond
<1>1. TicksPerSecond \in Nat /\ TicksPerSecond > 0 /\ m \in Nat /\ m >= TicksPerSecond
  BY ClockAssumption
<1>2. q \in Int /\ r \in 0..(TicksPerSecond - 1) /\ m = TicksPerSecond * q + r
  BY <1>1
<1> QED
  BY <1>1, <1>2 DEF Watchdog!Seconds

(* ... and a number of seconds is a number of ticks.                       *)
LEMMA TicksOfSeconds ==
  ASSUME NEW n \in Nat \ {0}
  PROVE  n * TicksPerSecond \in Nat \ {0}
BY ClockAssumption

-----------------------------------------------------------------------------
(* What the kernel counts down is what has gone by of its time.            *)
CountsDown == counts => left + since = timeout * TicksPerSecond
RestartsAtZero == restarted <=> (counts /\ left = 0)
TimeIsAsked == granted # 0 => timeout = Watchdog!Seconds(granted)

WatchdogTypes ==
  /\ watchers \subseteq Watchdogs /\ user \in Watchdogs \cup {None}
  /\ counts \in BOOLEAN /\ restarted \in BOOLEAN
  /\ timeout \in Nat \ {0} /\ left \in Nat /\ since \in Nat /\ granted \in Nat

WatchdogInv ==
  WatchdogTypes /\ Watchdog!EnabledIsWatched /\ CountsDown /\ RestartsAtZero /\ TimeIsAsked

LEMMA WatchdogBegins == ASSUME Watchdog!Init PROVE WatchdogInv
BY ClockAssumption DEF Watchdog!Init, WatchdogInv, WatchdogTypes, Watchdog!EnabledIsWatched, CountsDown, RestartsAtZero, TimeIsAsked

\* Who is fed has its whole time again.
LEMMA FeedsInv ==
  ASSUME NEW n \in Nat \ {0}, Watchdog!Feeds(n)
  PROVE  left' \in Nat \ {0} /\ since' = 0 /\ left' + since' = n * TicksPerSecond
BY TicksOfSeconds DEF Watchdog!Feeds

LEMMA WatchdogKeeps == ASSUME WatchdogInv, [Watchdog!Next]_watchdogVars PROVE WatchdogInv'
<1> USE DEF WatchdogInv, WatchdogTypes, CountsDown, RestartsAtZero, TimeIsAsked
<1>1. ASSUME NEW c \in Watchdogs, NEW ticks \in Timeouts, Watchdog!Enable(c, ticks)
      PROVE  WatchdogInv'
  <2>1. ticks \in Nat \ {0}
    BY ClockAssumption
  <2>2. timeout' \in Nat \ {0} /\ timeout' = Watchdog!Seconds(granted')
    BY <1>1, <2>1, SecondsAreEnough DEF Watchdog!Enable
  <2>3. left' \in Nat \ {0} /\ since' = 0 /\ left' + since' = timeout' * TicksPerSecond
    BY <1>1, <2>2, FeedsInv DEF Watchdog!Enable
  <2>4. Watchdog!EnabledIsWatched'
    BY <1>1, ClockAssumption DEF Watchdog!Enable, Watchdog!EnabledIsWatched
  <2> QED
    BY <1>1, <2>1, <2>2, <2>3, <2>4 DEF Watchdog!Enable
<1>2. ASSUME NEW c \in Watchdogs, Watchdog!EnableFails(c)
      PROVE  WatchdogInv'
  <2>1. timeout * TicksPerSecond \in Nat \ {0}
    BY TicksOfSeconds
  <2>2. Watchdog!EnabledIsWatched'
    BY <1>2, ClockAssumption DEF Watchdog!EnableFails, Watchdog!EnabledIsWatched
  <2> QED
    BY <1>2, <2>1, <2>2 DEF Watchdog!EnableFails
<1>3. ASSUME NEW c \in Watchdogs, Watchdog!Reset(c)
      PROVE  WatchdogInv'
  <2>1. left' \in Nat \ {0} /\ since' = 0 /\ left' + since' = timeout * TicksPerSecond
    BY <1>3, FeedsInv DEF Watchdog!Reset
  <2> QED
    BY <1>3, <2>1 DEF Watchdog!Reset, Watchdog!EnabledIsWatched
<1>4. ASSUME NEW c \in Watchdogs, Watchdog!Disable(c)
      PROVE  WatchdogInv'
  BY <1>4, ClockAssumption DEF Watchdog!Disable, Watchdog!EnabledIsWatched
<1>5. ASSUME NEW c \in Watchdogs, Watchdog!Dispose(c)
      PROVE  WatchdogInv'
  <2>1. left' \in Nat \ {0} /\ since' = 0 /\ left' + since' = timeout * TicksPerSecond
    BY <1>5, FeedsInv DEF Watchdog!Dispose
  <2>2. Watchdog!EnabledIsWatched'
    BY <1>5, ClockAssumption DEF Watchdog!Dispose, Watchdog!EnabledIsWatched
  <2> QED
    BY <1>5, <2>1, <2>2 DEF Watchdog!Dispose
<1>6. ASSUME Watchdog!Tick
      PROVE  WatchdogInv'
  <2>1. left # 0 /\ counts /\ restarted = FALSE
    BY <1>6 DEF Watchdog!Tick
  <2>2. left' \in Nat /\ since' \in Nat /\ left' + since' = left + since
    BY <1>6, <2>1 DEF Watchdog!Tick
  <2>3. RestartsAtZero'
    BY <1>6, <2>1 DEF Watchdog!Tick
  <2> QED
    BY <1>6, <2>1, <2>2, <2>3 DEF Watchdog!Tick, Watchdog!EnabledIsWatched
<1>7. ASSUME UNCHANGED watchdogVars
      PROVE  WatchdogInv'
  BY <1>7 DEF watchdogVars, Watchdog!EnabledIsWatched
<1> QED
  BY <1>1, <1>2, <1>3, <1>4, <1>5, <1>6, <1>7 DEF Watchdog!Next

LEMMA WatchdogHolds == ASSUME WatchdogInv PROVE Watchdog!TypeOK /\ Watchdog!EnabledIsWatched /\ Watchdog!RestartsInTime
<1> USE DEF WatchdogInv, WatchdogTypes, CountsDown, RestartsAtZero, TimeIsAsked
<1>1. timeout * TicksPerSecond \in Nat \ {0}
  BY TicksOfSeconds
<1>2. granted # 0 => Watchdog!Seconds(granted) * TicksPerSecond >= granted
  BY SecondsAreEnough
<1>3. granted # 0 => timeout * TicksPerSecond = Watchdog!Seconds(granted) * TicksPerSecond
  OBVIOUS
<1>4. ASSUME restarted PROVE since >= granted
  <2>1. left = 0 /\ since = timeout * TicksPerSecond
    BY <1>1, <1>4
  <2> QED
    BY <1>1, <1>2, <1>3, <2>1
<1>5. ASSUME counts, granted > 0 PROVE since <= Watchdog!Seconds(granted) * TicksPerSecond
  BY <1>1, <1>3, <1>5
<1>6. Watchdog!RestartsInTime
  BY <1>4, <1>5 DEF Watchdog!RestartsInTime
<1> QED
  BY <1>6 DEF Watchdog!TypeOK


-----------------------------------------------------------------------------
(* The six together: a step of one leaves the others as they are.          *)

ResourcesInv ==
  /\ WidgetsInv /\ DriversInv /\ PwmInv
  /\ NetworkInv /\ DisplayInv /\ WatchdogInv

LEMMA ResourcesBegin == Init => ResourcesInv
BY WidgetsBegin, DriversInvInit, PwmInvInit, NetworkBegins, DisplayBegins, WatchdogBegins
   DEF Init, ResourcesInv, PwmInv

\* Each component goes on by itself.
LEMMA EachGoesOn ==
  ASSUME [Next]_<<subject, widgetVars, driverVars, pwmVars, networkVars, displayVars, watchdogVars>>
  PROVE  /\ [WidgetsNext]_widgetVars /\ [DriversNext]_driverVars /\ [PwmNext]_pwmVars
         /\ [Net!Next]_networkVars /\ [Display!Next]_displayVars /\ [Watchdog!Next]_watchdogVars
BY DEF Next

LEMMA ResourcesKeep ==
  ASSUME ResourcesInv,
         [Next]_<<subject, widgetVars, driverVars, pwmVars, networkVars, displayVars, watchdogVars>>
  PROVE  ResourcesInv'
<1>1. WidgetsInv'
  BY EachGoesOn, WidgetsKeep DEF ResourcesInv
<1>2. DriversInv'
  BY EachGoesOn, DriversInvNext DEF ResourcesInv
<1>3. PwmInv'
  BY EachGoesOn, PwmTypeNext, PwmInvNext DEF ResourcesInv, PwmInv
<1>4. NetworkInv'
  BY EachGoesOn, NetworkKeeps DEF ResourcesInv
<1>5. DisplayInv'
  BY EachGoesOn, DisplayKeeps DEF ResourcesInv
<1>6. WatchdogInv'
  BY EachGoesOn, WatchdogKeeps DEF ResourcesInv
<1> QED BY <1>1, <1>2, <1>3, <1>4, <1>5, <1>6 DEF ResourcesInv

\* The invariant of the six holds throughout.
LEMMA ResourcesHold == Spec => []ResourcesInv
BY ResourcesBegin, ResourcesKeep, PTL DEF Spec

\* All that the six keep has its types: widgets and blocks, drivers and their
\* users, the channel, the interfaces and the settings, processes and clock.
THEOREM ResourcesTypes == Spec => []TypeOK
<1>1. ResourcesInv => TypeOK
  <2> SUFFICES ASSUME ResourcesInv PROVE TypeOK
    OBVIOUS
  <2>1. WidgetsTypeOK /\ DriversTypeOK /\ PwmTypeOK
    BY DEF ResourcesInv, WidgetsInv, DriversInv, PwmInv
  <2>2. Net!TypeOK
    BY NetworkHolds DEF ResourcesInv
  <2>3. Display!TypeOK
    BY DisplayHolds DEF ResourcesInv
  <2>4. Watchdog!TypeOK
    BY WatchdogHolds DEF ResourcesInv
  <2> QED BY <2>1, <2>2, <2>3, <2>4 DEF TypeOK
<1> QED BY <1>1, ResourcesHold, PTL

\* Ethernet carries what goes out while both types are enabled, but for a radio
\* whose client put its route in late; a name is that of the interface that was
\* configured, or of one whose carrier came when Enable had given it up; and a save
\* that is cut leaves the settings of both types, until one could not be written.
THEOREM NetworkIsAsAsked == Spec => []NetworkAsAsked
<1>1. ResourcesInv => NetworkAsAsked
  BY NetworkHolds DEF ResourcesInv, NetworkAsAsked
<1> QED BY <1>1, ResourcesHold, PTL

\* The newest request has the backlight's line, and the watchdog that is enabled
\* restarts the board when it was asked to.
THEOREM HeldIsAsAsked == Spec => []HeldAsAsked
<1>1. ResourcesInv => HeldAsAsked
  BY DisplayHolds, WatchdogHolds DEF ResourcesInv, HeldAsAsked
<1> QED BY <1>1, ResourcesHold, PTL

\* No block of the widgets is used when it was freed, nor lost but in the ways that
\* NothingLeaks names; no driver is missing or left, and no write of a PWM channel
\* is refused, whichever the program works with.
THEOREM NothingIsLost == Spec => [](MemoryIsOwned /\ DriverFollowsUse /\ WritesFit)
<1>1. ResourcesInv => MemoryIsOwned /\ DriverFollowsUse /\ WritesFit
  BY MemoryHolds, DriversHold, PwmHolds DEF ResourcesInv
<1> QED BY <1>1, ResourcesHold, PTL
===============================================================================
