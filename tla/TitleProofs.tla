----------------------------- MODULE TitleProofs -----------------------------
(***************************************************************************)
(* The images of a title lie apart, for any files, any directories and any   *)
(* memory.  ImagesApart is not inductive alone: that a new image lies behind  *)
(* all others, and that its TLS module id is new, is what Below adds.        *)
(* Its images share one heap; its saves stay whole, and lose nothing by one  *)
(* fault.                                                                   *)
(***************************************************************************)
EXTENDS ModuleLoader, SaveData, SequenceTheorems, TLAPS

Below ==
    \A i \in DOMAIN images :
      /\ images[i].at \in Nat /\ images[i].pages \in Nat /\ images[i].tls \in Nat
      /\ images[i].at + images[i].pages <= nextOffset
      /\ images[i].tls < nextTls

LoaderInv ==
    /\ nextOffset \in Nat /\ nextTls \in Nat \ {0}
    /\ \E S : images \in Seq(S)
    /\ Below
    /\ ImagesApart

\* What shadps4_load_images does after each load keeps the images apart.
LEMMA PlaceKeeps ==
    ASSUME LoaderInv, NEW file, NEW pages \in Nat, NEW tls \in BOOLEAN,
           Place(file, pages, tls)
    PROVE  LoaderInv'
<1> DEFINE new == [file |-> file, at |-> nextOffset, pages |-> pages,
                   tls |-> IF tls THEN nextTls ELSE 0]
<1>1. nextOffset' \in Nat /\ nextTls' \in Nat \ {0}
  BY DEF Place, LoaderInv
<1>2. PICK S : images \in Seq(S)
  BY DEF LoaderInv
<1>3. images' = Append(images, new)
  BY DEF Place
<1>4. images' \in Seq(S \cup {new})
  <2>1. images \in Seq(S \cup {new})
    BY <1>2
  <2> QED
    BY <1>3, <2>1
<1>5. /\ DOMAIN images' = 1 .. Len(images) + 1
      /\ DOMAIN images = 1 .. Len(images)
      /\ \A i \in 1 .. Len(images) : images'[i] = images[i]
      /\ images'[Len(images) + 1] = new
      /\ Len(images) \in Nat
  BY <1>2, <1>3
<1>6. /\ new.at = nextOffset /\ new.pages = pages
      /\ new.tls \in Nat /\ (new.tls = 0 \/ new.tls = nextTls)
      /\ new.tls < nextTls' /\ nextTls <= nextTls'
      /\ nextOffset' = nextOffset + pages /\ nextOffset <= nextOffset'
  BY DEF Place, LoaderInv
<1> HIDE DEF new
<1>7. Below'
  <2> SUFFICES ASSUME NEW i \in 1 .. Len(images) + 1
               PROVE  /\ images'[i].at \in Nat /\ images'[i].pages \in Nat
                      /\ images'[i].tls \in Nat
                      /\ images'[i].at + images'[i].pages <= nextOffset'
                      /\ images'[i].tls < nextTls'
    BY <1>5 DEF Below
  <2>1. CASE i = Len(images) + 1
    BY <2>1, <1>5, <1>6, <1>1 DEF LoaderInv
  <2>2. CASE i \in 1 .. Len(images)
    BY <2>2, <1>5, <1>6, <1>1 DEF LoaderInv, Below
  <2> QED
    BY <2>1, <2>2, <1>5
<1>8. ImagesApart'
  <2> SUFFICES ASSUME NEW i \in 1 .. Len(images) + 1, NEW j \in 1 .. Len(images) + 1,
                      i < j
               PROVE  /\ images'[i].at + images'[i].pages <= images'[j].at
                      /\ images'[i].tls = images'[j].tls => images'[i].tls = 0
    BY <1>5 DEF ImagesApart
  <2>1. i \in 1 .. Len(images)
    BY <1>5
  <2>2. CASE j = Len(images) + 1
    BY <2>1, <2>2, <1>5, <1>6 DEF LoaderInv, Below
  <2>3. CASE j \in 1 .. Len(images)
    BY <2>1, <2>3, <1>5 DEF LoaderInv, ImagesApart
  <2> QED
    BY <2>2, <2>3, <1>5
<1> QED
  BY <1>1, <1>4, <1>7, <1>8 DEF LoaderInv

\* The pages and the storage of a file that loads are what the assumption says.
LEMMA LoadKeeps ==
    ASSUME LoaderInv, NEW file, Loadable(file), Load(file)
    PROVE  LoaderInv'
<1>1. title[file].pages \in Nat /\ title[file].tls \in BOOLEAN
  BY LoaderAssumption DEF Loadable
<1> QED
  BY <1>1, PlaceKeeps DEF Load

\* An image that fails to load takes all of them with it.
LEMMA FailKeeps == ASSUME LoaderInv, Fail PROVE LoaderInv'
<1>1. images' = <<>> /\ DOMAIN images' = {}
  BY DEF Fail
<1>2. images' \in Seq({})
  BY <1>1
<1> QED
  BY <1>1, <1>2 DEF Fail, LoaderInv, Below, ImagesApart

\* Steps that place nothing.
LEMMA SameKeeps ==
    ASSUME LoaderInv, UNCHANGED <<images, nextOffset, nextTls>>
    PROVE  LoaderInv'
BY DEF LoaderInv, Below, ImagesApart

LEMMA LoaderInvInit == LoaderInit => LoaderInv
<1> SUFFICES ASSUME LoaderInit PROVE LoaderInv
  OBVIOUS
<1>1. images \in Seq({}) /\ DOMAIN images = {}
  BY DEF LoaderInit
<1> QED
  BY <1>1 DEF LoaderInit, LoaderInv, Below, ImagesApart

LEMMA LoaderInvNext == LoaderInv /\ [LoaderNext]_loaderVars => LoaderInv'
<1> SUFFICES ASSUME LoaderInv, [LoaderNext]_loaderVars PROVE LoaderInv'
  OBVIOUS
<1>1. CASE LoadMain
  BY <1>1, LoadKeeps DEF LoadMain
<1>2. CASE Collect
  BY <1>2, SameKeeps DEF Collect
<1>3. CASE LoadNext
  BY <1>3, LoadKeeps DEF LoadNext
<1>4. CASE LoadCompiler
  <2>1. CASE title[Compiler] = Missing
    BY <2>1, <1>4, SameKeeps DEF LoadCompiler
  <2>2. CASE title[Compiler] # Missing
    BY <2>2, <1>4, LoadKeeps DEF LoadCompiler
  <2> QED
    BY <2>1, <2>2
<1>5. CASE LoadFails
  BY <1>5, FailKeeps DEF LoadFails
<1>6. CASE BuildHle
  BY <1>6, PlaceKeeps DEF BuildHle
<1>7. CASE Link
  BY <1>7, SameKeeps DEF Link
<1>8. CASE Boot
  BY <1>8, SameKeeps DEF Boot
<1>9. CASE UNCHANGED loaderVars
  BY <1>9, SameKeeps DEF loaderVars
<1> QED
  BY <1>1, <1>2, <1>3, <1>4, <1>5, <1>6, <1>7, <1>8, <1>9 DEF LoaderNext

\* Images lie apart in guest RAM, with TLS module ids of their own.
THEOREM ImagesApartHolds == LoaderSpec => []ImagesApart
<1>1. LoaderInv => ImagesApart
  BY DEF LoaderInv
<1> QED
  BY LoaderInvInit, LoaderInvNext, <1>1, PTL DEF LoaderSpec
-----------------------------------------------------------------------------
(***************************************************************************)
(* One allocator for the images of a process.  LinkInv says what is known    *)
(* when the links are made, and that they stay.                             *)
(***************************************************************************)
Links == [file \in FilesOf |-> [symbol \in Imports(file) |-> Provider(file, symbol)]]
LinkInv ==
    /\ \A i \in DOMAIN images : \/ images[i].file = Hle
                                \/ title[images[i].file] \in FileKinds
    /\ stage \in {"link", "loaded", "running"} =>
         StaticExports \subseteq provided /\ \E i \in DOMAIN images : images[i].file = Hle
    /\ stage \in {"loaded", "running"} => bound = Links

\* Each image exports both of two functions of the heap, or neither.
LEMMA SameExporters ==
    ASSUME LinkInv, StaticExports \subseteq provided,
           NEW i \in DOMAIN images, NEW s \in HeapFamily, NEW t \in HeapFamily,
           s \in Exports(images[i].file)
    PROVE  t \in Exports(images[i].file)
<1>1. CASE images[i].file = Hle
  BY <1>1, LoaderAssumption DEF Exports
<1>2. CASE images[i].file # Hle
  <2>1. title[images[i].file] \in FileKinds
    BY <1>2 DEF LinkInv
  <2>2. s \in HeapFamily \intersect title[images[i].file].exports
    BY <1>2 DEF Exports
  <2>3. HeapFamily \intersect title[images[i].file].exports = HeapFamily
    BY <2>1, <2>2, HeapAssumption
  <2> QED
    BY <1>2, <2>3 DEF Exports
<1> QED
  BY <1>1, <1>2

\* So that images of one process are given both by the same one.
LEMMA SameProvider ==
    ASSUME LinkInv, StaticExports \subseteq provided,
           \E i \in DOMAIN images : images[i].file = Hle,
           NEW file, NEW other, SameProcess(file, other),
           NEW s \in HeapFamily, NEW t \in HeapFamily
    PROVE  /\ Provider(file, s) = Provider(other, t)
           /\ file = Compiler => Provider(file, s) = Hle
<1>1. s \in provided /\ t \in provided
  BY LoaderAssumption
<1>2. CASE file = Compiler
  BY <1>1, <1>2 DEF Provider, PreferHle, SameProcess
<1>3. CASE file # Compiler
  <2> DEFINE of(symbol) == {i \in DOMAIN images : symbol \in Exports(images[i].file)}
  <2>1. of(s) = of(t)
    BY SameExporters
  <2>2. of(s) # {}
    BY <1>1 DEF Exports
  <2>3. ~PreferHle(file, s) /\ ~PreferHle(other, t)
    BY <1>3 DEF PreferHle, SameProcess
  <2>4. Provider(file, s) = images[CHOOSE i \in of(s) : \A j \in of(s) : i <= j].file
    BY <2>2, <2>3 DEF Provider
  <2>5. Provider(other, t) = images[CHOOSE i \in of(t) : \A j \in of(t) : i <= j].file
    BY <2>1, <2>2, <2>3 DEF Provider
  <2> QED
    BY <1>3, <2>1, <2>4, <2>5
<1> QED
  BY <1>2, <1>3

\* A new image is one that could be loaded, or the machine's own.
LEMMA PlaceLinks ==
    ASSUME LoaderInv, LinkInv, NEW file, NEW pages, NEW tls, Place(file, pages, tls),
           UNCHANGED title, file = Hle \/ title[file] \in FileKinds
    PROVE  /\ \A i \in DOMAIN images' : \/ images'[i].file = Hle
                                        \/ title'[images'[i].file] \in FileKinds
           /\ \E i \in DOMAIN images' : images'[i].file = file
<1>1. PICK S : images \in Seq(S)
  BY DEF LoaderInv
<1>2. /\ DOMAIN images' = 1 .. Len(images) + 1
      /\ \A i \in 1 .. Len(images) : images'[i] = images[i]
      /\ images'[Len(images) + 1].file = file
      /\ Len(images) \in Nat /\ DOMAIN images = 1 .. Len(images)
  BY <1>1 DEF Place
<1> QED
  BY <1>2 DEF LinkInv

LEMMA LinkInvNext ==
    LoaderInv /\ LinkInv /\ [LoaderNext]_loaderVars => LinkInv'
<1> SUFFICES ASSUME LoaderInv, LinkInv, [LoaderNext]_loaderVars PROVE LinkInv'
  OBVIOUS
<1>1. CASE LoadMain
  BY <1>1, PlaceLinks DEF LoadMain, Load, Loadable, LinkInv
<1>2. CASE Collect
  BY <1>2 DEF Collect, LinkInv
<1>3. CASE LoadNext
  BY <1>3, PlaceLinks DEF LoadNext, Load, Loadable, LinkInv
<1>4. CASE LoadCompiler
  <2>1. CASE title[Compiler] = Missing
    BY <2>1, <1>4 DEF LoadCompiler, LinkInv
  <2>2. CASE title[Compiler] # Missing
    BY <2>2, <1>4, PlaceLinks DEF LoadCompiler, Load, Loadable, LinkInv
  <2> QED
    BY <2>1, <2>2
<1>5. CASE LoadFails
  <2>1. stage' = "failed" /\ images' = <<>> /\ DOMAIN images' = {}
    BY <1>5 DEF LoadFails, Fail
  <2> QED
    BY <2>1 DEF LinkInv
<1>6. CASE BuildHle
  BY <1>6, PlaceLinks DEF BuildHle, LinkInv
<1>7. CASE Link
  <2>1. UNCHANGED <<title, images, provided>> /\ stage' = "loaded"
    BY <1>7 DEF Link
  <2>2. Links' = Links
    BY <2>1 DEF Links, FilesOf, Imports, Provider, Exports, PreferHle
  <2>3. bound' = Links'
    BY <1>7, <2>2 DEF Link, Links
  <2> QED
    BY <1>7, <2>1, <2>3 DEF LinkInv, Link
<1>8. CASE Boot
  <2>1. UNCHANGED <<title, images, provided, bound>>
    BY <1>8 DEF Boot
  <2>2. Links' = Links
    BY <2>1 DEF Links, FilesOf, Imports, Provider, Exports, PreferHle
  <2> QED
    BY <1>8, <2>1, <2>2 DEF LinkInv, Boot
<1>9. CASE UNCHANGED loaderVars
  <2>1. UNCHANGED <<title, images, provided, bound, stage>>
    BY <1>9 DEF loaderVars
  <2>2. Links' = Links
    BY <2>1 DEF Links, FilesOf, Imports, Provider, Exports, PreferHle
  <2> QED
    BY <2>1, <2>2 DEF LinkInv
<1> QED
  BY <1>1, <1>2, <1>3, <1>4, <1>5, <1>6, <1>7, <1>8, <1>9 DEF LoaderNext

LEMMA LinkInvTogether == LinkInv => HeapTogether
<1> SUFFICES ASSUME LinkInv, stage = "running",
                    NEW file \in DOMAIN bound, NEW other \in DOMAIN bound,
                    SameProcess(file, other),
                    NEW s \in HeapFamily \intersect DOMAIN bound[file],
                    NEW t \in HeapFamily \intersect DOMAIN bound[other]
             PROVE  /\ bound[file][s] = bound[other][t]
                    /\ file = Compiler => bound[file][s] = Hle
  BY DEF HeapTogether
<1>1. bound = Links
  BY DEF LinkInv
<1>2. bound[file][s] = Provider(file, s) /\ bound[other][t] = Provider(other, t)
  BY <1>1 DEF Links
<1> QED
  BY <1>2, SameProvider DEF LinkInv

\* The images of a process allocate and free with one allocator, whatever modules
\* a title has and in whatever order: with the title's libc, or the machine's.
THEOREM HeapTogetherHolds == LoaderSpec => []HeapTogether
<1>1. LoaderInit => LinkInv
  <2> SUFFICES ASSUME LoaderInit PROVE LinkInv
    OBVIOUS
  <2>1. DOMAIN images = {} /\ stage = "main"
    BY DEF LoaderInit
  <2> QED
    BY <2>1 DEF LinkInv
<1> QED
  BY LoaderInvInit, LoaderInvNext, <1>1, LinkInvNext, LinkInvTogether, PTL DEF LoaderSpec
-----------------------------------------------------------------------------
(***************************************************************************)
(* A save and its backup are whole after any cuts and refusals, where the    *)
(* application removes what it is told to and no save has the name of        *)
(* another one's copies.  SaveInv adds what the step a call has come to says *)
(* of the copy and of what was moved away; at rest it says nothing of them:  *)
(* a cut leaves them as they are.                                           *)
(***************************************************************************)
SaveTypes ==
    /\ tree \in [Places -> Trees] /\ placed \in [Homes -> Trees]
    /\ mounted \in Names \cup {""}
    /\ op \in [step : Steps, to : Homes, had : BOOLEAN, done : SUBSET SaveFiles,
               file : SaveFiles \cup {NoFile}] \cup {AtRest}

\* How far the copy beside the destination agrees with its source.
CopyAgrees ==
    /\ op.step = "mkdir" => tree[SaveTmp] = NoTree
    /\ op.step \in {"clear", "mkdir"} => op.done = {} /\ op.file = NoFile
    /\ op.step = "copy" =>
         /\ tree[SaveTmp] \in [SaveFiles -> 0 .. Torn]
         /\ \A f \in op.done : tree[SaveTmp][f] = From[f]
         /\ \A f \in SaveFiles : f \notin op.done /\ f # op.file =>
                                   tree[SaveTmp][f] = Absent
    /\ op.step \in {"drop", "away", "in"} => tree[SaveTmp] = From

\* What was moved away is the destination as it was.
AwayAgrees ==
    /\ op.step = "away" => tree[op.to] # NoTree
    /\ op.step = "drop" /\ op.had => tree[op.to] # NoTree
    /\ op.step = "in" /\ op.had => tree[Old(op.to)] = placed[op.to]
    /\ op.step = "back" => tree[op.to] # NoTree \/ tree[Old(op.to)] = placed[op.to]

SaveInv ==
    /\ SaveTypes
    /\ SavesWhole
    /\ Working => From \in [SaveFiles -> 0 .. Torn] /\ CopyAgrees /\ AwayAgrees

\* Paths of a save, its backup and their copies are all different.
LEMMA PathsApart ==
    ASSUME NamesApart, NEW p \in Homes
    PROVE  /\ Homes \subseteq Places
           /\ Tmp(p) \in Places \ Homes /\ Old(p) \in Places \ Homes
           /\ Tmp(p) # Old(p)
           /\ Source(p) \in Homes \ {p}
<1>1. PICK a \in Areas, n \in Names : p = <<a, n>>
  BY DEF Homes
<1>2. <<n, "tmp">> \in Names \X Marks /\ <<n, "old">> \in Names \X Marks
  BY DEF Marks
<1>3. Marked[<<n, "tmp">>] # Marked[<<n, "old">>]
  BY <1>2, SaveAssumption
<1>4. Marked[<<n, "tmp">>] \notin Names /\ Marked[<<n, "old">>] \notin Names
  BY <1>2 DEF NamesApart
<1> QED
  BY <1>1, <1>2, <1>3, <1>4 DEF Homes, Places, Areas, Tmp, Old, Source

\* What a step that changes one path leaves of the invariant's types.
LEMMA TreesKept ==
    ASSUME tree \in [Places -> Trees], NEW q \in Places, NEW content \in Trees,
           tree' = [tree EXCEPT ![q] = content]
    PROVE  /\ tree' \in [Places -> Trees]
           /\ tree'[q] = content
           /\ \A p \in Places \ {q} : tree'[p] = tree[p]
OBVIOUS

LEMMA TreesMoved ==
    ASSUME tree \in [Places -> Trees], NEW p \in Places, NEW q \in Places, p # q,
           Rename(p, q)
    PROVE  /\ tree' \in [Places -> Trees]
           /\ tree'[q] = tree[p] /\ tree'[p] = NoTree
           /\ \A r \in Places \ {p, q} : tree'[r] = tree[r]
           /\ tree[p] # NoTree /\ tree[q] = NoTree
<1>1. NoTree \in Trees
  BY DEF Trees
<1>2. tree[p] \in Trees
  OBVIOUS
<1> QED
  BY <1>1, <1>2 DEF Rename

\* A title that changes a save, or mounts it, puts there what counts as whole; the
\* copies beside it matter to no call.
LEMMA PutKeeps ==
    ASSUME SaveInv, ~Working, NEW p \in Homes, NEW content \in Trees, NamesApart,
           tree' = [tree EXCEPT ![p] = content], placed' = [placed EXCEPT ![p] = content],
           op' = op, mounted' \in Names \cup {""}
    PROVE  SaveInv'
<1>1. op' = op /\ op = AtRest
  BY DEF Working
<1>2. p \in Places
  BY PathsApart
<1>3. tree' \in [Places -> Trees] /\ placed' \in [Homes -> Trees]
  BY <1>2 DEF SaveInv, SaveTypes
<1>4. SavesWhole'
  <2> SUFFICES ASSUME NEW h \in Homes PROVE tree'[h] \in {NoTree, placed'[h]}
    BY DEF SavesWhole
  <2>1. h \in Places
    BY PathsApart
  <2>2. tree[h] \in {NoTree, placed[h]}
    BY DEF SaveInv, SavesWhole
  <2> QED
    BY <1>2, <2>1, <2>2 DEF SaveInv, SaveTypes
<1> QED
  BY <1>1, <1>3, <1>4 DEF SaveInv, SaveTypes, Working

\* Steps that leave the storage alone.
LEMMA RestKeeps ==
    ASSUME SaveInv, UNCHANGED <<tree, placed>>, op' \in {op, AtRest},
           mounted' \in Names \cup {""}
    PROVE  SaveInv'
<1>1. SaveTypes' /\ SavesWhole'
  BY DEF SaveInv, SaveTypes, SavesWhole
<1>2. CASE op' = AtRest
  BY <1>1, <1>2 DEF SaveInv, Working
<1>3. CASE op' = op
  BY <1>1, <1>3 DEF SaveInv, Working, From, SaveTmp, CopyAgrees, AwayAgrees
<1> QED
  BY <1>2, <1>3

LEMMA Shapes ==
    /\ NoTree \in Trees /\ Empty \in [SaveFiles -> 0 .. Torn] /\ Torn \in 0 .. Torn
    /\ 0 .. MaxVersion \subseteq 0 .. Torn /\ Absent \in 0 .. Torn
    /\ [SaveFiles -> 0 .. Torn] \subseteq Trees /\ NoFile \notin SaveFiles
<1>1. MaxVersion \in Nat
  BY SaveAssumption
<1>5. "" \notin SaveFiles
  BY SaveAssumption
<1>2. Torn \in Nat
  BY <1>1 DEF Torn
<1>3. Torn \in 0 .. Torn /\ Absent \in 0 .. Torn
  BY <1>2 DEF Absent
<1>4. 0 .. MaxVersion \subseteq 0 .. Torn
  BY <1>1 DEF Torn
<1> QED
  BY <1>5, <1>3, <1>4 DEF Trees, Empty, NoFile

\* A call that has begun knows its destination and its source.
LEMMA InACall ==
    ASSUME SaveInv, NamesApart, op.step \in Steps
    PROVE  /\ Working /\ op.to \in Homes
           /\ op \in [step : Steps, to : Homes, had : BOOLEAN, done : SUBSET SaveFiles,
                      file : SaveFiles \cup {NoFile}]
           /\ From \in [SaveFiles -> 0 .. Torn] /\ CopyAgrees /\ AwayAgrees
           /\ tree \in [Places -> Trees] /\ placed \in [Homes -> Trees]
           /\ mounted \in Names \cup {""}
           /\ SavesWhole
<1>1. op # AtRest
  <2>1. AtRest.step = "none"
    BY DEF AtRest
  <2> QED
    BY <2>1 DEF Steps
<1> QED
  BY <1>1 DEF SaveInv, SaveTypes, Working

\* Such a step keeps the invariant when it keeps the types and what is whole, the
\* source, and what the next step relies on.
LEMMA CallKeeps ==
    ASSUME SaveInv, NamesApart, op.step \in Steps,
           tree' \in [Places -> Trees], placed' \in [Homes -> Trees], SavesWhole',
           op' \in [step : Steps, to : Homes, had : BOOLEAN, done : SUBSET SaveFiles,
                    file : SaveFiles \cup {NoFile}],
           op'.to = op.to, tree'[Source(op.to)] = tree[Source(op.to)],
           CopyAgrees', AwayAgrees', UNCHANGED mounted
    PROVE  SaveInv'
<1>1. From' = From
  BY DEF From
<1> QED
  BY <1>1, InACall DEF SaveInv, SaveTypes

\* Only the copies beside the destination change.
LEMMA BesideKeeps ==
    ASSUME SaveInv, NamesApart, op.step \in Steps,
           \A p \in Homes : tree'[p] = tree[p], UNCHANGED placed
    PROVE  SavesWhole'
BY InACall DEF SavesWhole

LEMMA CleanUpKeeps ==
    ASSUME SaveInv, NamesApart, op.step \in Steps, NEW p \in Places \ Homes, CleanUp(p),
           "remove_fails" \notin SavePermitted
    PROVE  /\ tree' \in [Places -> Trees] /\ tree'[p] = NoTree
           /\ \A q \in Places \ {p} : tree'[q] = tree[q]
<1>1. tree' = [tree EXCEPT ![p] = NoTree]
  BY DEF CleanUp
<1>2. tree \in [Places -> Trees] /\ NoTree \in Trees
  BY InACall, Shapes
<1> QED
  BY <1>1, <1>2

LEMMA CopyingKeeps ==
    ASSUME SaveInv, NamesApart, "remove_fails" \notin SavePermitted,
           ClearTemporary \/ CopyBegin \/ FillCopy \/ \E f \in SaveFiles : OpenCopy(f)
    PROVE  SaveInv'
<1>1. op.step \in {"clear", "mkdir", "copy"} /\ op.step \in Steps
  BY DEF ClearTemporary, CopyBegin, FillCopy, OpenCopy, Steps
<1>2. /\ op.to \in Homes /\ SaveTmp \in Places \ Homes /\ Source(op.to) \in Homes
      /\ Homes \subseteq Places
  BY <1>1, InACall, PathsApart DEF SaveTmp
<1>3. /\ op \in [step : Steps, to : Homes, had : BOOLEAN, done : SUBSET SaveFiles,
                 file : SaveFiles \cup {NoFile}]
      /\ From \in [SaveFiles -> 0 .. Torn] /\ CopyAgrees
      /\ tree \in [Places -> Trees] /\ placed \in [Homes -> Trees]
  BY <1>1, InACall
<1>4. /\ tree' \in [Places -> Trees] /\ UNCHANGED <<placed, mounted>>
      /\ \A p \in Places \ {SaveTmp} : tree'[p] = tree[p]
      /\ op'.to = op.to /\ op'.step \in {"mkdir", "copy"}
      /\ op' \in [step : Steps, to : Homes, had : BOOLEAN, done : SUBSET SaveFiles,
                  file : SaveFiles \cup {NoFile}]
      /\ CopyAgrees'
  <2>1. CASE ClearTemporary
    <3>1. tree' \in [Places -> Trees] /\ tree'[SaveTmp] = NoTree
          /\ \A p \in Places \ {SaveTmp} : tree'[p] = tree[p]
      BY <1>1, <1>2, <2>1, CleanUpKeeps DEF ClearTemporary
    <3>2. op' = [op EXCEPT !.step = "mkdir"] /\ UNCHANGED <<placed, mounted>>
      BY <2>1 DEF ClearTemporary, Copying, Settled
    <3>3. op.step = "clear"
      BY <2>1 DEF ClearTemporary
    <3> QED
      BY <1>3, <3>1, <3>2, <3>3 DEF CopyAgrees, SaveTmp, Steps
  <2>2. CASE CopyBegin
    <3>1. op.step = "mkdir" /\ op' = [op EXCEPT !.step = "copy"]
          /\ UNCHANGED <<placed, mounted>>
      BY <2>2 DEF CopyBegin, Copying, Settled
    <3>2. tree[SaveTmp] = NoTree /\ op.done = {} /\ op.file = NoFile
      BY <3>1, <1>3 DEF CopyAgrees
    <3>3. tree' = [tree EXCEPT ![SaveTmp] = Empty]
      BY <2>2, <3>2 DEF CopyBegin
    <3>4. tree' \in [Places -> Trees] /\ tree'[SaveTmp] = Empty
          /\ \A p \in Places \ {SaveTmp} : tree'[p] = tree[p]
      BY <3>3, <1>2, <1>3, Shapes
    <3>5. \A f \in SaveFiles : Empty[f] = Absent
      BY DEF Empty
    <3> QED
      BY <1>3, <3>1, <3>2, <3>4, <3>5, Shapes DEF CopyAgrees, SaveTmp, Steps
  <2>3. CASE FillCopy
    <3>1. op.step = "copy" /\ op.file # NoFile /\ op.file \in SaveFiles
          /\ op' = [op EXCEPT !.done = @ \cup {op.file}, !.file = NoFile]
          /\ UNCHANGED <<placed, mounted>>
      BY <2>3, <1>3 DEF FillCopy, Copying, Settled
    <3>2. tree[SaveTmp] \in [SaveFiles -> 0 .. Torn]
      BY <3>1, <1>3 DEF CopyAgrees
    <3> DEFINE new == [tree[SaveTmp] EXCEPT ![op.file] = From[op.file]]
    <3>3. new \in [SaveFiles -> 0 .. Torn] /\ new[op.file] = From[op.file]
          /\ \A f \in SaveFiles \ {op.file} : new[f] = tree[SaveTmp][f]
      BY <3>1, <3>2, <1>3
    <3>4. tree' = [tree EXCEPT ![SaveTmp] = new]
      BY <2>3 DEF FillCopy
    <3> HIDE DEF new
    <3>5. tree' \in [Places -> Trees] /\ tree'[SaveTmp] = new
          /\ \A p \in Places \ {SaveTmp} : tree'[p] = tree[p]
      BY <3>3, <3>4, <1>2, <1>3, Shapes
    <3>6. From' = From
      BY <3>1, <3>5, <1>2, <1>3 DEF From
    <3> QED
      BY <1>3, <3>1, <3>3, <3>5, <3>6 DEF CopyAgrees, SaveTmp, Steps
  <2>4. CASE \E f \in SaveFiles : OpenCopy(f)
    <3>1. PICK f \in SaveFiles : OpenCopy(f)
      BY <2>4
    <3>2. op.step = "copy" /\ op.file = NoFile /\ f \notin op.done
          /\ op' = [op EXCEPT !.file = f] /\ UNCHANGED <<placed, mounted>>
      BY <3>1 DEF OpenCopy, Copying, Settled
    <3>3. tree[SaveTmp] \in [SaveFiles -> 0 .. Torn]
      BY <3>2, <1>3 DEF CopyAgrees
    <3> DEFINE new == [tree[SaveTmp] EXCEPT ![f] = Torn]
    <3>4. new \in [SaveFiles -> 0 .. Torn]
          /\ \A g \in SaveFiles \ {f} : new[g] = tree[SaveTmp][g]
      BY <3>3, Shapes
    <3>5. tree' = [tree EXCEPT ![SaveTmp] = new]
      BY <3>1 DEF OpenCopy
    <3> HIDE DEF new
    <3>6. tree' \in [Places -> Trees] /\ tree'[SaveTmp] = new
          /\ \A p \in Places \ {SaveTmp} : tree'[p] = tree[p]
      BY <3>4, <3>5, <1>2, <1>3, Shapes
    <3>7. From' = From
      BY <3>2, <3>6, <1>2, <1>3 DEF From
    <3> QED
      BY <1>3, <3>2, <3>4, <3>6, <3>7, Shapes DEF CopyAgrees, SaveTmp, Steps
  <2> QED
    BY <2>1, <2>2, <2>3, <2>4
<1>5. SavesWhole'
  BY <1>1, <1>2, <1>4, BesideKeeps
<1>6. AwayAgrees'
  BY <1>4 DEF AwayAgrees
<1> QED
  BY <1>1, <1>2, <1>3, <1>4, <1>5, <1>6, CallKeeps

LEMMA MovingKeeps ==
    ASSUME SaveInv, NamesApart, "remove_fails" \notin SavePermitted,
           CopyEnd \/ DropPrevious \/ MoveAway
    PROVE  SaveInv'
<1>1. op.step \in {"copy", "drop", "away"} /\ op.step \in Steps
  BY DEF CopyEnd, DropPrevious, MoveAway, Steps
<1>2. /\ op.to \in Homes /\ SaveTmp \in Places \ Homes /\ Source(op.to) \in Homes \ {op.to}
      /\ Old(op.to) \in Places \ Homes /\ SaveTmp # Old(op.to)
      /\ Homes \subseteq Places
  BY <1>1, InACall, PathsApart DEF SaveTmp
<1>3. /\ op \in [step : Steps, to : Homes, had : BOOLEAN, done : SUBSET SaveFiles,
                 file : SaveFiles \cup {NoFile}]
      /\ From \in [SaveFiles -> 0 .. Torn] /\ CopyAgrees /\ AwayAgrees
      /\ tree \in [Places -> Trees] /\ placed \in [Homes -> Trees] /\ SavesWhole
  BY <1>1, InACall
<1>4. tree[op.to] \in {NoTree, placed[op.to]}
  BY <1>2, <1>3 DEF SavesWhole
<1>5. CASE CopyEnd
  <2>1. /\ op.step = "copy" /\ op.file = NoFile /\ UNCHANGED <<tree, placed, mounted>>
        /\ \A f \in SaveFiles : From[f] # Absent => f \in op.done
        /\ \E had \in BOOLEAN : /\ op' = [op EXCEPT !.step = "drop", !.had = had]
                                /\ had => tree[op.to] # NoTree
    BY <1>5 DEF CopyEnd, Copying, Unmoved, Settled
  <2>2. tree[SaveTmp] = From
    <3>1. tree[SaveTmp] \in [SaveFiles -> 0 .. Torn]
      BY <2>1, <1>3 DEF CopyAgrees
    <3>2. \A f \in SaveFiles : tree[SaveTmp][f] = From[f]
      BY <2>1, <1>3, Shapes DEF CopyAgrees
    <3> QED
      BY <3>1, <3>2, <1>3
  <2>3. op'.step = "drop" /\ op'.to = op.to /\ From' = From /\ (op'.had => tree[op.to] # NoTree)
        /\ op' \in [step : Steps, to : Homes, had : BOOLEAN, done : SUBSET SaveFiles,
                    file : SaveFiles \cup {NoFile}]
    BY <2>1, <1>3 DEF From, Steps
  <2>4. CopyAgrees' /\ AwayAgrees'
    BY <2>1, <2>2, <2>3 DEF CopyAgrees, AwayAgrees, SaveTmp
  <2>5. SavesWhole'
    BY <2>1, <1>3 DEF SavesWhole
  <2> QED
    BY <1>1, <1>3, <2>1, <2>3, <2>4, <2>5, CallKeeps
<1>6. CASE DropPrevious
  <2>1. /\ op.step = "drop" /\ op' = [op EXCEPT !.step = IF op.had THEN "away" ELSE "in"]
        /\ UNCHANGED <<placed, mounted>> /\ CleanUp(Old(op.to))
    BY <1>6 DEF DropPrevious, Copying, Settled
  <2>2. tree' \in [Places -> Trees] /\ \A p \in Places \ {Old(op.to)} : tree'[p] = tree[p]
    BY <2>1, <1>1, <1>2, CleanUpKeeps
  <2>3. op'.step \in {"away", "in"} /\ op'.to = op.to /\ op'.had = op.had
        /\ (op'.step = "in" => ~op.had) /\ (op'.step = "away" => op.had)
        /\ op' \in [step : Steps, to : Homes, had : BOOLEAN, done : SUBSET SaveFiles,
                    file : SaveFiles \cup {NoFile}]
    BY <2>1, <1>3 DEF Steps
  <2>4. tree'[SaveTmp] = tree[SaveTmp] /\ tree'[op.to] = tree[op.to] /\ From' = From
    BY <2>2, <2>3, <1>2 DEF From
  <2>5. CopyAgrees' /\ AwayAgrees'
    BY <1>3, <2>1, <2>3, <2>4 DEF CopyAgrees, AwayAgrees, SaveTmp
  <2>6. SavesWhole'
    BY <1>1, <1>2, <2>1, <2>2, BesideKeeps
  <2> QED
    BY <1>1, <1>2, <1>3, <2>1, <2>2, <2>3, <2>5, <2>6, CallKeeps
<1>7. CASE MoveAway
  <2>1. op.step = "away" /\ UNCHANGED <<placed, mounted>>
        /\ tree[SaveTmp] = From /\ tree[op.to] # NoTree /\ tree[op.to] = placed[op.to]
    BY <1>7, <1>3, <1>4 DEF MoveAway, Copying, Settled, CopyAgrees, AwayAgrees
  <2>2. CASE Rename(op.to, Old(op.to)) /\ op' = [op EXCEPT !.step = "in"]
    <3>1. /\ tree' \in [Places -> Trees]
          /\ tree'[Old(op.to)] = tree[op.to] /\ tree'[op.to] = NoTree
          /\ \A p \in Places \ {op.to, Old(op.to)} : tree'[p] = tree[p]
      BY <2>2, <1>2, <1>3, TreesMoved
    <3>2. op'.step = "in" /\ op'.to = op.to
          /\ op' \in [step : Steps, to : Homes, had : BOOLEAN, done : SUBSET SaveFiles,
                      file : SaveFiles \cup {NoFile}]
      BY <2>2, <1>3 DEF Steps
    <3>3. tree'[SaveTmp] = tree[SaveTmp] /\ From' = From
      BY <3>1, <3>2, <1>2 DEF From
    <3>4. CopyAgrees' /\ AwayAgrees'
      BY <2>1, <3>1, <3>2, <3>3 DEF CopyAgrees, AwayAgrees, SaveTmp
    <3>5. SavesWhole'
      BY <1>2, <1>3, <2>1, <3>1 DEF SavesWhole
    <3> QED
      BY <1>1, <1>2, <1>3, <2>1, <3>1, <3>2, <3>4, <3>5, CallKeeps
  <2>3. CASE RefusesRename(Old(op.to)) /\ op' = [op EXCEPT !.step = "back"]
    <3>1. tree' = tree
      BY <2>3 DEF RefusesRename
    <3>2. op'.step = "back" /\ op'.to = op.to
          /\ op' \in [step : Steps, to : Homes, had : BOOLEAN, done : SUBSET SaveFiles,
                      file : SaveFiles \cup {NoFile}]
      BY <2>3, <1>3 DEF Steps
    <3>3. CopyAgrees' /\ AwayAgrees' /\ SavesWhole'
      BY <1>3, <2>1, <3>1, <3>2 DEF CopyAgrees, AwayAgrees, SavesWhole
    <3> QED
      BY <1>1, <1>3, <2>1, <3>1, <3>2, <3>3, CallKeeps
  <2> QED
    BY <1>7, <2>2, <2>3 DEF MoveAway
<1> QED
  BY <1>5, <1>6, <1>7

LEMMA EndingKeeps ==
    ASSUME SaveInv, NamesApart, "remove_fails" \notin SavePermitted,
           CopyFails \/ MoveIn \/ MoveBack \/ Undo \/ Finish
    PROVE  SaveInv'
<1>1. op.step \in Steps
  BY DEF CopyFails, MoveIn, MoveBack, Undo, Finish, Steps
<1>2. /\ op.to \in Homes /\ SaveTmp \in Places \ Homes /\ Source(op.to) \in Homes \ {op.to}
      /\ Old(op.to) \in Places \ Homes /\ SaveTmp # Old(op.to)
      /\ Homes \subseteq Places
  BY <1>1, InACall, PathsApart DEF SaveTmp
<1>3. /\ op \in [step : Steps, to : Homes, had : BOOLEAN, done : SUBSET SaveFiles,
                 file : SaveFiles \cup {NoFile}]
      /\ From \in [SaveFiles -> 0 .. Torn] /\ CopyAgrees /\ AwayAgrees
      /\ tree \in [Places -> Trees] /\ placed \in [Homes -> Trees] /\ SavesWhole
      /\ mounted \in Names \cup {""}
  BY <1>1, InACall
<1>4. CASE op' = AtRest /\ UNCHANGED <<placed, mounted>>
           /\ tree' \in [Places -> Trees] /\ \A p \in Homes : tree'[p] = tree[p]
  <2>1. SavesWhole'
    BY <1>1, <1>4, BesideKeeps
  <2> QED
    BY <1>3, <1>4, <2>1 DEF SaveInv, SaveTypes, Working
<1>5. CASE Undo
  BY <1>1, <1>2, <1>4, <1>5, CleanUpKeeps DEF Undo, Copying, Settled
<1>6. CASE Finish
  BY <1>1, <1>2, <1>4, <1>6, CleanUpKeeps DEF Finish, Copying, Settled
<1>7. CASE CopyFails
  <2>1. op' = [op EXCEPT !.step = "undo"] /\ UNCHANGED <<tree, placed, mounted>>
    BY <1>7 DEF CopyFails, Copying, Unmoved, Settled
  <2>2. op'.step = "undo" /\ op'.to = op.to
        /\ op' \in [step : Steps, to : Homes, had : BOOLEAN, done : SUBSET SaveFiles,
                    file : SaveFiles \cup {NoFile}]
    BY <2>1, <1>3 DEF Steps
  <2>3. CopyAgrees' /\ AwayAgrees' /\ SavesWhole'
    BY <1>3, <2>1, <2>2 DEF CopyAgrees, AwayAgrees, SavesWhole
  <2> QED
    BY <1>1, <1>3, <2>1, <2>2, <2>3, CallKeeps
<1>8. CASE MoveIn
  <2>1. op.step = "in" /\ UNCHANGED mounted /\ tree[SaveTmp] = From
        /\ (op.had => tree[Old(op.to)] = placed[op.to])
    BY <1>8, <1>3 DEF MoveIn, Copying, Settled, CopyAgrees, AwayAgrees
  <2>2. CASE /\ Rename(SaveTmp, op.to) /\ op' = [op EXCEPT !.step = "end"]
             /\ placed' = [placed EXCEPT ![op.to] = From]
    <3>1. /\ tree' \in [Places -> Trees]
          /\ tree'[op.to] = From
          /\ \A p \in Places \ {SaveTmp, op.to} : tree'[p] = tree[p]
      <4>1. SaveTmp \in Places /\ op.to \in Places /\ SaveTmp # op.to
        BY <1>2
      <4>2. tree \in [Places -> Trees]
        BY <1>3
      <4> QED
        BY <2>1, <2>2, <4>1, <4>2, TreesMoved
    <3>2. op'.step = "end" /\ op'.to = op.to
          /\ op' \in [step : Steps, to : Homes, had : BOOLEAN, done : SUBSET SaveFiles,
                      file : SaveFiles \cup {NoFile}]
      BY <2>2, <1>3 DEF Steps
    <3>3. placed' \in [Homes -> Trees] /\ placed'[op.to] = From
          /\ \A p \in Homes \ {op.to} : placed'[p] = placed[p]
      BY <2>2, <1>2, <1>3, Shapes
    <3>4. SavesWhole'
      <4> SUFFICES ASSUME NEW p \in Homes PROVE tree'[p] \in {NoTree, placed'[p]}
        BY DEF SavesWhole
      <4>1. CASE p = op.to
        BY <4>1, <3>1, <3>3
      <4>2. CASE p # op.to
        <5>1. tree'[p] = tree[p] /\ placed'[p] = placed[p]
          BY <4>2, <3>1, <3>3, <1>2
        <5>2. tree[p] \in {NoTree, placed[p]}
          BY <1>3 DEF SavesWhole
        <5> QED
          BY <5>1, <5>2
      <4> QED
        BY <4>1, <4>2
    <3>5. CopyAgrees' /\ AwayAgrees'
      BY <3>2 DEF CopyAgrees, AwayAgrees
    <3>6. tree'[Source(op.to)] = tree[Source(op.to)]
      BY <1>2, <3>1
    <3>7. UNCHANGED mounted /\ tree' \in [Places -> Trees] /\ placed' \in [Homes -> Trees]
      BY <2>1, <3>1, <3>3
    <3> QED
      BY <1>1, <3>2, <3>4, <3>5, <3>6, <3>7, CallKeeps
  <2>3. CASE /\ RefusesRename(op.to) /\ UNCHANGED placed
             /\ op' = [op EXCEPT !.step = IF op.had THEN "back" ELSE "undo"]
    <3>1. tree' = tree
      BY <2>3 DEF RefusesRename
    <3>2. op'.step \in {"back", "undo"} /\ op'.to = op.to /\ (op'.step = "back" => op.had)
          /\ op' \in [step : Steps, to : Homes, had : BOOLEAN, done : SUBSET SaveFiles,
                      file : SaveFiles \cup {NoFile}]
      BY <2>3, <1>3 DEF Steps
    <3>3. CopyAgrees' /\ AwayAgrees' /\ SavesWhole'
      BY <1>3, <2>1, <2>3, <3>1, <3>2 DEF CopyAgrees, AwayAgrees, SavesWhole
    <3> QED
      BY <1>1, <1>3, <2>1, <2>3, <3>1, <3>2, <3>3, CallKeeps
  <2> QED
    BY <1>8, <2>2, <2>3 DEF MoveIn, Settled
<1>9. CASE MoveBack
  <2>1. op.step = "back" /\ op' = [op EXCEPT !.step = "undo"] /\ UNCHANGED <<placed, mounted>>
        /\ (tree[op.to] # NoTree \/ tree[Old(op.to)] = placed[op.to])
    BY <1>9, <1>3 DEF MoveBack, Copying, Settled, AwayAgrees
  <2>2. op'.step = "undo" /\ op'.to = op.to
        /\ op' \in [step : Steps, to : Homes, had : BOOLEAN, done : SUBSET SaveFiles,
                    file : SaveFiles \cup {NoFile}]
    BY <2>1, <1>3 DEF Steps
  <2>3. CopyAgrees' /\ AwayAgrees'
    BY <2>2 DEF CopyAgrees, AwayAgrees
  <2>4. tree' \in [Places -> Trees] /\ tree'[Source(op.to)] = tree[Source(op.to)] /\ SavesWhole'
    <3>1. CASE Rename(Old(op.to), op.to)
      <4>1. /\ tree' \in [Places -> Trees]
            /\ tree'[op.to] = tree[Old(op.to)] /\ tree[op.to] = NoTree
            /\ \A p \in Places \ {Old(op.to), op.to} : tree'[p] = tree[p]
        <5>1. Old(op.to) \in Places /\ op.to \in Places /\ Old(op.to) # op.to
          BY <1>2
        <5>2. tree \in [Places -> Trees]
          BY <1>3
        <5> QED
          BY <3>1, <5>1, <5>2, TreesMoved
      <4>2. SavesWhole'
        BY <1>2, <1>3, <2>1, <4>1 DEF SavesWhole
      <4> QED
        BY <4>1, <4>2, <1>2
    <3>2. CASE UNCHANGED tree
      BY <3>2, <1>3, <2>1 DEF SavesWhole
    <3> QED
      BY <1>9, <3>1, <3>2 DEF MoveBack
  <2> QED
    BY <1>1, <1>3, <2>1, <2>2, <2>3, <2>4, CallKeeps
<1> QED
  BY <1>5, <1>6, <1>7, <1>8, <1>9

LEMMA BeginKeeps ==
    ASSUME SaveInv, NamesApart, NEW to \in Homes, Begin(to)
    PROVE  SaveInv'
<1>1. /\ tree \in [Places -> Trees] /\ placed \in [Homes -> Trees] /\ SavesWhole
      /\ mounted \in Names \cup {""}
  BY DEF SaveInv, SaveTypes
<1>2. op' = [AtRest EXCEPT !.step = "clear", !.to = to] /\ UNCHANGED <<tree, placed, mounted>>
      /\ tree[Source(to)] # NoTree
  BY DEF Begin, Copying, Unmoved, Settled
<1>3. /\ op'.step = "clear" /\ op'.to = to /\ op'.done = {} /\ op'.file = NoFile
      /\ op' \in [step : Steps, to : Homes, had : BOOLEAN, done : SUBSET SaveFiles,
                  file : SaveFiles \cup {NoFile}]
  BY <1>2 DEF AtRest, Steps
<1>4. Source(to) \in Homes /\ Homes \subseteq Places
  BY PathsApart
<1>5. tree[Source(to)] \in [SaveFiles -> 0 .. Torn]
  BY <1>1, <1>2, <1>4 DEF Trees
<1>6. From' \in [SaveFiles -> 0 .. Torn] /\ CopyAgrees' /\ AwayAgrees'
  BY <1>2, <1>3, <1>5 DEF From, CopyAgrees, AwayAgrees
<1> QED
  BY <1>1, <1>2, <1>3, <1>6 DEF SaveInv, SaveTypes, SavesWhole

LEMMA SaveInvInit == SaveInit => SaveInv
<1> SUFFICES ASSUME SaveInit PROVE SaveInv
  OBVIOUS
<1>1. \A p \in Homes : p \in Places
  BY DEF Homes, Places
<1>2. tree \in [Places -> Trees] /\ placed \in [Homes -> Trees] /\ op = AtRest
      /\ mounted \in Names \cup {""} /\ \A p \in Places : tree[p] = NoTree
  BY Shapes DEF SaveInit
<1> QED
  BY <1>1, <1>2 DEF SaveInv, SaveTypes, SavesWhole, Working

LEMMA SaveInvNext ==
    ASSUME NamesApart, "remove_fails" \notin SavePermitted, SaveInv,
           [SaveNext]_saveVars
    PROVE  SaveInv'
<1>1. mounted \in Names \cup {""} /\ tree \in [Places -> Trees]
  BY DEF SaveInv, SaveTypes
<1>2. \A n \in Names, a \in Areas : <<a, n>> \in Homes
  BY DEF Homes
<1>3. CASE Initialize \/ Terminate \/ Umount \/ SaveReset \/ Crash \/ UNCHANGED saveVars
  BY <1>1, <1>3, RestKeeps
     DEF Initialize, Terminate, Umount, SaveReset, Crash, Forgotten, Settled, saveVars, copies
<1>4. ASSUME NEW n \in Names, SaveStep(n) PROVE SaveInv'
  <2>1. <<"save", n>> \in Homes /\ <<"backup", n>> \in Homes
    BY <1>2 DEF Areas
  <2>2. CASE Mount(n)
    <3>1. ~Working /\ mounted' \in Names \cup {""}
      BY <2>2 DEF Mount, Calling
    <3>2. CASE MakeDirectory(<<"save", n>>)
      BY <3>1, <3>2, <2>1, PutKeeps, Shapes DEF MakeDirectory
    <3>3. CASE UNCHANGED copies
      BY <3>1, <3>3, RestKeeps DEF copies
    <3> QED
      BY <2>2, <3>2, <3>3 DEF Mount
  <2>3. CASE TransferringMount(n)
    BY <2>3, RestKeeps DEF TransferringMount, copies
  <2>4. CASE Delete(n)
    BY <2>1, <2>4, <1>1, PutKeeps, Shapes DEF Delete, Put
  <2>5. CASE Backup(n)
    BY <2>1, <2>5, BeginKeeps DEF Backup
  <2>6. CASE Restore(n)
    BY <2>1, <2>6, BeginKeeps DEF Restore
  <2> QED
    BY <1>4, <2>2, <2>3, <2>4, <2>5, <2>6 DEF SaveStep
<1>5. ASSUME NEW f \in SaveFiles, NEW content \in 0 .. MaxVersion, Store(f, content)
      PROVE  SaveInv'
  <2>1. mounted \in Names /\ ~Working /\ UNCHANGED mounted
    BY <1>1, <1>5 DEF Store
  <2>2. <<"save", mounted>> \in Homes /\ Homes \subseteq Places
    BY <1>2, <2>1, PathsApart DEF Areas
  <2> DEFINE old == tree[<<"save", mounted>>]
  <2>3. old \in [SaveFiles -> 0 .. Torn]
    BY <1>1, <1>5, <2>2 DEF Store, Trees
  <2>4. [old EXCEPT ![f] = content] \in Trees
    BY <2>3, Shapes
  <2>5. Put(<<"save", mounted>>, [old EXCEPT ![f] = content])
    BY <1>5 DEF Store
  <2> QED
    BY <1>1, <2>1, <2>2, <2>4, <2>5, PutKeeps DEF Put
<1>6. CASE BackupStep
  BY <1>6, CopyingKeeps, MovingKeeps, EndingKeeps DEF BackupStep
<1>7. CASE MemoryStep
  BY <1>1, <1>7, RestKeeps DEF MemoryStep, SetupMemory, SetMemory, Settled, copies
<1> QED
  BY <1>3, <1>4, <1>5, <1>6, <1>7 DEF SaveNext

\* What stands at a save or a backup is the title's, or an exact copy of the other.
THEOREM SavesWholeHolds ==
    NamesApart /\ "remove_fails" \notin SavePermitted => (SaveSpec => []SavesWhole)
<1> SUFFICES ASSUME NamesApart, "remove_fails" \notin SavePermitted
             PROVE  SaveSpec => []SavesWhole
  OBVIOUS
<1>1. SaveInv /\ [SaveNext]_saveVars => SaveInv'
  BY SaveInvNext
<1>2. SaveInv => SavesWhole
  BY DEF SaveInv
<1> QED
  BY SaveInvInit, <1>1, <1>2, PTL DEF SaveSpec
-----------------------------------------------------------------------------
(***************************************************************************)
(* Nothing is lost by the first cut or refusal.  KeptInv says where the      *)
(* state of each save is: at its place, or beside it once a cut has left it  *)
(* there; while a call moves it, what the step it has come to says.  It      *)
(* needs that at most one fault has happened: a copy is moved in only when   *)
(* the old state is beside the place or there was none, or a cut has spent   *)
(* the fault already.  Lasts says what a call copies: what the title made,   *)
(* and not the directory a mount made after a cut.                          *)
(***************************************************************************)
Kept(p, trees, whole, cuts) ==
    whole[p] # NoTree =>
      trees[p] = whole[p] \/ (trees[Old(p)] = whole[p] /\ cuts > 0)
Beside(p)  == op.to = p /\ (op.step \in {"in", "back"} \/ (op.step = "away" /\ crashes > 0))
FirstFault == crashes \in Nat /\ refusals \in Nat /\ crashes + refusals <= 1
PlaceKept  == \A p \in Homes : ~Beside(p) => Kept(p, tree, lasting, crashes)
CallKept ==
    /\ op.step = "drop" => (op.had <=> tree[op.to] # NoTree)
    /\ op.step = "away" => op.had /\ tree[op.to] # NoTree /\ tree[Old(op.to)] = NoTree
    /\ op.step = "in" => /\ tree[op.to] = NoTree
                         /\ ~op.had /\ lasting[op.to] # NoTree => crashes > 0
    /\ op.step = "back" => refusals > 0
    /\ op.step = "end" => tree[op.to] = lasting[op.to]
Lasts ==
    /\ lasting \in [Homes -> Trees]
    /\ \A p \in Homes : crashes = 0 \/ p[1] = "backup" => lasting[p] = placed[p]
    /\ op.step \in Steps => tree[Source(op.to)] = lasting[Source(op.to)]
KeptInv == FirstFault /\ PlaceKept /\ CallKept /\ Lasts

\* What the theorem is about: applications that remove what they are told to, and
\* answer stat; titles that do not back up the empty save they got in place of one a
\* cut has left beside; names that are apart; one fault.
OneFault ==
    /\ NamesApart /\ MaxFaults <= 1
    /\ SavePermitted \cap {"remove_fails", "stat_fails", "vacant_backup"} = {}

LEMMA OldsApart ==
    ASSUME NamesApart, NEW p \in Homes, NEW q \in Homes
    PROVE  /\ p # q => Old(p) # Old(q)
           /\ Old(p) # Tmp(q)
<1>1. PICK a \in Areas, n \in Names : p = <<a, n>>
  BY DEF Homes
<1>2. PICK b \in Areas, m \in Names : q = <<b, m>>
  BY DEF Homes
<1>3. /\ <<n, "old">> \in Names \X Marks /\ <<m, "old">> \in Names \X Marks
      /\ <<m, "tmp">> \in Names \X Marks
  BY DEF Marks
<1>4. /\ Marked[<<n, "old">>] = Marked[<<m, "old">>] => <<n, "old">> = <<m, "old">>
      /\ Marked[<<n, "old">>] = Marked[<<m, "tmp">>] => <<n, "old">> = <<m, "tmp">>
  BY <1>3, SaveAssumption
<1>5. Old(p) = <<a, Marked[<<n, "old">>]>> /\ Old(q) = <<b, Marked[<<m, "old">>]>>
      /\ Tmp(q) = <<b, Marked[<<m, "tmp">>]>>
  BY <1>1, <1>2 DEF Old, Tmp
<1>6. <<n, "old">> = <<m, "old">> => n = m
  OBVIOUS
<1>7. <<n, "old">> # <<m, "tmp">>
  OBVIOUS
<1> QED BY <1>1, <1>2, <1>4, <1>5, <1>6, <1>7

\* The places a call has to do with.
LEMMA CallPlaces ==
    ASSUME SaveInv, NamesApart, op.step \in Steps
    PROVE  /\ op.to \in Homes /\ Homes \subseteq Places
           /\ SaveTmp \in Places \ Homes /\ Old(op.to) \in Places \ Homes
           /\ SaveTmp # Old(op.to)
           /\ Source(op.to) \in Homes \ {op.to}
           /\ \A p \in Homes : Old(p) \in Places \ Homes /\ Old(p) # SaveTmp
           /\ \A p \in Homes \ {op.to} : Old(p) # Old(op.to)
<1>1. op.to \in Homes
  BY InACall
<1>2. \A p \in Homes : /\ Homes \subseteq Places
                       /\ Tmp(p) \in Places \ Homes /\ Old(p) \in Places \ Homes
                       /\ Tmp(p) # Old(p) /\ Source(p) \in Homes \ {p}
  BY PathsApart
<1>3. \A p \in Homes : Old(p) # Tmp(op.to) /\ (p # op.to => Old(p) # Old(op.to))
  BY <1>1, OldsApart
<1> QED BY <1>1, <1>2, <1>3 DEF SaveTmp

\* What the other saves are is none of a call's business.
LEMMA OthersKept ==
    ASSUME SaveInv, KeptInv, NamesApart, op.step \in Steps,
           \A r \in Places \ {op.to, SaveTmp, Old(op.to)} : tree'[r] = tree[r],
           \A p \in Homes \ {op.to} : lasting'[p] = lasting[p],
           NEW p \in Homes \ {op.to}
    PROVE  Kept(p, tree', lasting', crashes)
<1>1. /\ p \in Places \ {op.to, SaveTmp, Old(op.to)}
      /\ Old(p) \in Places \ {op.to, SaveTmp, Old(op.to)}
  BY CallPlaces
<1>2. Kept(p, tree, lasting, crashes)
  BY DEF KeptInv, PlaceKept, Beside
<1> QED BY <1>1, <1>2 DEF Kept

\* What a call copies stays what it was.
LEMMA LastsKept ==
    ASSUME SaveInv, KeptInv, NamesApart, op.step \in Steps, Settled, UNCHANGED crashes,
           \A r \in Places \ {op.to, SaveTmp, Old(op.to)} : tree'[r] = tree[r],
           op' = AtRest \/ op'.to = op.to
    PROVE  Lasts'
<1>1. /\ lasting' \in [Homes -> Trees]
      /\ \A p \in Homes : crashes' = 0 \/ p[1] = "backup" => lasting'[p] = placed'[p]
  BY DEF KeptInv, Lasts, Settled
<1>2. op'.step \in Steps => op'.to = op.to
  <2>1. AtRest.step = "none"
    BY DEF AtRest
  <2> QED BY <2>1 DEF Steps
<1>3. Source(op.to) \in Places \ {op.to, SaveTmp, Old(op.to)}
  BY CallPlaces
<1>4. tree'[Source(op.to)] = lasting'[Source(op.to)]
  BY <1>3 DEF KeptInv, Lasts, Settled
<1> QED BY <1>1, <1>2, <1>4 DEF Lasts

\* The first refusal is the last.
LEMMA Faults ==
    ASSUME FirstFault, MaxFaults <= 1
    PROVE  /\ Refusing => crashes = 0 /\ refusals = 0 /\ refusals' = 1
           /\ crashes + refusals < MaxFaults => crashes = 0 /\ refusals = 0
<1>1. MaxFaults \in Nat
  BY SaveAssumption
<1> QED BY <1>1 DEF FirstFault, Refusing

\* Clearing, copying and undoing touch the copy alone.
LEMMA CopyKept ==
    ASSUME SaveInv, KeptInv, OneFault,
           \/ ClearTemporary \/ CopyBegin \/ FillCopy \/ CopyFails \/ Undo
           \/ \E f \in SaveFiles : OpenCopy(f)
    PROVE  KeptInv'
<1>1. op.step \in {"clear", "mkdir", "copy", "undo"} /\ op.step \in Steps
  BY DEF ClearTemporary, CopyBegin, FillCopy, OpenCopy, CopyFails, Undo, Steps
<1>2. NamesApart /\ tree \in [Places -> Trees]
      /\ op \in [step : Steps, to : Homes, had : BOOLEAN, done : SUBSET SaveFiles,
                 file : SaveFiles \cup {NoFile}]
  BY <1>1, InACall DEF OneFault
<1>3. \E content : tree' = [tree EXCEPT ![SaveTmp] = content] \/ tree' = tree
  BY DEF ClearTemporary, CopyBegin, FillCopy, OpenCopy, CopyFails, Undo, CleanUp, OneFault,
         Unmoved
<1>4. \A r \in Places \ {SaveTmp} : tree'[r] = tree[r]
  BY <1>2, <1>3
<1>5. Settled /\ UNCHANGED <<lasting, crashes>>
  BY DEF ClearTemporary, CopyBegin, FillCopy, OpenCopy, CopyFails, Undo, Copying, Unmoved, Settled
<1>6. op' = AtRest \/ (op'.to = op.to /\ op'.step \in {"mkdir", "copy", "undo"})
  BY <1>2 DEF ClearTemporary, CopyBegin, FillCopy, OpenCopy, CopyFails, Undo
<1>7. op'.step \in {"none", "mkdir", "copy", "undo"}
  <2>1. AtRest.step = "none"
    BY DEF AtRest
  <2> QED BY <1>6, <2>1
<1>8. refusals' = refusals \/ Refusing
  BY DEF ClearTemporary, CopyBegin, FillCopy, OpenCopy, CopyFails, Undo, CleanUp, OneFault
<1>9. FirstFault'
  BY <1>5, <1>8, Faults DEF KeptInv, FirstFault, OneFault
<1>10. ASSUME NEW p \in Homes PROVE Kept(p, tree', lasting', crashes')
  <2>1. Kept(p, tree, lasting, crashes)
    BY <1>1 DEF KeptInv, PlaceKept, Beside
  <2>2. tree'[p] = tree[p] /\ tree'[Old(p)] = tree[Old(p)]
    BY <1>1, <1>2, <1>4, CallPlaces
  <2> QED BY <1>5, <2>1, <2>2 DEF Kept
<1>11. PlaceKept'
  BY <1>10 DEF PlaceKept
<1>12. CallKept'
  BY <1>7 DEF CallKept
<1>13. Lasts'
  BY <1>1, <1>2, <1>4, <1>5, <1>6, LastsKept
<1> QED BY <1>9, <1>11, <1>12, <1>13 DEF KeptInv

LEMMA CopyEndKept ==
    ASSUME SaveInv, KeptInv, OneFault, CopyEnd
    PROVE  KeptInv'
<1>1. op.step = "copy" /\ op.step \in Steps /\ Settled
      /\ UNCHANGED <<tree, lasting, crashes, refusals>>
      /\ op' = [op EXCEPT !.step = "drop", !.had = tree[op.to] # NoTree]
  BY DEF CopyEnd, Copying, Unmoved, Settled, OneFault, Steps
<1>2. op \in [step : Steps, to : Homes, had : BOOLEAN, done : SUBSET SaveFiles,
              file : SaveFiles \cup {NoFile}]
  BY <1>1, InACall DEF OneFault
<1>3. op'.step = "drop" /\ op'.to = op.to /\ (op'.had <=> tree[op.to] # NoTree)
  BY <1>1, <1>2
<1>4. CallKept'
  BY <1>1, <1>3 DEF CallKept
<1>5. PlaceKept'
  <2>1. \A p \in Homes : Kept(p, tree, lasting, crashes)
    BY <1>1 DEF KeptInv, PlaceKept, Beside
  <2> QED BY <1>1, <2>1 DEF PlaceKept
<1>6. FirstFault'
  BY <1>1 DEF KeptInv, FirstFault
<1>7. Lasts'
  BY <1>1, <1>3, LastsKept DEF OneFault
<1> QED BY <1>4, <1>5, <1>6, <1>7 DEF KeptInv

LEMMA DropPreviousKept ==
    ASSUME SaveInv, KeptInv, OneFault, DropPrevious
    PROVE  KeptInv'
<1>1. op.step = "drop" /\ op.step \in Steps /\ Settled
      /\ UNCHANGED <<lasting, crashes, refusals>>
      /\ op' = [op EXCEPT !.step = IF op.had THEN "away" ELSE "in"]
      /\ tree' = [tree EXCEPT ![Old(op.to)] = NoTree]
  BY DEF DropPrevious, Copying, Settled, OneFault, Steps, CleanUp
<1>2. /\ op \in [step : Steps, to : Homes, had : BOOLEAN, done : SUBSET SaveFiles,
                 file : SaveFiles \cup {NoFile}]
      /\ tree \in [Places -> Trees] /\ SavesWhole /\ NamesApart
  BY <1>1, InACall DEF OneFault
<1>3. /\ op.to \in Homes /\ op.to \in Places /\ Old(op.to) \in Places /\ Old(op.to) # op.to
      /\ \A r \in Places \ {Old(op.to)} : tree'[r] = tree[r]
      /\ tree'[Old(op.to)] = NoTree /\ tree'[op.to] = tree[op.to]
  BY <1>1, <1>2, CallPlaces
<1>4. op'.to = op.to /\ op'.had = op.had /\ op'.step = IF op.had THEN "away" ELSE "in"
  BY <1>1, <1>2
<1>5. op.had <=> tree[op.to] # NoTree
  BY <1>1 DEF KeptInv, CallKept
<1>6. /\ Kept(op.to, tree, lasting, crashes) /\ tree[op.to] \in {NoTree, placed[op.to]}
      /\ crashes = 0 => lasting[op.to] = placed[op.to]
  BY <1>1, <1>2, <1>3 DEF KeptInv, PlaceKept, Beside, SavesWhole, Lasts
<1>7. CallKept'
  <2>1. ~op.had /\ lasting[op.to] # NoTree => crashes > 0
    BY <1>5, <1>6 DEF Kept
  <2> QED BY <1>1, <1>3, <1>4, <1>5, <2>1 DEF CallKept
<1>8. ASSUME NEW p \in Homes, ~Beside(p)' PROVE Kept(p, tree', lasting', crashes')
  <2>1. CASE p # op.to
    BY <1>1, <1>2, <1>3, <2>1, OthersKept
  <2>2. CASE p = op.to
    <3>1. op.had /\ ~(crashes > 0) /\ crashes \in Nat
      BY <1>1, <1>4, <1>8, <2>2 DEF Beside, KeptInv, FirstFault
    <3>2. tree[op.to] = lasting[op.to]
      BY <1>5, <1>6, <3>1
    <3> QED BY <1>1, <1>3, <2>2, <3>2 DEF Kept
  <2> QED BY <2>1, <2>2
<1>9. FirstFault'
  BY <1>1 DEF KeptInv, FirstFault
<1>10. Lasts'
  BY <1>1, <1>2, <1>3, <1>4, LastsKept
<1> QED BY <1>7, <1>8, <1>9, <1>10 DEF KeptInv, PlaceKept

LEMMA MoveAwayKept ==
    ASSUME SaveInv, KeptInv, OneFault, MoveAway
    PROVE  KeptInv'
<1>1. op.step = "away" /\ op.step \in Steps /\ Settled /\ UNCHANGED <<lasting, crashes>>
  BY DEF MoveAway, Copying, Settled, Steps
<1>2. /\ op \in [step : Steps, to : Homes, had : BOOLEAN, done : SUBSET SaveFiles,
                 file : SaveFiles \cup {NoFile}]
      /\ tree \in [Places -> Trees] /\ SavesWhole /\ NamesApart
  BY <1>1, InACall DEF OneFault
<1>3. /\ op.to \in Homes /\ op.to \in Places /\ Old(op.to) \in Places /\ Old(op.to) # op.to
  BY <1>1, <1>2, CallPlaces
<1>4. tree[op.to] # NoTree /\ tree[Old(op.to)] = NoTree
  BY <1>1 DEF KeptInv, CallKept
<1>5. CASE Rename(op.to, Old(op.to)) /\ op' = [op EXCEPT !.step = "in"]
  <2>1. op'.to = op.to /\ op'.had = op.had /\ op'.step = "in" /\ refusals' = refusals
    BY <1>2, <1>5 DEF Rename
  <2>2. /\ tree'[op.to] = NoTree
        /\ \A r \in Places \ {op.to, Old(op.to)} : tree'[r] = tree[r]
    BY <1>2, <1>3, <1>5, TreesMoved
  <2>3. op.had
    BY <1>1, <1>4 DEF KeptInv, CallKept
  <2>4. CallKept'
    BY <2>1, <2>2, <2>3 DEF CallKept
  <2>5. ASSUME NEW p \in Homes, ~Beside(p)' PROVE Kept(p, tree', lasting', crashes')
    <3>1. p # op.to
      BY <2>1, <2>5 DEF Beside
    <3> QED BY <1>1, <1>2, <2>2, <3>1, OthersKept
  <2>6. FirstFault'
    BY <1>1, <2>1 DEF KeptInv, FirstFault
  <2>7. Lasts'
    BY <1>1, <1>2, <2>1, <2>2, LastsKept
  <2> QED BY <2>4, <2>5, <2>6, <2>7 DEF KeptInv, PlaceKept
<1>6. CASE RefusesRename(Old(op.to)) /\ op' = [op EXCEPT !.step = "back"]
  <2>1. op'.to = op.to /\ op'.step = "back" /\ tree' = tree /\ Refusing
    BY <1>2, <1>4, <1>6 DEF RefusesRename
  <2>2. FirstFault' /\ refusals' > 0
    BY <1>1, <2>1, Faults DEF KeptInv, FirstFault, OneFault
  <2>3. CallKept'
    BY <2>1, <2>2 DEF CallKept
  <2>4. ASSUME NEW p \in Homes, ~Beside(p)' PROVE Kept(p, tree', lasting', crashes')
    <3>1. p # op.to
      BY <2>1, <2>4 DEF Beside
    <3> QED BY <1>1, <1>2, <2>1, <3>1, OthersKept
  <2>5. Lasts'
    BY <1>1, <1>2, <2>1, LastsKept
  <2> QED BY <2>2, <2>3, <2>4, <2>5 DEF KeptInv, PlaceKept
<1> QED BY <1>5, <1>6 DEF MoveAway

LEMMA MoveInKept ==
    ASSUME SaveInv, KeptInv, OneFault, MoveIn
    PROVE  KeptInv'
<1>1. op.step = "in" /\ op.step \in Steps /\ UNCHANGED crashes
  BY DEF MoveIn, Copying, Settled, Steps
<1>2. /\ op \in [step : Steps, to : Homes, had : BOOLEAN, done : SUBSET SaveFiles,
                 file : SaveFiles \cup {NoFile}]
      /\ tree \in [Places -> Trees] /\ placed \in [Homes -> Trees] /\ NamesApart
      /\ From \in [SaveFiles -> 0 .. Torn] /\ CopyAgrees
  BY <1>1, InACall DEF OneFault
<1>3. /\ op.to \in Homes /\ op.to \in Places /\ SaveTmp \in Places /\ SaveTmp # op.to
      /\ Source(op.to) \in Homes \ {op.to} /\ Source(op.to) \in Places \ {SaveTmp}
  BY <1>1, <1>2, CallPlaces
<1>4. /\ tree[op.to] = NoTree /\ (~op.had /\ lasting[op.to] # NoTree => crashes > 0)
      /\ lasting \in [Homes -> Trees] /\ From = lasting[Source(op.to)]
      /\ \A p \in Homes : crashes = 0 \/ p[1] = "backup" => lasting[p] = placed[p]
  BY <1>1 DEF KeptInv, CallKept, Lasts, From
<1>5. CASE /\ Rename(SaveTmp, op.to) /\ op' = [op EXCEPT !.step = "end"]
           /\ placed' = [placed EXCEPT ![op.to] = From]
           /\ lasting' = [lasting EXCEPT ![op.to] = lasting[Source(op.to)]]
  <2>1. op'.to = op.to /\ op'.step = "end" /\ refusals' = refusals
    BY <1>2, <1>5 DEF Rename
  <2>2. /\ tree'[op.to] = tree[SaveTmp]
        /\ \A r \in Places \ {SaveTmp, op.to} : tree'[r] = tree[r]
    BY <1>2, <1>3, <1>5, TreesMoved
  <2>3. tree[SaveTmp] = From
    BY <1>1, <1>2 DEF CopyAgrees
  <2>4. /\ lasting'[op.to] = From /\ \A p \in Homes \ {op.to} : lasting'[p] = lasting[p]
        /\ placed'[op.to] = From /\ \A p \in Homes \ {op.to} : placed'[p] = placed[p]
        /\ lasting' \in [Homes -> Trees]
    BY <1>2, <1>3, <1>4, <1>5
  <2>5. CallKept'
    BY <2>1, <2>2, <2>3, <2>4 DEF CallKept
  <2>6. ASSUME NEW p \in Homes PROVE Kept(p, tree', lasting', crashes')
    <3>1. CASE p # op.to
      BY <1>1, <1>2, <2>2, <2>4, <3>1, OthersKept
    <3>2. CASE p = op.to
      BY <2>2, <2>3, <2>4, <3>2 DEF Kept
    <3> QED BY <3>1, <3>2
  <2>7. FirstFault'
    BY <1>1, <2>1 DEF KeptInv, FirstFault
  <2>8. Lasts'
    <3>1. tree'[Source(op.to)] = lasting'[Source(op.to)]
      BY <1>3, <1>4, <2>2, <2>4 DEF From
    <3>2. \A p \in Homes : crashes' = 0 \/ p[1] = "backup" => lasting'[p] = placed'[p]
      BY <1>1, <1>4, <2>4
    <3> QED BY <2>1, <2>4, <3>1, <3>2 DEF Lasts
  <2> QED BY <2>5, <2>6, <2>7, <2>8 DEF KeptInv, PlaceKept
<1>6. CASE /\ RefusesRename(op.to) /\ Settled
           /\ op' = [op EXCEPT !.step = IF op.had THEN "back" ELSE "undo"]
  <2>1. /\ op'.to = op.to /\ op'.step = (IF op.had THEN "back" ELSE "undo")
        /\ tree' = tree /\ lasting' = lasting /\ Refusing
    BY <1>2, <1>4, <1>6 DEF RefusesRename, Settled
  <2>2. FirstFault' /\ refusals' > 0 /\ crashes = 0
    BY <1>1, <2>1, Faults DEF KeptInv, FirstFault, OneFault
  <2>3. CallKept'
    BY <2>1, <2>2 DEF CallKept
  <2>4. ASSUME NEW p \in Homes, ~Beside(p)' PROVE Kept(p, tree', lasting', crashes')
    <3>1. CASE p # op.to
      BY <1>1, <1>2, <1>6, <2>1, <3>1, OthersKept
    <3>2. CASE p = op.to
      <4>1. ~op.had
        BY <2>1, <2>4, <3>2 DEF Beside
      <4>2. lasting[op.to] = NoTree
        BY <1>4, <2>2, <4>1
      <4> QED BY <2>1, <3>2, <4>2 DEF Kept
    <3> QED BY <3>1, <3>2
  <2>5. Lasts'
    BY <1>1, <1>2, <1>6, <2>1, LastsKept
  <2> QED BY <2>2, <2>3, <2>4, <2>5 DEF KeptInv, PlaceKept
<1> QED BY <1>5, <1>6 DEF MoveIn

LEMMA MoveBackKept ==
    ASSUME SaveInv, KeptInv, OneFault, MoveBack
    PROVE  KeptInv'
<1>1. op.step = "back" /\ op.step \in Steps /\ Settled /\ UNCHANGED <<crashes, lasting>>
      /\ op' = [op EXCEPT !.step = "undo"]
  BY DEF MoveBack, Copying, Settled, Steps
<1>2. /\ op \in [step : Steps, to : Homes, had : BOOLEAN, done : SUBSET SaveFiles,
                 file : SaveFiles \cup {NoFile}]
      /\ tree \in [Places -> Trees] /\ NamesApart /\ AwayAgrees /\ SavesWhole
  BY <1>1, InACall DEF OneFault
<1>3. /\ op.to \in Homes /\ op.to \in Places /\ Old(op.to) \in Places /\ Old(op.to) # op.to
  BY <1>1, <1>2, CallPlaces
<1>4. op'.to = op.to /\ op'.step = "undo"
  BY <1>1, <1>2
<1>5. refusals > 0 /\ crashes = 0 /\ lasting[op.to] = placed[op.to]
  <2>1. refusals > 0 /\ crashes = 0
    BY <1>1 DEF KeptInv, CallKept, FirstFault
  <2> QED BY <1>3, <2>1 DEF KeptInv, Lasts
<1>6. ~Refusing
  BY <1>5, Faults DEF KeptInv, OneFault
<1>7. tree[op.to] = lasting[op.to]
      \/ (tree[op.to] = NoTree /\ tree[Old(op.to)] = lasting[op.to])
  BY <1>1, <1>2, <1>3, <1>5 DEF AwayAgrees, SavesWhole
<1>8. /\ refusals' = refusals
      /\ \A r \in Places \ {op.to, SaveTmp, Old(op.to)} : tree'[r] = tree[r]
      /\ lasting[op.to] # NoTree => tree'[op.to] = lasting[op.to]
  <2>1. CASE Rename(Old(op.to), op.to)
    <3>1. /\ tree'[op.to] = tree[Old(op.to)] /\ tree[op.to] = NoTree
          /\ \A r \in Places \ {Old(op.to), op.to} : tree'[r] = tree[r]
      BY <1>2, <1>3, <2>1, TreesMoved
    <3>2. refusals' = refusals
      BY <2>1 DEF Rename
    <3> QED BY <1>7, <3>1, <3>2
  <2>2. CASE UNCHANGED tree /\ IF tree[Old(op.to)] = NoTree \/ tree[op.to] # NoTree
                               THEN UNCHANGED refusals ELSE Refusing
    <3>1. tree' = tree /\ refusals' = refusals
          /\ (tree[Old(op.to)] = NoTree \/ tree[op.to] # NoTree)
      BY <1>6, <2>2
    <3> QED BY <1>7, <3>1
  <2> QED BY <2>1, <2>2 DEF MoveBack
<1>9. ASSUME NEW p \in Homes PROVE Kept(p, tree', lasting', crashes')
  <2>1. CASE p # op.to
    BY <1>1, <1>2, <1>8, <2>1, OthersKept
  <2>2. CASE p = op.to
    BY <1>1, <1>8, <2>2 DEF Kept
  <2> QED BY <2>1, <2>2
<1>10. CallKept' /\ FirstFault'
  BY <1>1, <1>4, <1>8 DEF KeptInv, CallKept, FirstFault
<1>11. Lasts'
  BY <1>1, <1>2, <1>4, <1>8, LastsKept
<1> QED BY <1>9, <1>10, <1>11 DEF KeptInv, PlaceKept

LEMMA FinishKept ==
    ASSUME SaveInv, KeptInv, OneFault, Finish
    PROVE  KeptInv'
<1>1. op.step = "end" /\ op.step \in Steps /\ Settled
      /\ UNCHANGED <<crashes, refusals, lasting>>
      /\ op' = AtRest /\ tree' = [tree EXCEPT ![Old(op.to)] = NoTree]
  BY DEF Finish, Copying, Settled, Steps, CleanUp, OneFault
<1>2. tree \in [Places -> Trees] /\ NamesApart
  BY <1>1, InACall DEF OneFault
<1>3. /\ op.to \in Homes /\ op.to \in Places /\ Old(op.to) # op.to
  BY <1>1, <1>2, CallPlaces
<1>4. \A r \in Places \ {Old(op.to)} : tree'[r] = tree[r]
  BY <1>1, <1>2
<1>5. tree'[op.to] = lasting[op.to]
  BY <1>1, <1>3, <1>4 DEF KeptInv, CallKept
<1>6. ASSUME NEW p \in Homes PROVE Kept(p, tree', lasting', crashes')
  <2>1. CASE p # op.to
    BY <1>1, <1>2, <1>4, <2>1, OthersKept
  <2>2. CASE p = op.to
    BY <1>1, <1>5, <2>2 DEF Kept
  <2> QED BY <2>1, <2>2
<1>7. op'.step = "none"
  BY <1>1 DEF AtRest
<1>8. CallKept' /\ FirstFault'
  BY <1>1, <1>7 DEF KeptInv, CallKept, FirstFault
<1>9. Lasts'
  BY <1>1, <1>2, <1>4, LastsKept
<1> QED BY <1>6, <1>8, <1>9 DEF KeptInv, PlaceKept

\* Between calls no save stands beside its place but after a cut.
LEMMA BetweenCalls ==
    ASSUME KeptInv, op = AtRest
    PROVE  op.step = "none" /\ \A p \in Homes : Kept(p, tree, lasting, crashes)
<1>1. op.step = "none"
  BY DEF AtRest
<1> QED BY <1>1 DEF KeptInv, PlaceKept, Beside

LEMMA BeginKept ==
    ASSUME SaveInv, KeptInv, NEW to \in Homes, Begin(to),
           tree[Source(to)] = lasting[Source(to)]
    PROVE  KeptInv'
<1>1. op = AtRest /\ UNCHANGED <<tree, placed, lasting, crashes, refusals>>
      /\ op' = [AtRest EXCEPT !.step = "clear", !.to = to]
  BY DEF Begin, Calling, Working, Copying, Unmoved, Settled
<1>2. op'.step = "clear" /\ op'.to = to
  BY <1>1 DEF AtRest
<1>3. PlaceKept'
  BY <1>1, BetweenCalls DEF PlaceKept
<1>4. Lasts'
  BY <1>1, <1>2 DEF KeptInv, Lasts
<1> QED BY <1>1, <1>2, <1>3, <1>4 DEF KeptInv, FirstFault, CallKept

\* A step between calls that changes one path, and what the title knows of it.
LEMMA PutKept ==
    ASSUME SaveInv, KeptInv, NamesApart, ~Working, NEW p \in Homes, NEW content,
           NEW known \in Trees, tree' = [tree EXCEPT ![p] = content],
           placed' = [placed EXCEPT ![p] = content], lasting' = [lasting EXCEPT ![p] = known],
           UNCHANGED <<op, crashes, refusals>>,
           known = content \/ (p[1] # "backup" /\ known = lasting[p] /\ tree[p] = NoTree
                               /\ known # NoTree)
    PROVE  KeptInv'
<1>1. /\ op = AtRest /\ op' = op /\ UNCHANGED <<crashes, refusals>>
      /\ tree \in [Places -> Trees] /\ placed \in [Homes -> Trees]
      /\ lasting \in [Homes -> Trees] /\ crashes \in Nat
  BY DEF Working, SaveInv, SaveTypes, KeptInv, Lasts, FirstFault
<1>2. op.step = "none" /\ \A q \in Homes : Kept(q, tree, lasting, crashes)
  BY <1>1, BetweenCalls
<1>3. known = content \/ (p[1] # "backup" /\ crashes > 0 /\ tree[Old(p)] = known
                          /\ known = lasting[p])
  BY <1>1, <1>2 DEF Kept
<1>4. ASSUME NEW q \in Homes PROVE Kept(q, tree', lasting', crashes')
  <2>1. p \in Places /\ q \in Places /\ Old(q) \in Places /\ Old(q) # p
    BY PathsApart
  <2>2. tree'[Old(q)] = tree[Old(q)]
    BY <1>1, <2>1
  <2>3. CASE q = p
    BY <1>1, <1>3, <2>1, <2>2, <2>3 DEF Kept
  <2>4. CASE q # p
    <3>1. tree'[q] = tree[q] /\ lasting'[q] = lasting[q]
      BY <1>1, <2>1, <2>4
    <3> QED BY <1>1, <1>2, <2>2, <3>1 DEF Kept
  <2> QED BY <2>3, <2>4
<1>5. Lasts'
  <2>1. lasting' \in [Homes -> Trees]
    BY <1>1
  <2>2. ASSUME NEW q \in Homes, crashes' = 0 \/ q[1] = "backup"
        PROVE  lasting'[q] = placed'[q]
    <3>1. CASE q = p
      BY <1>1, <1>3, <2>2, <3>1
    <3>2. CASE q # p
      BY <1>1, <2>2, <3>2 DEF KeptInv, Lasts
    <3> QED BY <3>1, <3>2
  <2> QED BY <1>1, <1>2, <2>1, <2>2 DEF Lasts, Steps
<1> QED BY <1>1, <1>2, <1>4, <1>5 DEF KeptInv, PlaceKept, CallKept, FirstFault

\* The state a cut leaves is the old one, at its place or beside it.
LEMMA CrashKept ==
    ASSUME SaveInv, KeptInv, OneFault, Crash
    PROVE  KeptInv'
<1>1. /\ op' = AtRest /\ crashes' = crashes + 1 /\ UNCHANGED <<tree, refusals, placed, lasting>>
      /\ op # AtRest /\ crashes + refusals < MaxFaults
  BY DEF Crash, Working, Settled
<1>2. crashes = 0 /\ refusals = 0
  BY <1>1, Faults DEF KeptInv, OneFault
<1>3. op.step \in Steps /\ AwayAgrees
  BY <1>1 DEF SaveInv, SaveTypes, Working
<1>4. ASSUME NEW p \in Homes PROVE Kept(p, tree', lasting', crashes')
  <2>1. CASE ~Beside(p)
    <3>1. Kept(p, tree, lasting, crashes)
      BY <2>1 DEF KeptInv, PlaceKept
    <3> QED BY <1>1, <1>2, <3>1 DEF Kept
  <2>2. CASE Beside(p)
    <3>1. op.to = p /\ op.step = "in"
      BY <1>2, <2>2 DEF Beside, KeptInv, CallKept
    <3>2. tree[Old(p)] = lasting[p] \/ lasting[p] = NoTree
      BY <1>2, <1>3, <3>1 DEF AwayAgrees, KeptInv, CallKept, Lasts
    <3> QED BY <1>1, <1>2, <3>2 DEF Kept
  <2> QED BY <2>1, <2>2
<1>5. op'.step = "none"
  BY <1>1 DEF AtRest
<1>6. FirstFault'
  BY <1>1, <1>2 DEF FirstFault
<1>7. Lasts'
  BY <1>1, <1>2, <1>5 DEF KeptInv, Lasts, Steps
<1> QED BY <1>4, <1>5, <1>6, <1>7 DEF KeptInv, PlaceKept, CallKept

\* Steps that leave storage and call alone.
LEMMA UnmovedKept ==
    ASSUME KeptInv, UNCHANGED copies PROVE KeptInv'
BY DEF KeptInv, FirstFault, PlaceKept, CallKept, Lasts, Beside, Kept, copies

LEMMA KeptInvInit == SaveInit => KeptInv
<1> SUFFICES ASSUME SaveInit PROVE KeptInv
  OBVIOUS
<1>1. op.step = "none" /\ crashes = 0 /\ refusals = 0
  BY DEF SaveInit, AtRest
<1>2. lasting = placed /\ placed = [p \in Homes |-> NoTree]
  BY DEF SaveInit
<1>3. Lasts
  BY <1>1, <1>2, Shapes DEF Lasts, Steps
<1> QED BY <1>1, <1>2, <1>3 DEF KeptInv, FirstFault, PlaceKept, CallKept, Kept

LEMMA KeptInvNext ==
    ASSUME OneFault, SaveInv, KeptInv, [SaveNext]_saveVars
    PROVE  KeptInv'
<1>1. \A n \in Names, a \in Areas : <<a, n>> \in Homes
  BY DEF Homes
<1>2. CASE Initialize \/ Terminate \/ Umount \/ SaveReset \/ UNCHANGED saveVars
  BY <1>2, UnmovedKept DEF Initialize, Terminate, Umount, SaveReset, saveVars
<1>3. CASE Crash
  BY <1>3, CrashKept
<1>4. ASSUME NEW n \in Names, SaveStep(n) PROVE KeptInv'
  <2>1. <<"save", n>> \in Homes /\ <<"backup", n>> \in Homes
    BY <1>1 DEF Areas
  <2>2. CASE Mount(n)
    <3>1. ~Working
      BY <2>2 DEF Mount, Calling
    <3>2. CASE tree[<<"save", n>>] = NoTree /\ MakeDirectory(<<"save", n>>)
      <4> DEFINE home == <<"save", n>>
                 known == IF lasting[home] = NoTree THEN Empty ELSE lasting[home]
      <4>1. lasting \in [Homes -> Trees] /\ Empty \in Trees /\ home[1] # "backup"
        BY Shapes DEF KeptInv, Lasts
      <4>2. known \in Trees /\ home \in Homes
        BY <2>1, <4>1
      <4>3. known = Empty \/ (known = lasting[home] /\ known # NoTree)
        OBVIOUS
      <4>4. /\ tree' = [tree EXCEPT ![home] = Empty] /\ tree[home] = NoTree
            /\ placed' = [placed EXCEPT ![home] = Empty]
            /\ lasting' = [lasting EXCEPT ![home] = known]
            /\ UNCHANGED <<op, crashes, refusals>>
        BY <3>2, <4>1 DEF MakeDirectory
      <4> HIDE DEF known, home
      <4> QED BY <3>1, <4>1, <4>2, <4>3, <4>4, PutKept DEF OneFault
    <3>3. CASE UNCHANGED copies
      BY <3>3, UnmovedKept
    <3> QED BY <2>2, <3>2, <3>3 DEF Mount
  <2>3. CASE TransferringMount(n)
    BY <2>3, UnmovedKept DEF TransferringMount
  <2>4. CASE Delete(n)
    BY <2>1, <2>4, PutKept, Shapes DEF Delete, Put, OneFault
  <2>5. CASE Backup(n)
    <3>1. tree[<<"save", n>>] = lasting[<<"save", n>>] /\ Begin(<<"backup", n>>)
      BY <2>5 DEF Backup, Vacant, OneFault
    <3>2. Source(<<"backup", n>>) = <<"save", n>>
      BY DEF Source
    <3> QED BY <2>1, <3>1, <3>2, BeginKept
  <2>6. CASE Restore(n)
    <3>1. Begin(<<"save", n>>) /\ Source(<<"save", n>>) = <<"backup", n>>
      BY <2>6 DEF Restore, Source
    <3>2. tree[<<"backup", n>>] # NoTree
      BY <3>1 DEF Begin
    <3>3. tree[<<"backup", n>>] = lasting[<<"backup", n>>]
      BY <2>1, <3>2 DEF SaveInv, SavesWhole, KeptInv, Lasts
    <3> QED BY <2>1, <3>1, <3>3, BeginKept
  <2> QED BY <1>4, <2>2, <2>3, <2>4, <2>5, <2>6 DEF SaveStep
<1>5. ASSUME NEW f \in SaveFiles, NEW content \in 0 .. MaxVersion, Store(f, content)
      PROVE  KeptInv'
  <2>1. <<"save", mounted>> \in Homes
    BY <1>1, <1>5 DEF Store, SaveInv, SaveTypes, Areas
  <2> DEFINE new == [tree[<<"save", mounted>>] EXCEPT ![f] = content]
  <2>2. Put(<<"save", mounted>>, new) /\ ~Working
    BY <1>5 DEF Store
  <2>3. new \in Trees
    <3>1. tree[<<"save", mounted>>] \in [SaveFiles -> 0 .. Torn]
      BY <1>5, <2>1, PathsApart DEF SaveInv, SaveTypes, Store, Trees, OneFault
    <3> QED BY <3>1, Shapes
  <2> HIDE DEF new
  <2> QED BY <2>1, <2>2, <2>3, PutKept DEF Put, OneFault
<1>6. CASE BackupStep
  BY <1>6, CopyKept, CopyEndKept, DropPreviousKept, MoveAwayKept, MoveInKept, MoveBackKept,
     FinishKept DEF BackupStep
<1>7. CASE MemoryStep
  <2>1. UNCHANGED copies
    BY <1>7 DEF MemoryStep, SetupMemory, SetMemory, Settled, copies, OneFault
  <2> QED BY <2>1, UnmovedKept
<1> QED BY <1>2, <1>3, <1>4, <1>5, <1>6, <1>7 DEF SaveNext

LEMMA KeptMeans ==
    ASSUME SaveInv, KeptInv, NamesApart
    PROVE  SavesKept
<1> SUFFICES ASSUME NEW p \in Homes, lasting[p] # NoTree
             PROVE  \/ tree[p] = lasting[p]
                    \/ tree[Old(p)] = lasting[p] /\ (op.to = p \/ crashes > 0)
                    \/ op.to = p /\ crashes > 0 /\ tree[SaveTmp] = lasting[Source(p)]
  BY DEF SavesKept
<1>1. CASE ~Beside(p)
  BY <1>1 DEF KeptInv, PlaceKept, Kept
<1>2. CASE Beside(p)
  <2>1. op.to = p /\ op.step \in {"away", "in", "back"} /\ op.step \in Steps
    BY <1>2 DEF Beside, Steps
  <2>2. /\ CopyAgrees /\ AwayAgrees /\ tree[p] \in {NoTree, placed[p]}
        /\ From = lasting[Source(p)] /\ crashes \in Nat
        /\ crashes = 0 => lasting[p] = placed[p]
    BY <2>1, InACall DEF SavesWhole, KeptInv, Lasts, From, FirstFault
  <2>3. CASE crashes > 0 /\ op.step \in {"away", "in"}
    BY <2>1, <2>2, <2>3 DEF CopyAgrees
  <2>4. CASE crashes = 0 /\ op.step = "in"
    BY <2>1, <2>2, <2>4 DEF AwayAgrees, KeptInv, CallKept
  <2>5. CASE op.step = "back"
    <3>1. crashes = 0
      BY <2>5 DEF KeptInv, CallKept, FirstFault
    <3> QED BY <2>1, <2>2, <2>5, <3>1 DEF AwayAgrees
  <2>6. crashes > 0 \/ (crashes = 0 /\ op.step # "away")
    BY <1>2, <2>1, <2>2 DEF Beside
  <2> QED BY <2>1, <2>3, <2>4, <2>5, <2>6
<1> QED BY <1>1, <1>2

(***************************************************************************)
(* Save data memory: the file of a slot and what the title stored agree, and *)
(* beyond the end of the file the title has stored nothing.                  *)
(***************************************************************************)
Versions == 0 .. MaxVersion
UnitsInv ==
    /\ memory \in [MemorySlots -> Seq(Versions)] /\ size \in [MemorySlots -> Nat]
    /\ ready \in [MemorySlots -> BOOLEAN]
    /\ stored \in [MemorySlots -> [Units -> Versions]]
    /\ MemoryKept

LEMMA Sizes ==
    /\ Units \subseteq Nat \ {0} /\ 0 \in Versions
    /\ \A u \in Units : u \in Nat /\ u >= 1
<1>1. MaxMemory \in Nat /\ MaxVersion \in Nat
  BY SaveAssumption
<1> QED BY <1>1 DEF Units, Versions

Stretches(s) == {<<r>> : r \in Runs(s)} \cup (Runs(s) \X Runs(s))

\* One stretch or two: of those that cover a unit there is a last.
LEMMA StretchesAre ==
    ASSUME NEW s, NEW runs \in Stretches(s)
    PROVE  /\ \A i \in DOMAIN runs : /\ runs[i].version \in Versions
                                     /\ runs[i].last \in Units /\ runs[i].last <= size[s]
           /\ \A u : Over(runs, u) # {} => /\ Latest(Over(runs, u)) \in Over(runs, u)
                                           /\ Over(runs, u) \subseteq DOMAIN runs
<1>1. DOMAIN runs \in {{1}, {1, 2}} /\ \A i \in DOMAIN runs : runs[i] \in Runs(s)
  BY DEF Stretches
<1>2. \A i \in DOMAIN runs : /\ runs[i].version \in Versions
                             /\ runs[i].last \in Units /\ runs[i].last <= size[s]
  BY <1>1 DEF Runs, Versions
<1>3. ASSUME NEW u, Over(runs, u) # {}
      PROVE  Latest(Over(runs, u)) \in Over(runs, u) /\ Over(runs, u) \subseteq DOMAIN runs
  <2> DEFINE over == Over(runs, u)
  <2>1. over \subseteq DOMAIN runs
    BY DEF Over
  <2> HIDE DEF over
  <2>2. over # {}
    BY <1>3 DEF over
  <2>3. \E i \in over : \A j \in over : j <= i
    <3>1. CASE 2 \in over
      BY <1>1, <2>1, <3>1
    <3>2. CASE 2 \notin over
      BY <1>1, <2>1, <2>2, <3>2
    <3> QED BY <3>1, <3>2
  <2>4. Latest(over) \in over
    BY <2>3 DEF Latest
  <2> QED BY <2>1, <2>4 DEF over
<1> QED BY <1>2, <1>3

\* What stretches write at a unit does not depend on what was there; a unit they do
\* not cover keeps it.
Writes(runs, u) == runs[Latest(Over(runs, u))].version
LEMMA WrittenIs ==
    ASSUME NEW s, NEW runs \in Stretches(s), NEW units,
           units = [u \in DOMAIN units |-> units[u]], \A u \in DOMAIN units : units[u] \in Versions
    PROVE  /\ Written(units, runs) \in [DOMAIN units -> Versions]
           /\ \A u \in DOMAIN units :
                Written(units, runs)[u] = IF Over(runs, u) = {} THEN units[u] ELSE Writes(runs, u)
<1>1. ASSUME NEW u, Over(runs, u) # {} PROVE Writes(runs, u) \in Versions
  BY <1>1, StretchesAre DEF Writes
<1>2. Written(units, runs) =
        [u \in DOMAIN units |-> IF Over(runs, u) = {} THEN units[u] ELSE Writes(runs, u)]
  BY DEF Written, Writes
<1> QED BY <1>1, <1>2

LEMMA SetMemoryKept ==
    ASSUME UnitsInv, NEW s \in MemorySlots, NEW runs \in Stretches(s), SetMemory(s, runs)
    PROVE  UnitsInv'
<1> DEFINE m == memory[s]  st == stored[s]  m2 == Written(m, runs)  st2 == Written(st, runs)
<1>1. m \in Seq(Versions) /\ Len(m) \in Nat /\ DOMAIN m = 1 .. Len(m)
  BY DEF UnitsInv
<1>2. st \in [Units -> Versions] /\ DOMAIN st = Units
  BY DEF UnitsInv
<1>3. /\ ready[s] /\ memory' = [memory EXCEPT ![s] = m2]
      /\ stored' = [stored EXCEPT ![s] = st2] /\ UNCHANGED <<ready, size>>
  BY DEF SetMemory
<1>4. /\ \A u \in Units : st[u] = IF u <= Len(m) THEN m[u] ELSE 0
      /\ size[s] <= Len(m) /\ size[s] \in Nat
  BY <1>3 DEF UnitsInv, MemoryKept
<1> HIDE DEF m, st
<1>5. /\ m2 \in [1 .. Len(m) -> Versions]
      /\ \A u \in 1 .. Len(m) : m2[u] = IF Over(runs, u) = {} THEN m[u] ELSE Writes(runs, u)
  BY <1>1, WrittenIs
<1>6. /\ st2 \in [Units -> Versions]
      /\ \A u \in Units : st2[u] = IF Over(runs, u) = {} THEN st[u] ELSE Writes(runs, u)
  BY <1>2, WrittenIs
<1> HIDE DEF m2, st2
<1>7. m2 \in Seq(Versions) /\ Len(m2) = Len(m)
  BY <1>1, <1>5
<1>8. ASSUME NEW u \in Units PROVE st2[u] = IF u <= Len(m2) THEN m2[u] ELSE 0
  <2>1. u \in Nat /\ u >= 1
    BY Sizes
  <2>2. CASE u <= Len(m)
    <3>1. u \in 1 .. Len(m) /\ st[u] = m[u]
      BY <1>1, <1>4, <2>1, <2>2
    <3> QED BY <1>5, <1>6, <1>7, <2>2, <3>1
  <2>3. CASE ~(u <= Len(m))
    <3>1. Over(runs, u) = {}
      <4>1. \A i \in DOMAIN runs : runs[i].last \in Units /\ runs[i].last <= size[s]
        BY StretchesAre
      <4>2. \A i \in DOMAIN runs : u \notin runs[i].first .. runs[i].last
        <5>1. ASSUME NEW i \in DOMAIN runs PROVE ~(u <= runs[i].last)
          <6>1. runs[i].last \in Nat /\ runs[i].last <= size[s]
            BY <4>1, Sizes
          <6> QED BY <1>1, <1>4, <2>1, <2>3, <6>1
        <5> QED BY <5>1
      <4> QED BY <4>2 DEF Over
    <3>2. st[u] = 0
      BY <1>4, <2>3
    <3> QED BY <1>6, <1>7, <2>3, <3>1, <3>2
  <2> QED BY <2>2, <2>3
<1>9. /\ memory'[s] = m2 /\ stored'[s] = st2
      /\ \A t \in MemorySlots \ {s} : memory'[t] = memory[t] /\ stored'[t] = stored[t]
      /\ memory' \in [MemorySlots -> Seq(Versions)]
      /\ stored' \in [MemorySlots -> [Units -> Versions]]
  BY <1>3, <1>6, <1>7 DEF UnitsInv
<1>10. ASSUME NEW t \in MemorySlots
       PROVE  /\ \A u \in Units :
                   stored'[t][u] = IF u <= Len(memory'[t]) THEN memory'[t][u] ELSE 0
              /\ ready'[t] => size'[t] <= Len(memory'[t])
  <2>1. CASE t = s
    BY <1>3, <1>4, <1>7, <1>8, <1>9, <2>1
  <2>2. CASE t # s
    BY <1>3, <1>9, <2>2 DEF UnitsInv, MemoryKept
  <2> QED BY <2>1, <2>2
<1> QED BY <1>3, <1>9, <1>10 DEF UnitsInv, MemoryKept

LEMMA SetupMemoryKept ==
    ASSUME UnitsInv, "stat_fails" \notin SavePermitted,
           NEW s \in MemorySlots, NEW n \in Units, SetupMemory(s, n)
    PROVE  UnitsInv'
<1> DEFINE m == memory[s]  more == Zeros(n - Len(m))  m2 == memory'[s]
<1>1. m \in Seq(Versions) /\ Len(m) \in Nat /\ n \in Nat
  BY Sizes DEF UnitsInv
<1>2. /\ ready' = [ready EXCEPT ![s] = TRUE] /\ size' = [size EXCEPT ![s] = n]
      /\ Len(m) < n => memory' = [memory EXCEPT ![s] = m \o more]
      /\ ~(Len(m) < n) => memory' = memory
      /\ UNCHANGED stored
  BY DEF SetupMemory, Extended
<1> HIDE DEF m, more
<1>3. /\ m2 \in Seq(Versions) /\ n <= Len(m2)
      /\ \A t \in MemorySlots \ {s} : memory'[t] = memory[t]
      /\ memory' \in [MemorySlots -> Seq(Versions)]
      /\ \A u \in Nat \ {0} : (IF u <= Len(m2) THEN m2[u] ELSE 0) = IF u <= Len(m) THEN m[u] ELSE 0
  <2>1. CASE Len(m) < n
    <3> DEFINE both == m \o more
    <3>1. more \in Seq(Versions) /\ Len(more) = n - Len(m)
          /\ \A u \in 1 .. n - Len(m) : more[u] = 0
      <4>1. 0 \in Versions /\ n - Len(m) \in Nat
        BY <1>1, <2>1, Sizes
      <4> QED BY <4>1 DEF more, Zeros
    <3>2. /\ both \in Seq(Versions) /\ Len(both) = Len(m) + Len(more)
          /\ \A u \in 1 .. Len(m) + Len(more) :
               both[u] = IF u <= Len(m) THEN m[u] ELSE more[u - Len(m)]
      BY <1>1, <3>1, ConcatProperties
    <3> HIDE DEF both
    <3>3. memory' = [memory EXCEPT ![s] = both]
      BY <1>2, <2>1 DEF both
    <3>4. m2 = both /\ memory' \in [MemorySlots -> Seq(Versions)]
          /\ \A t \in MemorySlots \ {s} : memory'[t] = memory[t]
      BY <3>2, <3>3 DEF UnitsInv
    <3>5. Len(both) = n
      BY <1>1, <3>1, <3>2
    <3>6. ASSUME NEW u \in Nat \ {0}
          PROVE  (IF u <= Len(both) THEN both[u] ELSE 0) = IF u <= Len(m) THEN m[u] ELSE 0
      <4>1. CASE u <= Len(m)
        <5>1. u \in 1 .. Len(m) + Len(more) /\ u <= Len(both)
          BY <1>1, <2>1, <3>1, <3>5, <4>1
        <5> QED BY <3>2, <4>1, <5>1
      <4>2. CASE ~(u <= Len(m)) /\ u <= n
        <5>1. u \in 1 .. Len(m) + Len(more) /\ u - Len(m) \in 1 .. n - Len(m)
          BY <1>1, <2>1, <3>1, <4>2
        <5>2. both[u] = 0
          BY <3>1, <3>2, <4>2, <5>1
        <5> QED BY <3>5, <4>2, <5>2
      <4>3. CASE ~(u <= n)
        <5>1. ~(u <= Len(m))
          BY <1>1, <2>1, <4>3
        <5> QED BY <3>5, <4>3, <5>1
      <4> QED BY <4>1, <4>2, <4>3
    <3>7. n <= Len(both)
      BY <1>1, <3>5
    <3> HIDE DEF m2
    <3> QED BY <3>2, <3>4, <3>6, <3>7
  <2>2. CASE ~(Len(m) < n)
    <3>1. m2 = m /\ memory' = memory
      BY <1>2, <2>2 DEF m
    <3> HIDE DEF m2
    <3> QED BY <1>1, <2>2, <3>1 DEF UnitsInv
  <2> QED BY <2>1, <2>2
<1>4. \A u \in Units : stored[s][u] = IF u <= Len(m) THEN m[u] ELSE 0
  BY DEF UnitsInv, MemoryKept, m
<1>5. Units \subseteq Nat \ {0}
  BY Sizes
<1>6. ASSUME NEW t \in MemorySlots
      PROVE  /\ \A u \in Units :
                   stored'[t][u] = IF u <= Len(memory'[t]) THEN memory'[t][u] ELSE 0
             /\ ready'[t] => size'[t] <= Len(memory'[t])
  <2>1. CASE t = s
    <3>1. \A u \in Units : stored[s][u] = IF u <= Len(m2) THEN m2[u] ELSE 0
      BY <1>3, <1>4, <1>5
    <3>2. size'[s] = n
      BY <1>2 DEF UnitsInv
    <3> QED BY <1>2, <1>3, <2>1, <3>1, <3>2
  <2>2. CASE t # s
    <3>1. memory'[t] = memory[t] /\ stored'[t] = stored[t] /\ ready'[t] = ready[t]
          /\ size'[t] = size[t]
      BY <1>2, <1>3, <2>2 DEF UnitsInv
    <3> QED BY <3>1 DEF UnitsInv, MemoryKept
  <2> QED BY <2>1, <2>2
<1>7. size' \in [MemorySlots -> Nat] /\ ready' \in [MemorySlots -> BOOLEAN]
      /\ stored' \in [MemorySlots -> [Units -> Versions]]
  BY <1>1, <1>2 DEF UnitsInv
<1> QED BY <1>3, <1>6, <1>7 DEF UnitsInv, MemoryKept

LEMMA UnitsInvInit == SaveInit => UnitsInv
<1> SUFFICES ASSUME SaveInit PROVE UnitsInv
  OBVIOUS
<1>1. <<>> \in Seq(Versions) /\ Len(<<>>) = 0 /\ 0 \in Versions
  BY Sizes
<1>2. \A u \in Units : ~(u <= 0)
  BY Sizes
<1>3. /\ memory = [s \in MemorySlots |-> <<>>]
      /\ ready = [s \in MemorySlots |-> FALSE] /\ size = [s \in MemorySlots |-> 0]
      /\ stored = [s \in MemorySlots |-> [u \in Units |-> 0]]
  BY DEF SaveInit
<1>4. MemoryKept
  BY <1>1, <1>2, <1>3 DEF MemoryKept
<1> QED BY <1>1, <1>3, <1>4 DEF UnitsInv

\* Forgetting the slots forgets no unit.
LEMMA ForgottenKept ==
    ASSUME UnitsInv, Forgotten, UNCHANGED <<memory, stored>>
    PROVE  UnitsInv'
BY DEF UnitsInv, Forgotten, MemoryKept

LEMMA UnitsSame ==
    ASSUME UnitsInv, UNCHANGED memories PROVE UnitsInv'
BY DEF UnitsInv, memories, MemoryKept

LEMMA UnitsInvNext ==
    ASSUME UnitsInv, "stat_fails" \notin SavePermitted, [SaveNext]_saveVars
    PROVE  UnitsInv'
<1>1. CASE Initialize \/ Terminate \/ Umount \/ UNCHANGED saveVars
  BY <1>1, UnitsSame DEF Initialize, Terminate, Umount, saveVars
<1>2. CASE SaveReset \/ Crash
  BY <1>2, ForgottenKept DEF SaveReset, Crash
<1>3. ASSUME NEW n \in Names, SaveStep(n) PROVE UnitsInv'
  BY <1>3, UnitsSame
     DEF SaveStep, Mount, TransferringMount, Delete, Backup, Restore, Begin, Copying, Settled
<1>4. ASSUME NEW f \in SaveFiles, NEW content \in 0 .. MaxVersion, Store(f, content)
      PROVE  UnitsInv'
  BY <1>4, UnitsSame DEF Store
<1>5. CASE BackupStep
  BY <1>5, UnitsSame DEF BackupStep, ClearTemporary, CopyBegin, FillCopy, CopyFails, CopyEnd,
     OpenCopy, DropPrevious, MoveAway, MoveIn, MoveBack, Undo, Finish, Copying, Settled
<1>6. CASE MemoryStep
  <2>1. PICK s \in MemorySlots : \/ \E n \in Units : SetupMemory(s, n)
                                 \/ \E runs \in Stretches(s) : SetMemory(s, runs)
    BY <1>6 DEF MemoryStep, Stretches
  <2> QED BY <2>1, SetupMemoryKept, SetMemoryKept
<1> QED BY <1>1, <1>2, <1>3, <1>4, <1>5, <1>6 DEF SaveNext

\* Wherever a first cut or refusal comes, what the title has of a save is at its place
\* or beside it, or about to be replaced by a whole copy of the other as it asked; a
\* mount that finds nothing does not change what that is.  A title that backs up the
\* empty save it got from such a mount is not covered.  And what the title stored in
\* save data memory stays, whatever sizes it sets up later.
THEOREM NothingLostHolds == ASSUME OneFault PROVE SaveSpec => []NothingLost
<1> DEFINE Inv == SaveInv /\ KeptInv /\ UnitsInv
<1>1. SaveInit => Inv
  BY SaveInvInit, KeptInvInit, UnitsInvInit
<1>2. Inv /\ [SaveNext]_saveVars => Inv'
  BY SaveInvNext, KeptInvNext, UnitsInvNext DEF OneFault
<1>3. Inv => NothingLost
  BY KeptMeans DEF NothingLost, UnitsInv, OneFault
<1> HIDE DEF Inv
<1>4. SaveSpec => []NothingLost
  BY <1>1, <1>2, <1>3, PTL DEF SaveSpec
<1> QED BY <1>4
=============================================================================
