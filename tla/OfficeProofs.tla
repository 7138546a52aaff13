---------------------------- MODULE OfficeProofs ----------------------------
(***************************************************************************)
(* What Office keeps, for any number of counts, products, articles and     *)
(* rows, however long its pages are open.  The desks share no variable, so *)
(* that the inductive invariant is one for the product forms, one for the  *)
(* lists with their inline form, one for the counts and the pages read off *)
(* them, and one for the catalog table; each is kept by the steps of its   *)
(* own desk, and by the others' because they leave its variables alone.    *)
(* The figures of Reports, at the end, are of any finite sheet.            *)
(***************************************************************************)
EXTENDS Office, Sums

-----------------------------------------------------------------------------
(* The inductive invariant.                                                *)

(* What is on screen while a call is under way differs from what was       *)
(* submitted only where it was changed by hand since.                      *)
ChangedSinceSubmitted ==
  Editing /\ Pending =>
    \A f \in Fields : productForm.entry[f] # submission.entry[f] =>
      \/ f \in productForm.set
      \/ f = "type" /\ "category" \in productForm.set

SheetInv ==
  /\ ProductFormsTypeOK
  /\ productForm = NoSheet => submission = NoSent
  /\ FormsAreHonest
  /\ ChangedSinceSubmitted

(* A form that was not moved from row to row differs from what it was      *)
(* filled with only where somebody typed.                                  *)
TypedOrSeed(f) == ~f.moved => \A e \in Entry : f.fields[e] = f.seed[e] \/ e \in f.typed

(* Rows are added and never removed, and nothing refers to one that is not *)
(* there.                                                                  *)
Rowed(of) == of \in Ids => stored[of] # Absent

RowInv ==
  /\ RowFormsTypeOK
  /\ \A r \in Ids : listed[r] # Absent => stored[r] # Absent
  /\ form # NoForm => Rowed(form.of) /\ TypedOrSeed(form)
  /\ save # NoSave => Rowed(save.form.of) /\ TypedOrSeed(save.form)
  /\ late # NoForm => Rowed(late.of) /\ TypedOrSeed(late)
  /\ save # NoSave /\ save.mine => form # NoForm
  /\ retirement.armed \in Ids => listed[retirement.armed] # Absent
  /\ retirement.call \in {"sent", "alone"} =>
       retirement.pending \in Ids /\ stored[retirement.pending] # Absent

(* The counts and their times.                                             *)
CountsInv ==
  /\ time \in 0..MaxTime
  /\ opened \in [Counts -> {Never} \cup 0..time]
  /\ stamped \in [Counts -> {Never} \cup 0..time]
  /\ \A c \in Counts : stamped[c] # Never => opened[c] \in 0..stamped[c]
  /\ ended \in Seq(Counts)
  /\ \A c \in Closed : stamped[c] # Never
  /\ IsFiniteSet(Closed) /\ Len(ended) = Cardinality(Closed)

(* What a read of the page found: nothing only if nothing had closed, and  *)
(* otherwise a closed count that no count closed before the page was       *)
(* opened comes after.                                                     *)
Newest(found) ==
  /\ found = NULL => page.since = 0
  /\ found \in Counts =>
       /\ found \in Closed
       /\ \A d \in ClosedSince(page.since) : ClosedAt[d] =< ClosedAt[found]

PageInv ==
  /\ page = NoPage \/ (page \in PageType /\ page.since =< Len(ended))
  /\ page # NoPage => Newest(page.caption) /\ Newest(page.figures)

SummaryInv ==
  /\ summary = NoPage \/ (summary \in SummaryType /\ summary.since =< Len(ended))
  /\ PreviousBeforeStart

TableInv ==
  /\ products \in [Products -> [category : Categories, vendor : Vendors \cup {NULL}]]
  /\ DOMAIN rows \subseteq Products /\ rows \in [DOMAIN rows -> Categories]
  /\ filter \in Categories \cup {NULL}
  /\ selected \subseteq Products
  /\ loading = NoPage \/ loading \in SUBSET (Products \X Categories)
  /\ \/ call = NoCall
     \/ call \in SaveCellType
     \/ call \in AssignType /\ call.ids # {} /\ Cardinality(call.ids) =< BulkLimit
  /\ Assigning => call.ids \subseteq call.shown

IInv ==
  /\ desk \in Desks
  /\ SheetInv /\ RowInv
  /\ CountsInv /\ PageInv /\ SummaryInv
  /\ TableInv

-----------------------------------------------------------------------------
(* The product forms.                                                      *)

(* A list has its default and no blank.                                    *)
LEMMA ListedSizes ==
  ASSUME NEW c, NEW u
  PROVE  /\ DefaultSizeMlFor(c, u) \in BottleSizesFor(c, u)
         /\ Blank \notin BottleSizesFor(c, u)
         /\ c \in AllCategories /\ u \in UnitTypes => BottleSizesFor(c, u) \subseteq Sizes
  <1>1. /\ DefaultSizeMlFor(c, u) \in BottleSizesFor(c, u)
        /\ Blank \notin BottleSizesFor(c, u)
    BY DEF DefaultSizeMlFor, BottleSizesFor, ListFor, SpiritsSizes, BeerSizes, WineSizes,
           KegSizes, Blank
  <1>2. c \in AllCategories /\ u \in UnitTypes => BottleSizesFor(c, u) \subseteq Sizes
    BY DEF Sizes
  <1> QED  BY <1>1, <1>2

(* A default that another list has too is that list's default.             *)
LEMMA SharedDefault ==
  ASSUME NEW c, NEW u, NEW d, NEW v,
         IsPresetSizeMl(DefaultSizeMlFor(c, u), d, v)
  PROVE  DefaultSizeMlFor(d, v) = DefaultSizeMlFor(c, u)
  BY DEF IsPresetSizeMl, DefaultSizeMlFor, BottleSizesFor, ListFor, SpiritsSizes, BeerSizes,
         WineSizes, KegSizes

(* A form opens on its seed, untouched and with no call under way.         *)
LEMMA OpeningKeepsSheet ==
  ASSUME SheetInv,
         \/ \E p \in Articles : OpenEdit(p) \/ OpenDifferent(p)
         \/ OpenNew
  PROVE  SheetInv'
  <1>1. ASSUME NEW p \in Articles, OpenEdit(p)
        PROVE  SheetInv'
    <2>1. p \in EntryType
      BY ProductFormsAssumption
    <2>2. productForm' = [kind |-> "edit", seed |-> p, entry |-> p,
                          other |-> ~IsPresetSizeMl(p.size, p.category, p.unitType),
                          set |-> {}, strokes |-> 0]
          /\ submission' = NoSent
      BY <1>1 DEF OpenEdit, OpenSheet, SheetInv
    <2>3. ProductFormsTypeOK'
      BY <2>1, <2>2, ProductFormsAssumption DEF ProductFormsTypeOK, SheetType
    <2>4. FormsAreHonest' /\ ChangedSinceSubmitted'
      BY <2>2 DEF FormsAreHonest, ChangedSinceSubmitted, Editing, Creating, Pending
    <2> QED  BY <2>2, <2>3, <2>4 DEF SheetInv
  <1>2. ASSUME NEW p \in Articles, OpenDifferent(p)
        PROVE  SheetInv'
    <2>1. p \in EntryType
      BY ProductFormsAssumption
    <2> DEFINE e == [p EXCEPT !.size = Blank, !.type = NoType, !.caseSize = Blank]
    <2>2. productForm' = [kind |-> "from", seed |-> p, entry |-> e, other |-> FALSE,
                          set |-> {}, strokes |-> 0]
          /\ submission' = NoSent
      BY <1>2 DEF OpenDifferent, SheetInv
    <2>3. Blank \in Sizes /\ Blank \in CaseSizes \cup {Blank} /\ NoType \in Types
      BY DEF Sizes, Types
    <2>4. e \in EntryType /\ e.size = Blank
      BY <2>1, <2>3 DEF EntryType
    <2> HIDE DEF e
    <2>5. ProductFormsTypeOK'
      BY <2>1, <2>2, <2>4, ProductFormsAssumption DEF ProductFormsTypeOK, SheetType
    <2>6. FormsAreHonest' /\ ChangedSinceSubmitted'
      BY <2>2, <2>4 DEF FormsAreHonest, ChangedSinceSubmitted, Editing, Creating, Pending
    <2> QED  BY <2>2, <2>5, <2>6 DEF SheetInv
  <1>3. CASE OpenNew
    BY <1>3, ProductFormsAssumption, ListedSizes
       DEF OpenNew, OpenSheet, SheetInv, ProductFormsTypeOK, SheetType, EntryType, Types, Sizes,
           AllCategories, UnitTypes, FormsAreHonest, ChangedSinceSubmitted, Editing, Creating,
           Pending, IsPresetSizeMl
  <1> QED  BY <1>1, <1>2, <1>3

(* What a stroke of the edit form does: what it changes it marks, and the  *)
(* select has the size unless the box beside it is shown.                  *)
EditStroke ==
  \E e \in EntryType, other \in BOOLEAN, set \in SUBSET Fields :
    /\ productForm' = [productForm EXCEPT !.entry = e, !.other = other, !.set = set,
                                          !.strokes = @ + 1]
    /\ productForm.set \subseteq set
    /\ other \/ IsPresetSizeMl(e.size, e.category, e.unitType)
    /\ \A f \in Fields : e[f] # productForm.entry[f] =>
         f \in set \/ (f = "type" /\ "category" \in set)

LEMMA EditStrokes ==
  ASSUME SheetInv,
         \/ \E c \in AllCategories : ChangeCategory(c)
         \/ \E t \in Types : PickType(t)
         \/ \E ml \in Sizes : PickListed(ml)
         \/ PickOther
         \/ \E ml \in TypedSizes \cup {Blank} : TypeSize(ml)
         \/ \E n \in CaseSizes \cup {Blank} : TypeCaseSize(n)
  PROVE  /\ Editing /\ productForm.strokes < MaxStrokes
         /\ EditStroke
         /\ submission' = submission
  <1>1. /\ Editing
        /\ productForm \in SheetType
        /\ productForm.strokes < MaxStrokes
        /\ submission' = submission
    BY ProductFormsAssumption
       DEF ChangeCategory, PickType, PickListed, PickOther, TypeSize, TypeCaseSize, Stroke,
           Editing, SheetInv, ProductFormsTypeOK
  <1> DEFINE e == productForm.entry
  <1>2. /\ e \in EntryType /\ productForm.other \in BOOLEAN /\ productForm.set \subseteq Fields
        /\ productForm.other \/ IsPresetSizeMl(e.size, e.category, e.unitType)
    BY <1>1 DEF SheetType, SheetInv, FormsAreHonest
  <1> HIDE DEF e
  <1>3. ASSUME NEW c \in AllCategories, ChangeCategory(c)
        PROVE  EditStroke
    <2> DEFINE d == [e EXCEPT !.category = c, !.type = NoType]
               box == productForm.other \/ ~IsPresetSizeMl(e.size, c, e.unitType)
               set == productForm.set \cup {"category"}
    <2>1. /\ d \in EntryType
          /\ \A f \in Fields : d[f] # e[f] => f \in {"category", "type"}
          /\ d.unitType = e.unitType /\ d.category = c /\ d.size = e.size
      BY <1>2 DEF EntryType, Fields, Types
    <2>2. /\ productForm' = [productForm EXCEPT !.entry = d, !.other = box,
                                !.set = set, !.strokes = @ + 1]
          /\ box \/ IsPresetSizeMl(d.size, d.category, d.unitType)
      BY <1>1, <1>2, <1>3, <2>1 DEF e, Stroke, ChangeCategory
    <2> HIDE DEF d
    <2>3. box \in BOOLEAN /\ set \subseteq Fields
      BY <1>2 DEF Fields
    <2>4. /\ productForm.set \subseteq set
          /\ \A f \in Fields : d[f] # e[f] =>
               f \in set \/ (f = "type" /\ "category" \in set)
      BY <2>1
    <2> HIDE DEF box, set
    <2> QED  BY <2>1, <2>2, <2>3, <2>4 DEF e, EditStroke
  <1>4. ASSUME NEW t \in Types, PickType(t)
        PROVE  EditStroke
    <2> DEFINE d == [e EXCEPT !.type = t]
    <2>1. /\ d \in EntryType
          /\ \A f \in Fields : d[f] # e[f] => f \in {"type"}
          /\ d.unitType = e.unitType /\ d.category = e.category /\ d.size = e.size
      BY <1>2 DEF EntryType, Fields
    <2>2. /\ productForm' = [productForm EXCEPT !.entry = d, !.other = productForm.other,
                                !.set = productForm.set \cup {"type"}, !.strokes = @ + 1]
          /\ productForm.other \/ IsPresetSizeMl(d.size, d.category, d.unitType)
      BY <1>1, <1>2, <1>4, <2>1 DEF e, Stroke, PickType
    <2> HIDE DEF d
    <2>3. productForm.other \in BOOLEAN /\ productForm.set \cup {"type"} \subseteq Fields
      BY <1>2 DEF Fields
    <2> QED  BY <2>1, <2>2, <2>3 DEF e, EditStroke
  <1>5. ASSUME NEW ml \in Sizes, PickListed(ml)
        PROVE  EditStroke
    <2> DEFINE d == [e EXCEPT !.size = ml]
    <2>1. /\ d \in EntryType
          /\ \A f \in Fields : d[f] # e[f] => f \in {"size"}
          /\ d.unitType = e.unitType /\ d.category = e.category /\ d.size = ml
      BY <1>2 DEF EntryType, Fields
    <2>2. /\ productForm' = [productForm EXCEPT !.entry = d, !.other = FALSE,
                                !.set = productForm.set \cup {"size"}, !.strokes = @ + 1]
          /\ FALSE \/ IsPresetSizeMl(d.size, d.category, d.unitType)
      BY <1>1, <1>2, <1>5, <2>1 DEF e, Stroke, PickListed
    <2> HIDE DEF d
    <2>3. FALSE \in BOOLEAN /\ productForm.set \cup {"size"} \subseteq Fields
      BY <1>2 DEF Fields
    <2> QED  BY <2>1, <2>2, <2>3 DEF e, EditStroke
  <1>6. ASSUME NEW ml \in Sizes, TypeSize(ml)
        PROVE  EditStroke
    <2> DEFINE d == [e EXCEPT !.size = ml]
    <2>1. /\ d \in EntryType
          /\ \A f \in Fields : d[f] # e[f] => f \in {"size"}
          /\ d.unitType = e.unitType /\ d.category = e.category /\ d.size = ml
      BY <1>2 DEF EntryType, Fields
    <2>2. /\ productForm' = [productForm EXCEPT !.entry = d, !.other = TRUE,
                                !.set = productForm.set \cup {"size"}, !.strokes = @ + 1]
          /\ TRUE \/ IsPresetSizeMl(d.size, d.category, d.unitType)
      BY <1>1, <1>2, <1>6, <2>1 DEF e, Stroke, TypeSize
    <2> HIDE DEF d
    <2>3. TRUE \in BOOLEAN /\ productForm.set \cup {"size"} \subseteq Fields
      BY <1>2 DEF Fields
    <2> QED  BY <2>1, <2>2, <2>3 DEF e, EditStroke
  <1>7. ASSUME NEW n \in CaseSizes \cup {Blank}, TypeCaseSize(n)
        PROVE  EditStroke
    <2> DEFINE d == [e EXCEPT !.caseSize = n]
    <2>1. /\ d \in EntryType
          /\ \A f \in Fields : d[f] # e[f] => f \in {"caseSize"}
          /\ d.unitType = e.unitType /\ d.category = e.category /\ d.size = e.size
      BY <1>2 DEF EntryType, Fields
    <2>2. /\ productForm' = [productForm EXCEPT !.entry = d, !.other = productForm.other,
                                !.set = productForm.set \cup {"caseSize"}, !.strokes = @ + 1]
          /\ productForm.other \/ IsPresetSizeMl(d.size, d.category, d.unitType)
      BY <1>1, <1>2, <1>7, <2>1 DEF e, Stroke, TypeCaseSize
    <2> HIDE DEF d
    <2>3. productForm.other \in BOOLEAN /\ productForm.set \cup {"caseSize"} \subseteq Fields
      BY <1>2 DEF Fields
    <2> QED  BY ZenonT(30), <2>1, <2>2, <2>3 DEF e, EditStroke
  <1>8. CASE PickOther
    BY <1>2, <1>8 DEF e, EditStroke, PickOther, Stroke
  <1>9. TypedSizes \cup {Blank} \subseteq Sizes
    BY DEF Sizes
  <1> QED  BY <1>1, <1>3, <1>4, <1>5, <1>6, <1>7, <1>8, <1>9

LEMMA EditingKeepsSheet ==
  ASSUME SheetInv, Editing, productForm.strokes < MaxStrokes, EditStroke, submission' = submission
  PROVE  SheetInv'
  <1>1. PICK e \in EntryType, other \in BOOLEAN, set \in SUBSET Fields :
          /\ productForm' = [productForm EXCEPT !.entry = e, !.other = other, !.set = set,
                                                !.strokes = @ + 1]
          /\ productForm.set \subseteq set
          /\ other \/ IsPresetSizeMl(e.size, e.category, e.unitType)
          /\ \A f \in Fields : e[f] # productForm.entry[f] =>
               f \in set \/ (f = "type" /\ "category" \in set)
    BY DEF EditStroke
  <1>2. productForm \in SheetType
    BY DEF SheetInv, ProductFormsTypeOK, Editing
  <1>3. /\ productForm' \in SheetType
        /\ productForm'.kind = "edit" /\ productForm'.seed = productForm.seed
        /\ productForm'.entry = e /\ productForm'.other = other /\ productForm'.set = set
    <2>1. productForm.strokes + 1 \in 0..MaxStrokes
      BY <1>2, ProductFormsAssumption DEF SheetType
    <2> QED  BY <1>1, <1>2, <2>1 DEF SheetType, Editing
  <1>4. ProductFormsTypeOK' /\ productForm' # NoSheet
    BY <1>3, ProductFormsAssumption DEF SheetInv, ProductFormsTypeOK
  <1>5. Editing' /\ ~Creating' /\ (Pending' <=> Pending)
    BY <1>3, <1>4 DEF Editing, Creating, Pending
  <1>6. FormsAreHonest'
    <2>1. ByHand \subseteq ByHand' /\ set \subseteq ByHand'
      BY <1>1, <1>3, <1>5 DEF ByHand
    <2>2. ASSUME NEW f \in Fields, productForm'.entry[f] # productForm'.seed[f]
          PROVE  f \in ByHand' \/ (f = "type" /\ "category" \in ByHand')
      BY <1>1, <1>3, <2>1, <2>2 DEF SheetInv, FormsAreHonest
    <2> QED  BY <1>1, <1>3, <1>5, <2>2 DEF FormsAreHonest
  <1>7. ChangedSinceSubmitted'
    BY <1>1, <1>3, <1>5 DEF SheetInv, ChangedSinceSubmitted
  <1> QED  BY <1>4, <1>6, <1>7 DEF SheetInv

(* A form for a new product.                                               *)
LEMMA RetargetKeepsSheet ==
  ASSUME SheetInv, NEW field \in {"category", "unitType"},
         NEW c \in AllCategories, NEW u \in UnitTypes, Retarget(field, c, u),
         field = "category" => u = productForm.entry.unitType
  PROVE  SheetInv'
  <1> DEFINE e == productForm.entry
             stays == e.size = Blank \/ IsPresetSizeMl(e.size, c, u)
             size == IF stays THEN e.size
                     ELSE IF productForm.kind = "from" THEN Blank ELSE DefaultSizeMlFor(c, u)
             set == (IF stays THEN productForm.set ELSE productForm.set \ {"size"}) \cup {field}
             d == [e EXCEPT !.category = c, !.unitType = u, !.size = size]
  <1>1. /\ Creating /\ ~Editing
        /\ productForm \in SheetType /\ e \in EntryType
        /\ productForm.strokes < MaxStrokes
        /\ submission' = submission
        /\ productForm' = [productForm EXCEPT !.entry = d, !.other = FALSE, !.set = set,
                                              !.strokes = @ + 1]
    BY DEF Retarget, Stroke, Creating, Editing, SheetInv, ProductFormsTypeOK, SheetType
  <1>2. size \in Sizes
    BY <1>1, ListedSizes DEF EntryType, Sizes
  <1>3. /\ d \in EntryType /\ d.category = c /\ d.unitType = u /\ d.size = size
    BY <1>1, <1>2 DEF EntryType
  <1>4. set \subseteq Fields
    BY <1>1 DEF SheetType, Fields
  <1> HIDE DEF d
  <1>5. /\ productForm' \in SheetType
        /\ productForm'.kind = productForm.kind /\ productForm'.seed = productForm.seed
        /\ productForm'.entry = d /\ productForm'.other = FALSE /\ productForm'.set = set
    <2>1. productForm.strokes + 1 \in 0..MaxStrokes
      BY <1>1, ProductFormsAssumption DEF SheetType
    <2> HIDE DEF set, e
    <2> QED  BY <1>1, <1>3, <1>4, <2>1 DEF SheetType
  <1>6. ProductFormsTypeOK' /\ productForm' # NoSheet
    BY <1>1, <1>5, ProductFormsAssumption DEF SheetInv, ProductFormsTypeOK
  <1>7. Creating' /\ ~Editing' /\ (Pending' <=> Pending)
    BY <1>1, <1>5, <1>6 DEF Editing, Creating, Pending
  <1>8. /\ field \in ByHand'
        /\ "unitType" \in ByHand => "unitType" \in ByHand'
        /\ stays /\ "size" \in ByHand => "size" \in ByHand'
        /\ stays /\ "size" \notin ByHand' => "size" \notin ByHand
    BY <1>1, <1>5, <1>7 DEF ByHand
  <1>9. size # Blank => IsPresetSizeMl(size, c, u)
    BY ListedSizes DEF IsPresetSizeMl
  <1>10. productForm.kind = "new" /\ "size" \notin ByHand' => size = DefaultSizeMlFor(c, u)
    <2>1. CASE ~stays
      BY <2>1
    <2>2. CASE stays /\ productForm.kind = "new" /\ "size" \notin ByHand'
      <3>1. e.size = DefaultSizeMlFor(e.category, e.unitType)
        BY <1>1, <1>8, <2>2 DEF SheetInv, FormsAreHonest
      <3>2. e.size # Blank
        BY <3>1, ListedSizes
      <3> QED  BY <2>2, <3>1, <3>2, SharedDefault
    <2> QED  BY <2>1, <2>2
  <1>11. productForm.kind = "from" /\ size # Blank =>
           /\ "size" \in ByHand'
           /\ size \in Excluded(productForm') => "unitType" \in ByHand'
    <2> SUFFICES ASSUME productForm.kind = "from", size # Blank
                 PROVE  /\ "size" \in ByHand'
                        /\ size \in Excluded(productForm') => "unitType" \in ByHand'
      OBVIOUS
    <2>1. stays /\ e.size # Blank /\ "size" \in ByHand
      BY <1>1 DEF SheetInv, FormsAreHonest
    <2>2. CASE field = "category"
      <3>1. Excluded(productForm') = Excluded(productForm)
        BY <1>3, <1>5, <2>2 DEF Excluded
      <3> QED  BY <1>1, <1>8, <2>1, <3>1 DEF SheetInv, FormsAreHonest
    <2> QED  BY <1>8, <2>1, <2>2
  <1>12. FormsAreHonest'
    <2> HIDE DEF size, set, stays, e
    <2> QED  BY <1>3, <1>5, <1>7, <1>9, <1>10, <1>11 DEF FormsAreHonest
  <1> QED  BY <1>6, <1>7, <1>12 DEF SheetInv, ChangedSinceSubmitted

LEMMA PickSizeKeepsSheet ==
  ASSUME SheetInv, NEW ml \in Sizes, PickSize(ml)
  PROVE  SheetInv'
  <1> DEFINE e == productForm.entry
             d == [e EXCEPT !.size = ml]
             set == productForm.set \cup {"size"}
  <1>1. /\ Creating /\ ~Editing
        /\ productForm \in SheetType /\ e \in EntryType
        /\ productForm.strokes < MaxStrokes
        /\ submission' = submission
        /\ productForm' = [productForm EXCEPT !.entry = d, !.other = FALSE, !.set = set,
                                              !.strokes = @ + 1]
        /\ ml \notin Excluded(productForm) /\ IsPresetSizeMl(ml, e.category, e.unitType)
    BY DEF PickSize, Stroke, Creating, Editing, SheetInv, ProductFormsTypeOK, SheetType
  <1>2. d \in EntryType /\ d.category = e.category /\ d.unitType = e.unitType /\ d.size = ml
    BY <1>1 DEF EntryType
  <1>3. set \subseteq Fields
    BY <1>1 DEF SheetType, Fields
  <1> HIDE DEF d, set
  <1>4. /\ productForm' \in SheetType
        /\ productForm'.kind = productForm.kind /\ productForm'.seed = productForm.seed
        /\ productForm'.entry = d /\ productForm'.other = FALSE /\ productForm'.set = set
    <2>1. productForm.strokes + 1 \in 0..MaxStrokes
      BY <1>1, ProductFormsAssumption DEF SheetType
    <2> QED  BY <1>1, <1>2, <1>3, <2>1 DEF SheetType
  <1>5. ProductFormsTypeOK' /\ productForm' # NoSheet
    BY <1>1, <1>4, ProductFormsAssumption DEF SheetInv, ProductFormsTypeOK
  <1>6. Creating' /\ ~Editing'
    BY <1>1, <1>4, <1>5 DEF Editing, Creating
  <1>7. "size" \in ByHand' /\ ml \notin Excluded(productForm')
    BY <1>1, <1>2, <1>4 DEF ByHand, Excluded, set
  <1>8. FormsAreHonest'
    BY <1>1, <1>2, <1>4, <1>6, <1>7 DEF FormsAreHonest
  <1> QED  BY <1>5, <1>6, <1>8 DEF SheetInv, ChangedSinceSubmitted

(* Submitting takes the marks along; a refusal gives them back.            *)
LEMMA SubmittingKeepsSheet ==
  ASSUME SheetInv, SaveSheet \/ Deactivate \/ SubmitNew
  PROVE  SheetInv'
  <1>1. PICK op \in {"save", "deactivate"} :
          /\ productForm # NoSheet /\ SubmitSheet(op)
    BY DEF SaveSheet, Deactivate, SubmitNew, Editing, Creating
  <1>2. /\ productForm \in SheetType /\ ~Pending
        /\ submission' = [op |-> op, entry |-> productForm.entry, set |-> productForm.set,
                          lost |-> FALSE]
        /\ productForm' = [productForm EXCEPT !.set = {}]
    BY <1>1 DEF SubmitSheet, SheetInv, ProductFormsTypeOK
  <1>3. submission' \in SubmissionType
    BY <1>2 DEF SheetType, SubmissionType
  <1>4. /\ productForm' \in SheetType
        /\ productForm'.kind = productForm.kind /\ productForm'.seed = productForm.seed
        /\ productForm'.entry = productForm.entry /\ productForm'.other = productForm.other
        /\ productForm'.set = {}
    BY <1>2 DEF SheetType
  <1>5. /\ ProductFormsTypeOK' /\ productForm' # NoSheet
        /\ (Editing' <=> Editing) /\ (Creating' <=> Creating) /\ Pending'
    BY <1>1, <1>3, <1>4, ProductFormsAssumption
       DEF ProductFormsTypeOK, Editing, Creating, Pending
  <1>6. ByHand' = ByHand
    BY <1>2, <1>4, <1>5 DEF ByHand
  <1>7. FormsAreHonest'
    <2>1. Excluded(productForm') = Excluded(productForm)
      BY <1>4 DEF Excluded
    <2>2. FormsAreHonest
      BY DEF SheetInv
    <2> QED  BY <1>4, <1>5, <1>6, <2>1, <2>2 DEF FormsAreHonest
  <1>8. ChangedSinceSubmitted'
    BY <1>2, <1>4 DEF ChangedSinceSubmitted
  <1> QED  BY <1>5, <1>7, <1>8 DEF SheetInv

LEMMA AnswersKeepSheet ==
  ASSUME SheetInv, SheetSaved \/ SheetRefused \/ SheetThrew \/ NewSaved \/ NewFailed \/ Leave
  PROVE  SheetInv'
  <1>1. /\ productForm # NoSheet /\ productForm \in SheetType
        /\ FormsAreHonest /\ ChangedSinceSubmitted
    BY DEF SheetSaved, SheetRefused, SheetThrew, NewSaved, NewFailed, Leave, Editing, Creating,
           SheetInv, ProductFormsTypeOK
  <1>2. CASE productForm' = NoSheet /\ submission' = NoSent
    BY <1>2 DEF SheetInv, ProductFormsTypeOK, FormsAreHonest, ChangedSinceSubmitted, Editing,
                Creating, Pending
  <1>3. CASE SheetSaved /\ submission.op = "save" /\ submission.entry.size # Blank
             /\ productForm' = [productForm EXCEPT !.seed = submission.entry]
    <2>1. Editing /\ Pending /\ submission \in SubmissionType /\ submission' = NoSent
      BY <1>3 DEF SheetSaved, Pending, SheetInv, ProductFormsTypeOK
    <2>2. /\ productForm' \in SheetType
          /\ productForm'.kind = productForm.kind /\ productForm'.seed = submission.entry
          /\ productForm'.entry = productForm.entry /\ productForm'.other = productForm.other
          /\ productForm'.set = productForm.set
      BY <1>1, <1>3, <2>1 DEF SheetType, SubmissionType
    <2>3. /\ ProductFormsTypeOK' /\ productForm' # NoSheet
          /\ Editing' /\ ~Creating' /\ ~Pending'
      BY <2>1, <2>2, ProductFormsAssumption DEF ProductFormsTypeOK, Editing, Creating, Pending
    <2>4. ByHand' = productForm.set
      BY <2>2, <2>3 DEF ByHand
    <2>5. FormsAreHonest'
      BY <1>1, <2>1, <2>2, <2>3, <2>4 DEF FormsAreHonest, ChangedSinceSubmitted
    <2> QED  BY <2>3, <2>5 DEF SheetInv, ChangedSinceSubmitted
  <1>4. CASE SheetRefused \/ NewFailed
    <2>1. /\ Pending /\ submission \in SubmissionType /\ submission' = NoSent
          /\ productForm' = [productForm EXCEPT !.set = @ \cup submission.set]
      BY <1>4 DEF SheetRefused, NewFailed, Pending, SheetInv, ProductFormsTypeOK
    <2>2. /\ productForm' \in SheetType
          /\ productForm'.kind = productForm.kind /\ productForm'.seed = productForm.seed
          /\ productForm'.entry = productForm.entry /\ productForm'.other = productForm.other
          /\ productForm'.set = productForm.set \cup submission.set
      BY <1>1, <2>1 DEF SheetType, SubmissionType
    <2>3. /\ ProductFormsTypeOK' /\ productForm' # NoSheet
          /\ (Editing' <=> Editing) /\ (Creating' <=> Creating) /\ ~Pending'
      BY <1>1, <2>1, <2>2, ProductFormsAssumption
         DEF ProductFormsTypeOK, Editing, Creating, Pending
    <2>4. ByHand' = ByHand
      BY <2>1, <2>2, <2>3 DEF ByHand
    <2>5. FormsAreHonest'
      <3>1. Excluded(productForm') = Excluded(productForm)
        BY <2>2 DEF Excluded
      <3> QED  BY <1>1, <2>2, <2>3, <2>4, <3>1 DEF FormsAreHonest
    <2> QED  BY <2>3, <2>5 DEF SheetInv, ChangedSinceSubmitted
  <1>5. CASE SheetThrew
    <2>1. /\ submission \in SubmissionType /\ productForm' = productForm /\ Pending
          /\ submission' = [submission EXCEPT !.lost = TRUE]
      BY <1>5 DEF SheetThrew, Pending, SheetInv, ProductFormsTypeOK
    <2>2. /\ submission' \in SubmissionType
          /\ submission'.set = submission.set /\ submission'.entry = submission.entry
      BY <2>1 DEF SubmissionType
    <2>3. /\ ProductFormsTypeOK' /\ Pending'
          /\ (Editing' <=> Editing) /\ (Creating' <=> Creating)
      BY <1>1, <2>1, <2>2, ProductFormsAssumption
         DEF ProductFormsTypeOK, Editing, Creating, Pending
    <2>4. ByHand' = ByHand /\ Excluded(productForm') = Excluded(productForm)
      BY <2>1, <2>2, <2>3 DEF ByHand, Excluded
    <2>5. FormsAreHonest' /\ ChangedSinceSubmitted'
      BY <1>1, <2>1, <2>2, <2>3, <2>4 DEF FormsAreHonest, ChangedSinceSubmitted
    <2> QED  BY <1>1, <2>1, <2>3, <2>5 DEF SheetInv
  <1> QED  BY <1>2, <1>3, <1>4, <1>5 DEF SheetSaved, NewSaved, Leave

(* The product forms keep their invariant.                                 *)
LEMMA ProductFormsStep ==
  SheetInv /\ ProductFormsNext => SheetInv'
  <1> SUFFICES ASSUME SheetInv, ProductFormsNext PROVE SheetInv'
    OBVIOUS
  <1>1. CASE (\E p \in Articles : OpenEdit(p) \/ OpenDifferent(p)) \/ OpenNew
    BY <1>1, OpeningKeepsSheet
  <1>2. CASE \/ \E c \in AllCategories : ChangeCategory(c)
             \/ \E t \in Types : PickType(t)
             \/ \E ml \in Sizes : PickListed(ml)
             \/ PickOther
             \/ \E ml \in TypedSizes \cup {Blank} : TypeSize(ml)
             \/ \E n \in CaseSizes \cup {Blank} : TypeCaseSize(n)
    BY <1>2, EditStrokes, EditingKeepsSheet
  <1>3. ASSUME NEW c \in AllCategories, RetargetCategory(c)
        PROVE  SheetInv'
    <2>1. Creating /\ productForm.entry.unitType \in UnitTypes
      BY <1>3 DEF RetargetCategory, Creating, SheetInv, ProductFormsTypeOK, SheetType, EntryType
    <2> QED  BY <1>3, <2>1, RetargetKeepsSheet DEF RetargetCategory
  <1>4. ASSUME NEW u \in UnitTypes, RetargetUnit(u)
        PROVE  SheetInv'
    <2>1. Creating /\ productForm.entry.category \in AllCategories
      BY <1>4 DEF RetargetUnit, Creating, SheetInv, ProductFormsTypeOK, SheetType, EntryType
    <2> QED  BY <1>4, <2>1, RetargetKeepsSheet DEF RetargetUnit
  <1>5. CASE \E ml \in Sizes : PickSize(ml)
    BY <1>5, PickSizeKeepsSheet
  <1>6. CASE SaveSheet \/ Deactivate \/ SubmitNew
    BY <1>6, SubmittingKeepsSheet
  <1>7. CASE SheetSaved \/ SheetRefused \/ SheetThrew \/ NewSaved \/ NewFailed \/ Leave
    BY <1>7, AnswersKeepSheet
  <1> QED  BY <1>1, <1>2, <1>3, <1>4, <1>5, <1>6, <1>7 DEF ProductFormsNext

-----------------------------------------------------------------------------
(* The lists with their inline form.                                       *)

(* A form opens on what the page has of a row that is there, or on nothing.*)
LEMMA Prefilled ==
  ASSUME RowInv, NEW of \in Ids \cup {NewRow}, of \in Ids => listed[of] # Absent
  PROVE  /\ FormFor(of) \in FormType /\ FormFor(of) # NoForm
         /\ FormFor(of).of = of /\ Rowed(of)
         /\ TypedOrSeed(FormFor(of))
  <1>1. OnPage(of) \in FieldsType
    <2>1. of = NewRow \/ (of \in Ids /\ of # NewRow /\ listed[of] \in ListRowType)
      BY RowFormsAssumption DEF RowInv, RowFormsTypeOK, Tables
    <2> QED  BY <2>1 DEF OnPage, EntryOfRow, FieldsType, ListRowType, Typed
  <1>2. FormFor(of) \in FormType
    BY <1>1 DEF FormFor, Prefill, FormType
  <1> QED  BY <1>2, RowFormsAssumption DEF FormFor, Prefill, Rowed, TypedOrSeed, RowInv

LEMMA Counted ==
  ASSUME RowInv, Deed
  PROVE  deeds' \in 0..MaxDeeds
  BY RowFormsAssumption DEF RowInv, RowFormsTypeOK, Deed

(* The form alone changes.                                                 *)
LEMMA NewForm ==
  ASSUME RowInv, NEW g \in FormType, form' = g, Rowed(g.of), TypedOrSeed(g),
         deeds' \in 0..MaxDeeds,
         UNCHANGED <<list, stored, listed, refreshing, save, late, retirement>>
  PROVE  RowInv'
  <1>1. RowFormsTypeOK'
    BY DEF RowInv, RowFormsTypeOK
  <1>2. form' # NoForm /\ Rowed(form.of)' /\ TypedOrSeed(form)'
    BY RowFormsAssumption DEF Rowed, TypedOrSeed
  <1>3. /\ save' # NoSave => Rowed(save.form.of)' /\ TypedOrSeed(save.form)'
        /\ late' # NoForm => Rowed(late.of)' /\ TypedOrSeed(late)'
    BY DEF RowInv, Rowed, TypedOrSeed
  <1> QED  BY <1>1, <1>2, <1>3 DEF RowInv

(* What was typed where stays so.                                          *)
Kept ==
  /\ form # NoForm => Rowed(form.of) /\ TypedOrSeed(form)
  /\ save # NoSave => Rowed(save.form.of) /\ TypedOrSeed(save.form)
  /\ late # NoForm => Rowed(late.of) /\ TypedOrSeed(late)

(* The form and what it is for.                                            *)
LEMMA FormKeepsRows ==
  ASSUME RowInv,
         \/ AddRow \/ CancelForm
         \/ \E r \in Ids : EditRow(r)
         \/ \E f \in Entry : \E v \in Typed[f] : TypeField(f, v)
  PROVE  RowInv'
  <1>1. CASE AddRow
    <2>1. form' = FormFor(NewRow) /\ NewRow \in Ids \cup {NewRow} /\ NewRow \notin Ids
      BY <1>1, RowFormsAssumption DEF AddRow
    <2>2. deeds' \in 0..MaxDeeds
      BY <1>1, Counted DEF AddRow
    <2> QED  BY <1>1, <2>1, <2>2, Prefilled, NewForm DEF AddRow
  <1>2. CASE CancelForm
    <2>1. /\ form' = NoForm /\ UNCHANGED <<list, stored, listed, refreshing, late, retirement, deeds>>
          /\ \/ save = NoSave /\ save' = NoSave
             \/ save # NoSave /\ save' = [save EXCEPT !.mine = FALSE]
      BY <1>2 DEF CancelForm
    <2>2. save # NoSave => save \in SaveType
      BY DEF RowInv, RowFormsTypeOK
    <2>3. save' # NoSave => save # NoSave /\ save' \in SaveType /\ save'.form = save.form /\ ~save'.mine
      BY <2>1, <2>2 DEF SaveType
    <2>4. RowFormsTypeOK'
      BY <2>1, <2>3 DEF RowInv, RowFormsTypeOK
    <2>5. Kept'
      BY <2>1, <2>3 DEF RowInv, Kept, Rowed, TypedOrSeed
    <2> QED  BY <2>1, <2>3, <2>4, <2>5 DEF RowInv, Kept
  <1>3. ASSUME NEW r \in Ids, EditRow(r)
        PROVE  RowInv'
    <2>1. deeds' \in 0..MaxDeeds
      BY <1>3, Counted DEF EditRow
    <2>2. CASE form = NoForm
      <3>1. form' = FormFor(r) /\ r \in Ids \cup {NewRow} /\ listed[r] # Absent
        BY <1>3, <2>2 DEF EditRow
      <3> QED  BY <1>3, <2>1, <3>1, Prefilled, NewForm DEF EditRow
    <2>3. CASE form # NoForm
      <3> DEFINE g == [form EXCEPT !.of = r, !.moved = @ \/ form.of # r]
      <3>1. form \in FormType /\ TypedOrSeed(form)
        BY <2>3 DEF RowInv, RowFormsTypeOK
      <3>2. g \in FormType /\ g.of = r
        BY <3>1 DEF FormType
      <3>3. TypedOrSeed(g)
        BY <3>1 DEF FormType, TypedOrSeed
      <3>4. form' = g /\ Rowed(r)
        BY <1>3, <2>3 DEF EditRow, RowInv, Rowed
      <3> HIDE DEF g
      <3> QED  BY <1>3, <2>1, <3>2, <3>3, <3>4, NewForm DEF EditRow
    <2> QED  BY <2>2, <2>3
  <1>4. ASSUME NEW f \in Entry, NEW v \in Typed[f], TypeField(f, v)
        PROVE  RowInv'
    <2> DEFINE fields == [form.fields EXCEPT ![f] = v]
               g == [form EXCEPT !.fields = fields, !.typed = form.typed \cup {f}]
    <2>1. form \in FormType /\ TypedOrSeed(form) /\ Rowed(form.of)
      BY <1>4 DEF TypeField, RowInv, RowFormsTypeOK
    <2>2. fields \in FieldsType /\ \A e \in Entry : e # f => fields[e] = form.fields[e]
      BY <2>1 DEF FormType, FieldsType, Entry, Typed
    <2>3. form' = g
      BY <1>4, <2>1 DEF TypeField, FormType
    <2> HIDE DEF fields
    <2>4. g \in FormType /\ g.of = form.of
      BY <2>1, <2>2 DEF FormType
    <2>5. TypedOrSeed(g)
      BY <2>1, <2>2 DEF FormType, TypedOrSeed
    <2>6. deeds' \in 0..MaxDeeds
      BY <1>4, Counted DEF TypeField
    <2> HIDE DEF g
    <2> QED  BY <1>4, <2>1, <2>3, <2>4, <2>5, <2>6, NewForm DEF TypeField
  <1> QED  BY <1>1, <1>2, <1>3, <1>4

(* A form that is saved leaves a row where there was one.                  *)
LEMMA WriteKeepsRows ==
  ASSUME RowInv, NEW f \in FormType, Rowed(f.of), Write(f)
  PROVE  stored' \in Tables /\ \A q \in Ids : stored[q] # Absent => stored'[q] # Absent
  <1>1. stored \in Tables /\ f.fields \in FieldsType /\ f.of \in Ids \cup {NewRow}
    BY DEF RowInv, RowFormsTypeOK, FormType
  <1>2. f.fields.name \in Names /\ f.fields.details \in Details \cup {Empty}
    BY <1>1 DEF Write, FieldsType, Typed
  <1>3. PICK r \in Ids : stored' = [stored EXCEPT ![r] =
          [name |-> f.fields.name, details |-> f.fields.details,
           active |-> f.of = NewRow \/ stored[r].active]]
          /\ (f.of = NewRow \/ stored[r] # Absent)
    <2>1. PICK r \in IF f.of = NewRow THEN {i \in Ids : stored[i] = Absent} ELSE {f.of} :
            stored' = [stored EXCEPT ![r] =
              [name |-> f.fields.name, details |-> f.fields.details,
               active |-> f.of = NewRow \/ stored[r].active]]
      BY DEF Write
    <2>2. r \in Ids /\ (f.of = NewRow \/ stored[r] # Absent)
      BY <1>1, <2>1 DEF Rowed
    <2> QED  BY <2>1, <2>2
  <1>4. (f.of = NewRow \/ stored[r].active) \in BOOLEAN
    OBVIOUS
  <1>5. stored'[r] \in ListRowType
    BY <1>1, <1>2, <1>3, <1>4 DEF Tables, ListRowType
  <1> QED  BY <1>1, <1>3, <1>5, RowFormsAssumption DEF Tables

(* The rows alone change, while what sent them moves on.                   *)
LEMMA NewRows ==
  ASSUME RowInv, stored' \in Tables,
         \A q \in Ids : stored[q] # Absent => stored'[q] # Absent,
         \/ /\ save' \in SaveType /\ save # NoSave /\ late' = late
            /\ save'.form = save.form /\ save'.mine = save.mine
         \/ late' = NoForm /\ save' = save,
         UNCHANGED <<list, listed, refreshing, form, retirement, deeds>>
  PROVE  RowInv'
  <1>1. RowFormsTypeOK'
    BY DEF RowInv, RowFormsTypeOK
  <1>2. form' # NoForm => Rowed(form.of)' /\ TypedOrSeed(form)'
    BY DEF RowInv, Rowed, TypedOrSeed
  <1>3. save' # NoSave => Rowed(save.form.of)' /\ TypedOrSeed(save.form)'
    BY DEF RowInv, Rowed, TypedOrSeed
  <1>4. late' # NoForm => Rowed(late.of)' /\ TypedOrSeed(late)'
    BY DEF RowInv, Rowed, TypedOrSeed
  <1>5. /\ save' # NoSave /\ save'.mine => form' # NoForm
        /\ \A r \in Ids : listed'[r] # Absent => stored'[r] # Absent
        /\ retirement'.armed \in Ids => listed'[retirement'.armed] # Absent
        /\ retirement'.call \in {"sent", "alone"} =>
             retirement'.pending \in Ids /\ stored'[retirement'.pending] # Absent
    BY DEF RowInv
  <1> QED  BY <1>1, <1>2, <1>3, <1>4, <1>5 DEF RowInv

(* Its save.                                                               *)
LEMMA SaveKeepsRows ==
  ASSUME RowInv, SaveForm \/ ServeSave \/ ServeLate \/ SaveAnswered \/ SaveThrew
  PROVE  RowInv'
  <1>1. CASE SaveForm
    <2>1. form \in FormType /\ TypedOrSeed(form) /\ form # NoForm /\ Rowed(form.of)
      BY <1>1 DEF SaveForm, RowInv, RowFormsTypeOK
    <2>2. save' = [form |-> form, mine |-> TRUE, state |-> "sent"]
          /\ form' = [form EXCEPT !.pending = TRUE]
      BY <1>1 DEF SaveForm
    <2>3. save' \in SaveType /\ form' \in FormType /\ form' # NoForm
          /\ save'.form = form /\ form'.of = form.of /\ TypedOrSeed(form')
      BY <2>1, <2>2, RowFormsAssumption DEF SaveType, FormType, TypedOrSeed
    <2> QED  BY <1>1, <2>1, <2>3, RowFormsAssumption
             DEF SaveForm, Deed, RowInv, RowFormsTypeOK, Rowed, TypedOrSeed
  <1>2. CASE ServeSave
    <2>1. save \in SaveType /\ save.form \in FormType /\ Rowed(save.form.of)
      BY <1>2 DEF ServeSave, RowInv, RowFormsTypeOK, SaveType
    <2>2. /\ save' \in SaveType /\ save # NoSave /\ late' = late
          /\ save'.form = save.form /\ save'.mine = save.mine
      BY <1>2, <2>1 DEF ServeSave, SaveType
    <2>3. stored' \in Tables /\ \A q \in Ids : stored[q] # Absent => stored'[q] # Absent
      BY <1>2, <2>1, WriteKeepsRows DEF ServeSave, RowInv, RowFormsTypeOK
    <2> QED  BY <1>2, <2>2, <2>3, NewRows DEF ServeSave
  <1>5. CASE ServeLate
    <2>1. late \in FormType /\ Rowed(late.of)
      BY <1>5 DEF ServeLate, RowInv, RowFormsTypeOK
    <2>2. stored' \in Tables /\ \A q \in Ids : stored[q] # Absent => stored'[q] # Absent
      BY <1>5, <2>1, WriteKeepsRows DEF ServeLate, RowInv, RowFormsTypeOK
    <2> QED  BY <1>5, <2>2, NewRows DEF ServeLate
  <1>3. CASE SaveAnswered
    <2>1. save \in SaveType
      BY <1>3 DEF SaveAnswered, RowInv, RowFormsTypeOK
    <2>2. CASE form' = NoForm \/ form' = form
      <3>1. RowFormsTypeOK'
        BY <1>3, <2>2 DEF SaveAnswered, RowInv, RowFormsTypeOK
      <3>2. Kept'
        BY <1>3, <2>2 DEF SaveAnswered, RowInv, Kept, Rowed, TypedOrSeed
      <3> QED  BY <1>3, <3>1, <3>2 DEF SaveAnswered, RowInv, Kept
    <2>3. CASE form # NoForm /\ form' = [form EXCEPT !.pending = FALSE] /\ UNCHANGED refreshing
      <3> DEFINE g == [form EXCEPT !.pending = FALSE]
      <3>1. form \in FormType /\ TypedOrSeed(form) /\ Rowed(form.of)
        BY <2>3 DEF RowInv, RowFormsTypeOK
      <3>2. g \in FormType /\ g.of = form.of /\ TypedOrSeed(g)
        BY <3>1 DEF FormType, TypedOrSeed
      <3>3. form' = g
        BY <2>3
      <3> HIDE DEF g
      <3>4. RowFormsTypeOK' /\ form' # NoForm /\ Rowed(form.of)' /\ TypedOrSeed(form)'
        BY <1>3, <2>3, <3>1, <3>2, <3>3, RowFormsAssumption
           DEF SaveAnswered, RowInv, RowFormsTypeOK, Rowed, TypedOrSeed
      <3>5. late' # NoForm => Rowed(late.of)' /\ TypedOrSeed(late)'
        BY <1>3 DEF SaveAnswered, RowInv, Rowed, TypedOrSeed
      <3> QED  BY <1>3, <3>4, <3>5 DEF SaveAnswered, RowInv
    <2> QED  BY <1>3, <2>2, <2>3 DEF SaveAnswered, RowInv
  <1>4. CASE SaveThrew
    <2>1. /\ late' = late \/ late' = save.form
          /\ save.form \in FormType /\ Rowed(save.form.of) /\ TypedOrSeed(save.form)
      BY <1>4 DEF SaveThrew, RowInv, RowFormsTypeOK, SaveType
    <2>2. RowFormsTypeOK'
      BY <1>4, <2>1 DEF SaveThrew, RowInv, RowFormsTypeOK
    <2>3. /\ form' # NoForm => Rowed(form.of)' /\ TypedOrSeed(form)'
          /\ late' # NoForm => Rowed(late.of)' /\ TypedOrSeed(late)'
      BY <1>4, <2>1 DEF SaveThrew, RowInv, Rowed, TypedOrSeed
    <2> QED  BY <1>4, <2>2, <2>3 DEF SaveThrew, RowInv
  <1> QED  BY <1>1, <1>2, <1>3, <1>4, <1>5

(* The list itself: what it reads anew, and what other desks save.         *)
LEMMA ListKeepsRows ==
  ASSUME RowInv,
         \/ Refreshed
         \/ \E r \in Ids, row \in ListRowType : SavedElsewhere(r, row)
  PROVE  RowInv'
  <1>1. CASE Refreshed
    <2>1. RowFormsTypeOK'
      BY <1>1 DEF Refreshed, RowInv, RowFormsTypeOK
    <2>2. Kept'
      BY <1>1 DEF Refreshed, RowInv, Kept, Rowed, TypedOrSeed
    <2>3. \A r \in Ids : listed'[r] # Absent => stored'[r] # Absent
      BY <1>1 DEF Refreshed
    <2>4. /\ save' # NoSave /\ save'.mine => form' # NoForm
          /\ retirement'.call \in {"sent", "alone"} =>
               retirement'.pending \in Ids /\ stored'[retirement'.pending] # Absent
      BY <1>1 DEF Refreshed, RowInv
    <2>5. retirement'.armed \in Ids => listed'[retirement'.armed] # Absent
      BY <1>1 DEF Refreshed, RowInv
    <2> QED  BY <2>1, <2>2, <2>3, <2>4, <2>5 DEF RowInv, Kept
  <1>2. ASSUME NEW r \in Ids, NEW row \in ListRowType, SavedElsewhere(r, row)
        PROVE  RowInv'
    <2>1. stored' \in Tables /\ \A q \in Ids : stored[q] # Absent => stored'[q] # Absent
      BY <1>2, RowFormsAssumption DEF SavedElsewhere, RowInv, RowFormsTypeOK, Tables
    <2>2. RowFormsTypeOK'
      BY <1>2, <2>1, Counted DEF SavedElsewhere, RowInv, RowFormsTypeOK
    <2>3. /\ form' # NoForm => Rowed(form.of)' /\ TypedOrSeed(form)'
          /\ save' # NoSave => Rowed(save.form.of)' /\ TypedOrSeed(save.form)'
          /\ late' # NoForm => Rowed(late.of)' /\ TypedOrSeed(late)'
      BY <1>2, <2>1 DEF SavedElsewhere, RowInv, Rowed, TypedOrSeed
    <2> QED  BY <1>2, <2>1, <2>2, <2>3 DEF SavedElsewhere, RowInv
  <1> QED  BY <1>1, <1>2

(* Retiring.                                                               *)
LEMMA RetirementKeepsRows ==
  ASSUME RowInv,
         \/ \E r \in Ids : ArmRetire(r) \/ ConfirmRetire(r)
         \/ CancelRetire \/ ServeRetire \/ RetireAnswered \/ RetireThrew
  PROVE  RowInv'
  <1>1. \A r \in Ids : stored[r] \in ListRowType \/ stored[r] = Absent
    BY DEF RowInv, RowFormsTypeOK, Tables
  <1>2. ASSUME NEW r \in Ids, ArmRetire(r)
        PROVE  RowInv'
    BY <1>2, Counted DEF ArmRetire, RowInv, RowFormsTypeOK, Rowed, TypedOrSeed
  <1>3. ASSUME NEW r \in Ids, ConfirmRetire(r)
        PROVE  RowInv'
    <2>1. /\ retirement' = [retirement EXCEPT !.pending = r, !.call = "sent"]
          /\ retirement.armed = r /\ stored[r] # Absent
      BY <1>3 DEF ConfirmRetire, Confirmable, RowInv
    <2>2. RowFormsTypeOK' /\ retirement'.armed = r /\ retirement'.pending = r
      BY <1>3, <2>1 DEF ConfirmRetire, RowInv, RowFormsTypeOK
    <2> QED  BY <1>3, <2>1, <2>2 DEF ConfirmRetire, RowInv, Rowed, TypedOrSeed
  <1>4. CASE CancelRetire \/ RetireAnswered \/ RetireThrew
    <2>1. /\ retirement'.armed = retirement.armed \/ retirement'.armed = Nobody
          /\ RowFormsTypeOK'
      <3>1. RowFormsTypeOK
        BY DEF RowInv
      <3>2. CASE CancelRetire
        BY <3>1, <3>2 DEF CancelRetire, RowFormsTypeOK
      <3>3. CASE RetireAnswered
        <4>1. refreshing' \in BOOLEAN
          BY <3>3 DEF RetireAnswered
        <4> QED  BY <3>1, <3>3, <4>1 DEF RetireAnswered, RowFormsTypeOK
      <3>4. CASE RetireThrew
        BY <3>1, <3>4 DEF RetireThrew, RowFormsTypeOK
      <3> QED  BY <1>4, <3>2, <3>3, <3>4
    <2>2. retirement'.call \in {"sent", "alone"} =>
            retirement.call \in {"sent", "alone"} /\ retirement'.pending = retirement.pending
      BY <1>4 DEF CancelRetire, RetireAnswered, RetireThrew, RowInv, RowFormsTypeOK
    <2>3. UNCHANGED <<list, stored, listed, form, save, late>>
      BY <1>4 DEF CancelRetire, RetireAnswered, RetireThrew
    <2> QED  BY <2>1, <2>2, <2>3, RowFormsAssumption DEF RowInv, Rowed, TypedOrSeed
  <1>5. CASE ServeRetire
    <2>1. PICK r \in Ids : r = retirement.pending /\ stored[r] # Absent
      BY <1>5 DEF ServeRetire, RowInv
    <2>2. PICK answer \in {"none", "done", "refused"} :
            /\ retirement' = [retirement EXCEPT !.call = answer]
            /\ stored' = stored \/ stored' = [stored EXCEPT ![r].active = FALSE]
      BY <1>5, <2>1 DEF ServeRetire
    <2>3. [stored[r] EXCEPT !.active = FALSE] \in ListRowType
      BY <1>1, <2>1 DEF ListRowType
    <2>4. stored' \in Tables /\ \A q \in Ids : stored[q] # Absent => stored'[q] # Absent
      <3>1. stored \in Tables
        BY DEF RowInv, RowFormsTypeOK
      <3>2. [stored EXCEPT ![r] = [stored[r] EXCEPT !.active = FALSE]] \in Tables
        BY <2>3, <3>1 DEF Tables
      <3> QED  BY <2>1, <2>2, <2>3, <3>1, <3>2, RowFormsAssumption DEF Tables
    <2>5. RowFormsTypeOK' /\ retirement'.armed = retirement.armed /\ retirement'.call = answer
      BY <1>5, <2>2, <2>4 DEF ServeRetire, RowInv, RowFormsTypeOK
    <2>6. /\ form' # NoForm => Rowed(form.of)' /\ TypedOrSeed(form)'
          /\ save' # NoSave => Rowed(save.form.of)' /\ TypedOrSeed(save.form)'
          /\ late' # NoForm => Rowed(late.of)' /\ TypedOrSeed(late)'
      BY <1>5, <2>4 DEF ServeRetire, RowInv, Rowed, TypedOrSeed
    <2> QED  BY <1>5, <2>4, <2>5, <2>6 DEF ServeRetire, RowInv
  <1> QED  BY <1>2, <1>3, <1>4, <1>5

LEMMA RowFormsStep ==
  RowInv /\ RowFormsNext => RowInv'
  BY FormKeepsRows, SaveKeepsRows, ListKeepsRows, RetirementKeepsRows DEF RowFormsNext

(* A form that is saved changes what was typed into it, or was changed     *)
(* since it appeared.                                                      *)
LEMMA WrittenAsTyped ==
  ASSUME RowInv, NEW f \in FormType, TypedOrSeed(f), Write(f),
         NEW r \in Ids, stored[r] # Absent, stored'[r] # stored[r]
  PROVE  /\ r = f.of
         /\ \A e \in Entry : stored'[r][e] # stored[r][e] =>
              e \in f.typed \/ f.seed[e] # stored[r][e] \/ f.moved
  <1>1. stored \in Tables /\ f.fields \in FieldsType
    BY DEF RowInv, RowFormsTypeOK, FormType
  <1> DEFINE to(q) == [name |-> f.fields.name, details |-> f.fields.details,
                       active |-> f.of = NewRow \/ stored[q].active]
  <1>2. PICK q \in IF f.of = NewRow THEN {i \in Ids : stored[i] = Absent} ELSE {f.of} :
          stored' = [stored EXCEPT ![q] = to(q)]
    BY DEF Write
  <1>3. r = q /\ stored'[r] = to(r)
    BY <1>1, <1>2 DEF Tables
  <1>4. f.of # NewRow /\ r = f.of
    BY <1>2, <1>3
  <1>5. \A e \in Entry : stored'[r][e] = f.fields[e]
    BY <1>1, <1>3 DEF Entry, FieldsType
  <1> QED  BY <1>4, <1>5 DEF TypedOrSeed

(* Only a save that is served changes a row that is there while the save   *)
(* moves on.                                                               *)
LEMMA ServedAsTyped ==
  RowInv /\ RowFormsNext =>
    (save' # save \/ late' # late => \A r \in Ids :
       Absent \notin {stored[r], stored'[r]} /\ stored'[r] # stored[r] =>
         LET sent == IF save' # save THEN save.form ELSE late
         IN  /\ r = sent.of
             /\ \A f \in Entry : stored'[r][f] # stored[r][f] =>
                  \/ f \in sent.typed
                  \/ sent.seed[f] # stored[r][f]
                  \/ sent.moved)
  <1> SUFFICES ASSUME RowInv, RowFormsNext, save' # save \/ late' # late, NEW r \in Ids,
                      stored[r] # Absent, stored'[r] # Absent, stored'[r] # stored[r],
                      NEW sent, sent = IF save' # save THEN save.form ELSE late
               PROVE  /\ r = sent.of
                      /\ \A f \in Entry : stored'[r][f] # stored[r][f] =>
                           \/ f \in sent.typed
                           \/ sent.seed[f] # stored[r][f]
                           \/ sent.moved
    OBVIOUS
  <1>1. ServeSave \/ ServeLate
    BY DEF RowFormsNext, AddRow, EditRow, CancelForm, TypeField, SaveForm, SaveAnswered, SaveThrew,
           Refreshed, ArmRetire, CancelRetire, ConfirmRetire, ServeRetire, RetireAnswered,
           RetireThrew, SavedElsewhere
  <1>2. sent \in FormType /\ TypedOrSeed(sent) /\ Write(sent)
    <2>1. CASE ServeSave
      <3>1. sent = save.form /\ Write(save.form)
        BY <2>1 DEF ServeSave
      <3> QED  BY <2>1, <3>1 DEF ServeSave, RowInv, RowFormsTypeOK, SaveType
    <2>2. CASE ServeLate
      <3>1. sent = late /\ Write(late)
        BY <2>2 DEF ServeLate
      <3> QED  BY <2>2, <3>1 DEF ServeLate, RowInv, RowFormsTypeOK
    <2> QED  BY <1>1, <2>1, <2>2
  <1> QED  BY <1>2, WrittenAsTyped

-----------------------------------------------------------------------------
(* The counts, and the pages read off them.                                *)

(* ORDER BY ... DESC LIMIT 1 finds a row if there is one.                  *)
LEMMA SomeLatest ==
  ASSUME NEW at, NEW candidates, candidates # {}, NEW b \in Nat,
         \A c \in candidates : at[c] \in 0..b
  PROVE  LatestBy(at, candidates) # {}
  <1> DEFINE S == {n \in Nat : \E c \in candidates : n = b - at[c]}
  <1>1. S \in SUBSET Nat /\ S # {}
    <2>1. PICK c \in candidates : TRUE
      OBVIOUS
    <2>2. b - at[c] \in S
      BY <2>1
    <2> QED  BY <2>2
  <1>2. PICK m \in S : \A n \in S : m =< n
    BY <1>1, LeastOf
  <1>3. PICK c \in candidates : m = b - at[c]
    BY <1>2
  <1>4. \A d \in candidates : at[d] =< at[c]
    <2> SUFFICES ASSUME NEW d \in candidates PROVE at[d] =< at[c]
      OBVIOUS
    <2>1. b - at[d] \in S
      OBVIOUS
    <2> QED  BY <1>2, <1>3, <2>1
  <1> QED  BY <1>4 DEF LatestBy

(* The times of a closed count.                                            *)
LEMMA ClosedTimes ==
  ASSUME CountsInv
  PROVE  /\ Closed \subseteq Counts
         /\ \A c \in Closed : /\ stamped[c] \in 0..MaxTime /\ opened[c] \in 0..stamped[c]
                              /\ ClosedAt[c] = (stamped[c] + 1) \div 2
                              /\ ClosedAt[c] \in 0..(MaxTime + 1)
  <1>1. Closed \subseteq Counts
    BY DEF CountsInv, Closed
  <1>2. ASSUME NEW c \in Closed
        PROVE  /\ stamped[c] \in 0..MaxTime /\ opened[c] \in 0..stamped[c]
               /\ ClosedAt[c] = (stamped[c] + 1) \div 2
               /\ ClosedAt[c] \in 0..(MaxTime + 1)
    <2>1. stamped[c] \in 0..MaxTime /\ opened[c] \in 0..stamped[c]
      BY <1>1, OfficeAssumption DEF CountsInv, Never
    <2>2. ClosedAt[c] = (stamped[c] + 1) \div 2
      BY <1>1 DEF ClosedAt
    <2> QED  BY <2>1, <2>2, OfficeAssumption
  <1> QED  BY <1>1, <1>2

LEMMA ClosedOnes ==
  ASSUME CountsInv
  PROVE  /\ Closed = ClosedSince(Len(ended))
         /\ \A n \in Nat : n =< Len(ended) => ClosedSince(n) \subseteq Closed
         /\ Closed = {} => Len(ended) = 0
  <1>1. ended \in Seq(Counts) /\ DOMAIN ended = 1..Len(ended) /\ Len(ended) \in Nat
    BY DEF CountsInv
  <1>2. Closed = ClosedSince(Len(ended))
    BY <1>1 DEF Closed, ClosedSince
  <1>3. ASSUME NEW n \in Nat, n =< Len(ended)
        PROVE  ClosedSince(n) \subseteq Closed
    BY <1>1, <1>3 DEF Closed, ClosedSince
  <1>4. Closed = {} => Len(ended) = 0
    <2>1. Len(ended) # 0 => ended[1] \in Closed
      BY <1>1 DEF Closed
    <2> QED  BY <2>1
  <1> QED  BY <1>2, <1>3, <1>4

(* What a step of the counts leaves: the stamps of those that have closed, *)
(* and which had closed at any earlier time.                               *)
CountsMove ==
  /\ \A c \in Closed : c \in Closed' /\ stamped'[c] = stamped[c]
  /\ Len(ended) =< Len(ended')
  /\ \A n \in Nat : n =< Len(ended) => {ended'[i] : i \in 1..n} = {ended[i] : i \in 1..n}

LEMMA CountsKeptBy ==
  ASSUME CountsInv, CountsStep
  PROVE  CountsInv' /\ CountsMove
  <1>1. CASE Tick
    BY <1>1, OfficeAssumption DEF Tick, CountsInv, CountsMove, Closed
  <1>2. ASSUME NEW c \in Counts, OpenCount(c)
        PROVE  CountsInv' /\ CountsMove
    BY <1>2, OfficeAssumption DEF OpenCount, CountsInv, CountsMove, Closed, Never
  <1>3. ASSUME NEW c \in Counts, BeginClose(c)
        PROVE  CountsInv' /\ CountsMove
    BY <1>3, OfficeAssumption DEF BeginClose, CountsInv, CountsMove, Closed, Never
  <1>4. ASSUME NEW c \in Counts, CommitClose(c)
        PROVE  CountsInv' /\ CountsMove
    <2>1. /\ ended \in Seq(Counts) /\ ended' = Append(ended, c)
          /\ stamped[c] # Never /\ c \notin Closed
          /\ UNCHANGED <<time, opened, stamped>>
      BY <1>4 DEF CommitClose, CountsInv
    <2>2. ended' \in Seq(Counts) /\ Len(ended') = Len(ended) + 1
      BY <2>1
    <2>3. Closed' = Closed \cup {c}
      BY <2>1 DEF Closed
    <2>4. IsFiniteSet(Closed') /\ Cardinality(Closed') = Cardinality(Closed) + 1
      BY <2>1, <2>3, FS_AddElement DEF CountsInv
    <2>5. \A n \in Nat : n =< Len(ended) => {ended'[i] : i \in 1..n} = {ended[i] : i \in 1..n}
      BY <2>1
    <2>6. CountsInv'
      BY <2>1, <2>2, <2>3, <2>4 DEF CountsInv
    <2> QED  BY <2>1, <2>2, <2>3, <2>5, <2>6 DEF CountsMove
  <1> QED  BY <1>1, <1>2, <1>3, <1>4 DEF CountsStep

(* A read of the page finds a count, or that none has closed.              *)
LEMMA ReadIsNewest ==
  ASSUME CountsInv, page \in PageType, page.since =< Len(ended), NEW c \in LatestClosed
  PROVE  c \in Counts \cup {NULL} /\ Newest(c)
  <1>1. CASE Closed = {}
    <2>1. c = NULL
      BY <1>1 DEF LatestClosed, LatestBy, OrNone
    <2>2. page.since = 0
      BY <1>1, ClosedOnes DEF PageType
    <2> QED  BY <2>1, <2>2, OfficeAssumption DEF Newest
  <1>2. CASE Closed # {}
    <2>1. MaxTime + 1 \in Nat
      BY OfficeAssumption
    <2>2. LatestBy(ClosedAt, Closed) # {}
      BY <1>2, <2>1, ClosedTimes, SomeLatest
    <2>3. c \in LatestBy(ClosedAt, Closed)
      BY <2>2 DEF LatestClosed, OrNone
    <2>4. c \in Closed /\ \A d \in Closed : ClosedAt[d] =< ClosedAt[c]
      BY <2>3 DEF LatestBy
    <2>5. ClosedSince(page.since) \subseteq Closed
      BY ClosedOnes DEF PageType
    <2>6. c \in Counts /\ c # NULL
      BY <2>4, ClosedTimes, OfficeAssumption
    <2> QED  BY <2>4, <2>5, <2>6 DEF Newest
  <1> QED  BY <1>1, <1>2

(* Counts that close later do not undo what was found.                     *)
LEMMA NewestKept ==
  ASSUME CountsInv, CountsInv', CountsMove, page \in PageType, page.since =< Len(ended), page' = page,
         NEW x, Newest(x)
  PROVE  Newest(x)'
  <1>1. ClosedSince(page.since)' = ClosedSince(page.since)
    BY DEF CountsMove, ClosedSince, PageType
  <1>2. \A d \in Closed : ClosedAt'[d] = ClosedAt[d] /\ d \in Closed'
    BY ClosedTimes DEF CountsMove, ClosedAt
  <1>3. ClosedSince(page.since) \subseteq Closed
    BY ClosedOnes DEF PageType
  <1> QED  BY <1>1, <1>2, <1>3 DEF Newest

(* The summary looks for the last count closed before its own started.     *)
LEMMA SummaryFindsTheLast ==
  ASSUME CountsInv, NEW c \in Counts, Summarize(c)
  PROVE  SummaryInv'
  <1>1. PICK e \in EarlierCount(c) : summary' = [of |-> c, since |-> Len(ended), earlier |-> e]
    BY DEF Summarize
  <1>2. UNCHANGED counts /\ Len(ended) \in Nat /\ opened[c] \in Nat
    BY OfficeAssumption DEF Summarize, CountsInv, Never
  <1> DEFINE start == opened[c]
             candidates == {d \in Closed \ {c} : ClosedAt[d] < StartedAt[c]}
             before == {d \in Closed : stamped[d] < start - 2}
  <1>3. StartedAt[c] = start \div 2
    BY DEF StartedAt
  <1>4. before \subseteq candidates
    <2> SUFFICES ASSUME NEW d \in Closed, stamped[d] < start - 2
                 PROVE  d # c /\ ClosedAt[d] < StartedAt[c]
      OBVIOUS
    <2>1. stamped[d] \in Nat /\ opened[d] \in 0..stamped[d] /\ ClosedAt[d] = (stamped[d] + 1) \div 2
      BY ClosedTimes, OfficeAssumption
    <2>2. d # c
      BY <1>2, <2>1
    <2>3. (stamped[d] + 1) \div 2 < start \div 2
      BY <1>2, <2>1
    <2> QED  BY <1>3, <2>1, <2>2, <2>3
  <1>5. \A d \in candidates : ClosedAt[d] \in 0..(MaxTime + 1)
    BY ClosedTimes
  <1>6. candidates # {} => LatestBy(ClosedAt, candidates) # {}
    <2>1. MaxTime + 1 \in Nat
      BY OfficeAssumption
    <2> HIDE DEF candidates
    <2> QED  BY <1>5, <2>1, SomeLatest
  <1>7. e = NULL => before = {}
    <2> SUFFICES ASSUME e = NULL, candidates # {} PROVE FALSE
      BY <1>4
    <2>1. e \in LatestBy(ClosedAt, candidates)
      BY <1>1, <1>6 DEF EarlierCount, OrNone
    <2> QED  BY <2>1, ClosedTimes, OfficeAssumption DEF LatestBy
  <1>8. e \in Counts => /\ e # c /\ stamped[e] < start
                        /\ \A d \in before : stamped[d] - stamped[e] < 2
    <2> SUFFICES ASSUME e \in Counts
                 PROVE  /\ e # c /\ stamped[e] < start
                        /\ \A d \in before : stamped[d] - stamped[e] < 2
      OBVIOUS
    <2>1. e \in LatestBy(ClosedAt, candidates)
      BY <1>1, OfficeAssumption DEF EarlierCount, OrNone
    <2>2. e \in candidates /\ \A d \in candidates : ClosedAt[d] =< ClosedAt[e]
      BY <2>1 DEF LatestBy
    <2>3. stamped[e] \in Nat /\ ClosedAt[e] = (stamped[e] + 1) \div 2 /\ e # c
      BY <2>2, ClosedTimes, OfficeAssumption
    <2>4. stamped[e] < start
      BY <1>2, <1>3, <2>2, <2>3
    <2>5. ASSUME NEW d \in before
          PROVE  stamped[d] - stamped[e] < 2
      <3>1. stamped[d] \in Nat /\ ClosedAt[d] = (stamped[d] + 1) \div 2
        BY ClosedTimes, OfficeAssumption
      <3>2. (stamped[d] + 1) \div 2 =< (stamped[e] + 1) \div 2
        BY <1>4, <2>2, <2>3, <3>1
      <3> QED  BY <2>3, <3>1, <3>2
    <2> QED  BY <2>3, <2>4, <2>5
  <1>9. before = {d \in ClosedSince(Len(ended)) : stamped[d] < start - 2}
    BY ClosedOnes
  <1>10. e \in Counts \cup {NULL}
    BY <1>1, ClosedTimes DEF EarlierCount, OrNone, LatestBy
  <1>11. /\ summary'.of = c /\ summary'.since = Len(ended) /\ summary'.earlier = e
         /\ summary' \in SummaryType
    BY <1>1, <1>2, <1>10 DEF SummaryType
  <1>12. opened' = opened /\ stamped' = stamped /\ ended' = ended
    BY <1>2 DEF counts
  <1> HIDE DEF candidates, before, start
  <1>13. PreviousBeforeStart'
    BY <1>7, <1>8, <1>9, <1>11, <1>12 DEF PreviousBeforeStart, ClosedSince, before, start
  <1> QED  BY <1>2, <1>11, <1>12, <1>13 DEF SummaryInv

(* The pages while the counts go on.                                       *)
LEMMA PagesWhileCounting ==
  ASSUME CountsInv, PageInv, SummaryInv, CountsStep
  PROVE  CountsInv' /\ PageInv' /\ SummaryInv'
  <1>1. CountsInv' /\ CountsMove
    BY CountsKeptBy
  <1>2. ~Shown /\ UNCHANGED figures
    BY DEF CountsStep, Tick, OpenCount, BeginClose, CommitClose
  <1>3. PageInv'
    <2>1. CASE page = NoPage
      BY <1>2, <2>1 DEF figures, PageInv
    <2>2. CASE page # NoPage
      <3>1. page \in PageType /\ page.since =< Len(ended) /\ page' = page
        BY <1>2, <2>2 DEF figures, PageInv
      <3>2. page'.since =< Len(ended')
        BY <1>1, <3>1 DEF CountsMove, PageType, CountsInv
      <3>3. Newest(page.caption)' /\ Newest(page.figures)'
        BY <1>1, <2>2, <3>1, NewestKept DEF PageInv
      <3> QED  BY <3>1, <3>2, <3>3 DEF PageInv
    <2> QED  BY <2>1, <2>2
  <1>4. SummaryInv'
    BY <1>2 DEF Shown, figures, SummaryInv, PreviousBeforeStart
  <1> QED  BY <1>1, <1>3, <1>4

LEMMA UnchangedCounts ==
  ASSUME CountsInv, UNCHANGED counts
  PROVE  CountsInv' /\ CountsMove
  BY DEF counts, CountsInv, CountsMove, Closed

LEMMA PagesRead ==
  ASSUME CountsInv, PageInv, SummaryInv, FiguresStep
  PROVE  CountsInv' /\ PageInv' /\ SummaryInv'
  <1>1. CountsInv' /\ UNCHANGED counts
    BY UnchangedCounts DEF FiguresStep, OpenPage, ReadCaption, ReadFigures, Summarize
  <1>2. UNCHANGED summary => SummaryInv'
    BY <1>1 DEF counts, SummaryInv, PreviousBeforeStart, ClosedSince
  <1>3. CASE OpenPage
    <2>1. page' = [since |-> Len(ended), caption |-> Unread, figures |-> Unread]
      BY <1>3 DEF OpenPage
    <2>2. page' \in PageType /\ page'.since = Len(ended)
      BY <2>1 DEF PageType, CountsInv
    <2>3. ended' = ended /\ Len(ended) \in Nat
      BY <1>1 DEF counts, CountsInv
    <2>4. Newest(page.caption)' /\ Newest(page.figures)'
      BY <2>1, OfficeAssumption DEF Newest
    <2> QED  BY <1>1, <1>2, <1>3, <2>2, <2>3, <2>4 DEF OpenPage, PageInv
  <1>4. CASE ReadCaption \/ ReadFigures
    <2>1. PICK c \in LatestClosed :
            page' \in {[page EXCEPT !.caption = c], [page EXCEPT !.figures = c]}
      BY <1>4 DEF ReadCaption, ReadFigures
    <2>2. /\ page # NoPage /\ page \in PageType /\ page.since =< Len(ended)
          /\ Newest(page.caption) /\ Newest(page.figures)
      BY <1>4 DEF ReadCaption, ReadFigures, PageInv
    <2>3. c \in Counts \cup {NULL} /\ Newest(c)
      BY <2>2, ReadIsNewest
    <2>4. /\ page' \in PageType /\ page'.since = page.since
          /\ page'.caption \in {c, page.caption} /\ page'.figures \in {c, page.figures}
      BY <2>1, <2>2, <2>3 DEF PageType
    <2>5. ended' = ended /\ stamped' = stamped
      BY <1>1 DEF counts
    <2>6. \A x : Newest(x) => /\ x = NULL => page'.since = 0
                              /\ x \in Counts =>
                                   /\ x \in Closed'
                                   /\ \A d \in ClosedSince(page.since) : ClosedAt'[d] =< ClosedAt'[x]
      BY <2>4, <2>5 DEF Newest, Closed, ClosedAt
    <2>7. ClosedSince(page.since)' = ClosedSince(page.since)
      BY <2>4, <2>5 DEF ClosedSince
    <2>8. Newest(page.caption)' /\ Newest(page.figures)'
      BY <2>2, <2>3, <2>4, <2>6, <2>7 DEF Newest
    <2> QED  BY <1>1, <1>2, <1>4, <2>2, <2>4, <2>5, <2>8 DEF ReadCaption, ReadFigures, PageInv
  <1>5. ASSUME NEW c \in Counts, Summarize(c)
        PROVE  PageInv' /\ SummaryInv'
    <2>1. SummaryInv'
      BY <1>5, SummaryFindsTheLast
    <2>2. UNCHANGED page /\ ended' = ended /\ stamped' = stamped
      BY <1>1, <1>5 DEF Summarize, counts
    <2>3. PageInv'
      BY <2>2 DEF PageInv, Newest, ClosedSince, Closed, ClosedAt
    <2> QED  BY <2>1, <2>3
  <1> QED  BY <1>1, <1>3, <1>4, <1>5 DEF FiguresStep

-----------------------------------------------------------------------------
(* The catalog table.                                                      *)

LEMMA ReadTyped ==
  ASSUME TableInv, NEW s \in Searches
  PROVE  Read(s) \in SUBSET (Products \X Categories)
  BY OfficeAssumption DEF Read, TableInv

LEMMA Visible ==
  ASSUME TableInv
  PROVE  VisibleIds \subseteq Products /\ VisibleIds \subseteq DOMAIN rows
  BY DEF VisibleIds, TableInv

LEMMA TableKeptBy ==
  ASSUME TableInv, TableStep
  PROVE  TableInv'
  <1>1. ASSUME NEW s \in Searches, Load(s)
        PROVE  TableInv'
    BY <1>1, ReadTyped DEF Load, TableInv, Assigning
  <1>2. CASE Loaded
    <2> DEFINE D == {l[1] : l \in loading}
               at(p) == (CHOOSE l \in loading : l[1] = p)[2]
    <2>1. loading \in SUBSET (Products \X Categories) /\ rows' = [p \in D |-> at(p)]
      BY <1>2 DEF Loaded, TableInv
    <2>2. ASSUME NEW p \in D PROVE p \in Products /\ at(p) \in Categories
      <3>1. \E l \in loading : l[1] = p
        OBVIOUS
      <3>2. (CHOOSE l \in loading : l[1] = p) \in loading
        BY <3>1
      <3> QED  BY <2>1, <3>1, <3>2
    <2> HIDE DEF D, at
    <2>3. DOMAIN rows' = D
      BY <2>1
    <2>4. rows' \in [DOMAIN rows' -> Categories] /\ DOMAIN rows' \subseteq Products
      BY <2>1, <2>2, <2>3
    <2> QED  BY <1>2, <2>4 DEF Loaded, TableInv, Assigning
  <1>3. CASE (\E c \in Categories \cup {NULL} : SetCategory(c)) \/ SelectAllVisible \/ ClearSelection
    BY <1>3, Visible DEF SetCategory, SelectAllVisible, ClearSelection, TableInv, Assigning
  <1>4. ASSUME NEW p \in Products, ToggleProduct(p)
        PROVE  TableInv'
    BY <1>4 DEF ToggleProduct, TableInv, Assigning
  <1>5. ASSUME NEW p \in Products, SaveCell(p)
        PROVE  TableInv'
    <2>1. call' \in SaveCellType /\ call'.kind = "save"
      BY <1>5 DEF SaveCell, TableInv, SaveCellType
    <2> QED  BY <1>5, <2>1 DEF SaveCell, TableInv, Assigning
  <1>6. ASSUME NEW v \in Vendors \cup {NULL}, SubmitAssignVendor(v)
        PROVE  TableInv'
    <2>1. VisibleSelected \subseteq VisibleIds /\ VisibleSelected \subseteq Products
      BY Visible DEF VisibleSelected, TableInv
    <2>2. /\ call' \in AssignType /\ call'.ids = VisibleSelected /\ call'.shown = VisibleIds
          /\ VisibleSelected # {} /\ Cardinality(VisibleSelected) =< BulkLimit
      BY <1>6, <2>1, Visible DEF SubmitAssignVendor, AssignType
    <2> QED  BY <1>6, <2>1, <2>2 DEF SubmitAssignVendor, TableInv
  <1>7. CASE ServeAssign
    <2>1. /\ call \in AssignType /\ call.ids # {} /\ Cardinality(call.ids) =< BulkLimit
          /\ call.ids \subseteq call.shown
      BY <1>7 DEF ServeAssign, Assigning, TableInv, SaveCellType
    <2>2. /\ call' \in AssignType /\ call'.ids = call.ids /\ call'.shown = call.shown
      BY <1>7, <2>1 DEF ServeAssign, AssignType
    <2>3. products' \in [Products -> [category : Categories, vendor : Vendors \cup {NULL}]]
      BY <1>7, <2>1 DEF ServeAssign, TableInv, AssignType
    <2> QED  BY <1>7, <2>1, <2>2, <2>3 DEF ServeAssign, TableInv
  <1>8. CASE AssignAnswered
    BY <1>8, ReadTyped DEF AssignAnswered, TableInv, Assigning
  <1>9. CASE CellSaved
    <2>1. call \in SaveCellType
      BY <1>9 DEF CellSaved, TableInv, AssignType
    <2>2. rows' \in [DOMAIN rows -> Categories] /\ DOMAIN rows' = DOMAIN rows
      BY <1>9, <2>1 DEF CellSaved, TableInv, SaveCellType
    <2> QED  BY <1>9, <2>2 DEF CellSaved, TableInv, Assigning
  <1>10. ASSUME NEW p \in Products, NEW c \in Categories, Refile(p, c)
         PROVE  TableInv'
    <2>1. products' \in [Products -> [category : Categories, vendor : Vendors \cup {NULL}]]
      BY <1>10 DEF Refile, TableInv
    <2> QED  BY <1>10, <2>1 DEF Refile, TableInv, Assigning
  <1> QED  BY <1>1, <1>2, <1>3, <1>4, <1>5, <1>6, <1>7, <1>8, <1>9, <1>10 DEF TableStep

(* Vendors change where an assignment is served, and only of its products. *)
LEMMA AssignedWhereShown ==
  ASSUME TableInv, TableStep, NEW p \in Products, products'[p].vendor # products[p].vendor
  PROVE  p \in call.shown
  <1>1. CASE ServeAssign
    BY <1>1 DEF ServeAssign, TableInv, Assigning
  <1>2. ASSUME NEW q \in Products, NEW c \in Categories, Refile(q, c)
        PROVE  FALSE
    BY <1>2 DEF Refile, TableInv
  <1>3. UNCHANGED products \/ ServeAssign \/ \E q \in Products, c \in Categories : Refile(q, c)
    BY DEF TableStep, Load, Loaded, SetCategory, ToggleProduct, SaveCell, SelectAllVisible,
           ClearSelection, SubmitAssignVendor, AssignAnswered, CellSaved
  <1> QED  BY <1>1, <1>2, <1>3

-----------------------------------------------------------------------------
(* The invariant.                                                          *)

LEMMA InitIInv == Init => IInv
  <1> SUFFICES ASSUME Init PROVE IInv
    OBVIOUS
  <1>1. SheetInv
    BY DEF Init, ProductFormsInit, SheetInv, ProductFormsTypeOK, FormsAreHonest,
           ChangedSinceSubmitted, Editing, Creating
  <1>2. RowInv
    <2>1. /\ stored \in Tables /\ listed = stored /\ form = NoForm
          /\ save = NoSave /\ late = NoForm
          /\ retirement = [armed |-> Nobody, pending |-> Nobody, call |-> "none"]
      BY RowFormsAssumption DEF Init, RowFormsInit
    <2>2. list \in {"vendors", "locations"} /\ refreshing \in BOOLEAN /\ deeds \in 0..MaxDeeds
      <3>1. list \in {"vendors", "locations"} /\ refreshing \in BOOLEAN
        BY DEF Init, RowFormsInit
      <3>2. deeds \in 0..MaxDeeds
        BY RowFormsAssumption DEF Init, RowFormsInit
      <3> QED  BY <3>1, <3>2
    <2>3. RowFormsTypeOK
      BY <2>1, <2>2 DEF RowFormsTypeOK
    <2> QED  BY <2>1, <2>3, RowFormsAssumption DEF RowInv
  <1>3. Closed = {}
    BY DEF Init, Closed
  <1>4. CountsInv /\ PageInv /\ SummaryInv
    <2>1. CountsInv
      BY <1>3, FS_EmptySet, OfficeAssumption DEF Init, CountsInv, Never
    <2> QED  BY <2>1 DEF Init, PageInv, SummaryInv, PreviousBeforeStart
  <1>5. products \in Filings
    <2>1. PICK c \in Categories : TRUE
      BY OfficeAssumption
    <2>2. [p \in Products |-> [category |-> c, vendor |-> NULL]] \in Filings
      BY DEF Filings
    <2> QED  BY <2>2 DEF Init
  <1>6. TableInv
    BY <1>5 DEF Init, TableInv, Filings, Assigning
  <1> QED  BY <1>1, <1>2, <1>4, <1>6 DEF Init, IInv

(* The variables of the other desks.                                       *)
LEMMA Elsewhere ==
  ASSUME IInv
  PROVE  /\ UNCHANGED productForms => SheetInv'
         /\ UNCHANGED rowForms => RowInv'
         /\ UNCHANGED counts /\ UNCHANGED figures => CountsInv' /\ PageInv' /\ SummaryInv'
         /\ UNCHANGED table => TableInv'
  <1>1. UNCHANGED productForms => SheetInv'
    BY DEF IInv, productForms, SheetInv, ProductFormsTypeOK, FormsAreHonest, ByHand, Excluded,
           ChangedSinceSubmitted, Editing, Creating, Pending
  <1>2. UNCHANGED rowForms => RowInv'
    BY DEF IInv, rowForms, RowInv, RowFormsTypeOK, Rowed, TypedOrSeed
  <1>3. UNCHANGED counts /\ UNCHANGED figures => CountsInv' /\ PageInv' /\ SummaryInv'
    BY UnchangedCounts
       DEF IInv, counts, figures, PageInv, Newest, SummaryInv, PreviousBeforeStart, ClosedSince,
           Closed, ClosedAt
  <1>4. UNCHANGED table => TableInv'
    BY DEF IInv, table, TableInv, Assigning
  <1> QED  BY <1>1, <1>2, <1>3, <1>4

LEMMA NextIInv == IInv /\ [Next]_vars => IInv'
  <1> SUFFICES ASSUME IInv, [Next]_vars PROVE IInv'
    OBVIOUS
  <1>1. CASE CountsStep /\ UNCHANGED <<productForms, rowForms>>
    <2>1. UNCHANGED <<desk, table>>
      BY <1>1 DEF CountsStep, Tick, OpenCount, BeginClose, CommitClose
    <2> QED  BY <1>1, <2>1, PagesWhileCounting, Elsewhere DEF IInv
  <1>2. CASE FiguresStep /\ UNCHANGED <<productForms, rowForms>>
    <2>1. UNCHANGED <<desk, table>>
      BY <1>2 DEF FiguresStep, OpenPage, ReadCaption, ReadFigures, Summarize
    <2> QED  BY <1>2, <2>1, PagesRead, Elsewhere DEF IInv
  <1>3. CASE TableStep /\ UNCHANGED <<productForms, rowForms>>
    <2>1. UNCHANGED <<desk, counts, figures>>
      BY <1>3 DEF TableStep, Load, Loaded, SetCategory, ToggleProduct, SaveCell, SelectAllVisible,
                  ClearSelection, SubmitAssignVendor, ServeAssign, AssignAnswered, CellSaved,
                  Refile, OnTable
    <2> QED  BY <1>3, <2>1, TableKeptBy, Elsewhere DEF IInv
  <1>4. CASE OnProductForm
    BY <1>4, ProductFormsStep, Elsewhere DEF OnProductForm, IInv
  <1>5. CASE OnRowList
    BY <1>5, RowFormsStep, Elsewhere DEF OnRowList, IInv
  <1>6. CASE UNCHANGED vars
    BY <1>6, Elsewhere DEF vars, IInv
  <1> QED  BY <1>1, <1>2, <1>3, <1>4, <1>5, <1>6 DEF Next, OnPages

LEMMA Invariance == Spec => []IInv
  BY InitIInv, NextIInv, PTL DEF Spec

-----------------------------------------------------------------------------
(* What the office promises.                                               *)

(* Every variable has its type: forms, calls and pages hold what the code  *)
(* puts there, and a bulk assignment never names more products than the    *)
(* server accepts.                                                         *)
THEOREM OfficeTypes == Spec => []TypeOK
  <1>1. ASSUME IInv PROVE TypeOK
    <2>1. Closed \subseteq {c \in Counts : stamped[c] # Never}
      BY <1>1, ClosedTimes DEF IInv, CountsInv
    <2>2. CountsInv /\ PageInv /\ SummaryInv /\ TableInv /\ desk \in Desks
          /\ ProductFormsTypeOK /\ RowFormsTypeOK
      BY <1>1 DEF IInv, SheetInv, RowInv
    <2> QED  BY <2>1, <2>2 DEF CountsInv, PageInv, SummaryInv, TableInv, TypeOK
  <1> QED  BY <1>1, Invariance, PTL

(* No form submits a size, a type or a case size that nobody put there,    *)
(* through any sequence of changes, submissions, refusals and lost calls   *)
(* (product-edit-form.tsx, CreateNew of enroll-form.tsx).                  *)
THEOREM HonestForms == Spec => []FormsAreHonest
  <1>1. IInv => FormsAreHonest
    BY DEF IInv, SheetInv
  <1> QED  BY <1>1, Invariance, PTL

(* The figures of a page come from the newest closed count up to the whole *)
(* second, whatever closes while it loads (getOnHandSnapshot beside        *)
(* getLastClosedCount).                                                    *)
THEOREM NewestFigures == Spec => []FiguresAreNewest
  <1>1. ASSUME IInv PROVE FiguresAreNewest
    <2> SUFFICES ASSUME page # NoPage PROVE FiguresAreNewest
      BY DEF FiguresAreNewest
    <2>1. /\ CountsInv /\ page \in PageType /\ page.since =< Len(ended)
          /\ Newest(page.caption) /\ Newest(page.figures)
      BY <1>1 DEF IInv, PageInv
    <2>2. ASSUME NEW x \in Closed, NEW y \in Closed, ClosedAt[x] =< ClosedAt[y]
          PROVE  stamped[x] - stamped[y] < 2
      <3>1. /\ stamped[x] \in Nat /\ ClosedAt[x] = (stamped[x] + 1) \div 2
            /\ stamped[y] \in Nat /\ ClosedAt[y] = (stamped[y] + 1) \div 2
        BY <2>1, ClosedTimes, OfficeAssumption
      <3> QED  BY <2>2, <3>1
    <2>3. ClosedSince(page.since) \subseteq Closed
      BY <2>1, ClosedOnes DEF PageType
    <2>4. ASSUME page.caption \in Counts, page.figures \in Counts, ~(Len(ended) > page.since)
          PROVE  stamped[page.caption] - stamped[page.figures] \in -1..1
      <3>1. page.since = Len(ended)
        BY <2>1, <2>4 DEF PageType, CountsInv
      <3>2. Closed = ClosedSince(page.since)
        BY <2>1, <3>1, ClosedOnes
      <3>3. /\ page.caption \in Closed /\ page.figures \in Closed
            /\ ClosedAt[page.caption] =< ClosedAt[page.figures]
            /\ ClosedAt[page.figures] =< ClosedAt[page.caption]
        BY <2>1, <2>4, <3>2 DEF Newest
      <3>4. stamped[page.caption] \in Nat /\ stamped[page.figures] \in Nat
        BY <2>1, <3>3, ClosedTimes, OfficeAssumption
      <3> QED  BY <2>2, <3>3, <3>4
    <2>5. page.figures \in Counts =>
            /\ page.figures \in Closed
            /\ \A d \in ClosedSince(page.since) : stamped[d] - stamped[page.figures] < 2
      BY <2>1, <2>2, <2>3 DEF Newest
    <2> QED  BY <2>1, <2>4, <2>5 DEF FiguresAreNewest, Newest
  <1> QED  BY <1>1, Invariance, PTL

(* A summary compares with the last count closed before its own began, up  *)
(* to the whole second (previousCountComparison).                          *)
THEOREM PreviousComesBefore == Spec => []PreviousBeforeStart
  <1>1. IInv => PreviousBeforeStart
    BY DEF IInv, SummaryInv
  <1> QED  BY <1>1, Invariance, PTL

(* A bulk assignment reaches only what was on the screen when it was asked *)
(* for (catalog-table.tsx, assignVendorToProducts).                        *)
THEOREM BulkStaysOnScreen == Spec => BulkReachesOnlyShown
  <1>1. IInv /\ [Next]_vars =>
          [\A p \in Products : products'[p].vendor # products[p].vendor => p \in call.shown]_vars
    <2> SUFFICES ASSUME IInv, Next, NEW p \in Products, products'[p].vendor # products[p].vendor
                 PROVE  p \in call.shown
      OBVIOUS
    <2>1. TableStep
      BY DEF Next, OnPages, OnProductForm, OnRowList, table, CountsStep, Tick, OpenCount, BeginClose,
             CommitClose, FiguresStep, OpenPage, ReadCaption, ReadFigures, Summarize
    <2> QED  BY <2>1, AssignedWhereShown DEF IInv
  <1> QED  BY <1>1, Invariance, PTL DEF Spec, BulkReachesOnlyShown

(* A save of an inline form that was not moved from row to row changes     *)
(* only what was typed on it, or puts back what has changed since, also    *)
(* when it threw and is served later; a moved one may save the other row's *)
(* fields, but only to its own row (vendor-edit-form.tsx,                  *)
(* locations-table.tsx).                                                   *)
THEOREM SavesWhatWasTyped == Spec => SavesOnlyWhatWasTyped
  <1>1. IInv /\ [Next]_vars =>
          [save' # save \/ late' # late => \A r \in Ids :
             Absent \notin {stored[r], stored'[r]} /\ stored'[r] # stored[r] =>
               LET sent == IF save' # save THEN save.form ELSE late
               IN  /\ r = sent.of
                   /\ \A f \in Entry : stored'[r][f] # stored[r][f] =>
                        \/ f \in sent.typed
                        \/ sent.seed[f] # stored[r][f]
                        \/ sent.moved]_rowForms
    <2>1. [Next]_vars => RowFormsNext \/ UNCHANGED rowForms
      BY DEF Next, OnPages, OnProductForm, OnRowList, vars
    <2> QED  BY <2>1, ServedAsTyped DEF IInv
  <1> QED  BY <1>1, Invariance, PTL DEF Spec, SavesOnlyWhatWasTyped

-----------------------------------------------------------------------------
(* The figures of Reports, of any finite sheet.                            *)

IsSheet(sheet) ==
  /\ IsFiniteSet(DOMAIN sheet)
  /\ sheet \in [DOMAIN sheet -> RowType \cup {NoLine}]

(* What a line adds to the group it is in.                                 *)
LineOnes(sheet) == [s \in LinesOf(sheet) |-> 1]
LineUnits(sheet) == [s \in LinesOf(sheet) |-> UnitsOr0(sheet[s])]
LineLeftOut(sheet) == [s \in LinesOf(sheet) |-> IF Valued(sheet[s]) THEN 0 ELSE 1]
LineValue(sheet) ==
  [s \in LinesOf(sheet) |-> IF Valued(sheet[s]) THEN ExtendedCents(sheet[s]) ELSE 0]

(* The figures of a line are whole tenths of a bottle and whole cents.     *)
LEMMA RowFigures ==
  ASSUME NEW row \in RowType
  PROVE  /\ UnitTenths(row) \in Int /\ UnitsOr0(row) \in Int
         /\ Valued(row) => ExtendedCents(row) \in Int
  <1>1. /\ row.cases \in Int /\ row.eaches \in Int /\ row.fills \in Seq(Fill)
        /\ row.price.caseSize \in Nat \cup {NULL} /\ row.price.cost \in Nat \cup {NULL}
    BY DEF RowType, PriceType
  <1>2. CaseSizeOrZero(row) \in Nat
    BY <1>1 DEF CaseSizeOrZero
  <1>3. SumFunction(row.fills) \in Int
    <2>1. PICK n \in Nat : n = Len(row.fills)
      BY <1>1
    <2>2. row.fills \in [1 .. n -> Fill] /\ Fill \subseteq Int
      BY <1>1, <2>1 DEF Fill
    <2>3. row.fills \in [1 .. n -> Int]
      BY <2>2
    <2>4. IsFiniteSet(1 .. n)
      BY FS_Interval
    <2> QED  BY <2>3, <2>4, SumTyped
  <1>4. UnitTenths(row) \in Int
    <2>1. PICK u \in Int : u = row.cases * CaseSizeOrZero(row) + row.eaches
      BY <1>1, <1>2
    <2> QED  BY <1>3, <2>1 DEF UnitTenths
  <1>5. Valued(row) => ExtendedCents(row) \in Int
    <2> SUFFICES ASSUME Valued(row) PROVE ExtendedCents(row) \in Int
      OBVIOUS
    <2>1. row.price.cost \in Nat
      BY <1>1 DEF Valued
    <2>2. PICK m \in Int : m = UnitTenths(row) * row.price.cost + 500
      BY <1>4, <2>1
    <2> QED  BY <2>2 DEF ExtendedCents
  <1> QED  BY <1>4, <1>5 DEF UnitsOr0

LEMMA LinesTyped ==
  ASSUME NEW sheet, IsSheet(sheet)
  PROVE  /\ IsFiniteSet(LinesOf(sheet))
         /\ \A s \in LinesOf(sheet) : sheet[s] \in RowType
         /\ LineOnes(sheet) \in [LinesOf(sheet) -> Int]
         /\ LineUnits(sheet) \in [LinesOf(sheet) -> Int]
         /\ LineLeftOut(sheet) \in [LinesOf(sheet) -> Int]
         /\ LineValue(sheet) \in [LinesOf(sheet) -> Int]
  <1>1. IsFiniteSet(LinesOf(sheet))
    BY FS_Subset DEF IsSheet, LinesOf
  <1>2. \A s \in LinesOf(sheet) : sheet[s] \in RowType
    BY DEF IsSheet, LinesOf
  <1>3. \A s \in LinesOf(sheet) : /\ UnitsOr0(sheet[s]) \in Int
                                  /\ Valued(sheet[s]) => ExtendedCents(sheet[s]) \in Int
    BY <1>2, RowFigures
  <1> QED  BY <1>1, <1>2, <1>3 DEF LineOnes, LineUnits, LineLeftOut, LineValue

(* A group added up line by line has the sum of each figure.               *)
GroupOf(sheet, T) ==
  FoldSet(LAMBDA s, group : AddTo(group, sheet[s]), EmptyGroup, T)

LEMMA GroupIs ==
  ASSUME NEW sheet, IsSheet(sheet), NEW T \in SUBSET LinesOf(sheet)
  PROVE  GroupOf(sheet, T) = [lineCount |-> SumOver(LineOnes(sheet), T),
                              units |-> SumOver(LineUnits(sheet), T),
                              excludedLineCount |-> SumOver(LineLeftOut(sheet), T),
                              value |-> SumOver(LineValue(sheet), T)]
  <1> DEFINE n == [s \in T |-> LineOnes(sheet)[s]]
             u == [s \in T |-> LineUnits(sheet)[s]]
             l == [s \in T |-> LineLeftOut(sheet)[s]]
             v == [s \in T |-> LineValue(sheet)[s]]
             rec(g) == [s \in SUBSET T |-> IF s = {} THEN EmptyGroup
                                           ELSE AddTo(g[s \ {CHOOSE x \in s : TRUE}],
                                                      sheet[CHOOSE x \in s : TRUE])]
             iter == CHOOSE g : g = rec(g)
  <1>1. IsFiniteSet(T)
    BY LinesTyped, FS_Subset
  <1>2. n \in [T -> Int] /\ u \in [T -> Int] /\ l \in [T -> Int] /\ v \in [T -> Int]
    BY LinesTyped
  <1>3. \A s \in T : /\ n[s] = 1 /\ u[s] = UnitsOr0(sheet[s])
                     /\ l[s] = (IF Valued(sheet[s]) THEN 0 ELSE 1)
                     /\ v[s] = (IF Valued(sheet[s]) THEN ExtendedCents(sheet[s]) ELSE 0)
    BY DEF LineOnes, LineUnits, LineLeftOut, LineValue
  <1>4. /\ SumOver(LineOnes(sheet), T) = SumFunction(n)
        /\ SumOver(LineUnits(sheet), T) = SumFunction(u)
        /\ SumOver(LineLeftOut(sheet), T) = SumFunction(l)
        /\ SumOver(LineValue(sheet), T) = SumFunction(v)
    BY DEF SumOver
  <1>5. GroupOf(sheet, T) = iter[T]
    BY DEF GroupOf, FoldSet, MapThenFoldSet
  <1> HIDE DEF n, u, l, v
  <1>6. PICK gn \in [SUBSET T -> Int] : Sums(gn, n, T) /\ SumFunction(n) = gn[T]
    BY <1>1, <1>2, SumFunctionIs
  <1>7. PICK gu \in [SUBSET T -> Int] : Sums(gu, u, T) /\ SumFunction(u) = gu[T]
    BY <1>1, <1>2, SumFunctionIs
  <1>8. PICK gl \in [SUBSET T -> Int] : Sums(gl, l, T) /\ SumFunction(l) = gl[T]
    BY <1>1, <1>2, SumFunctionIs
  <1>9. PICK gv \in [SUBSET T -> Int] : Sums(gv, v, T) /\ SumFunction(v) = gv[T]
    BY <1>1, <1>2, SumFunctionIs
  <1> DEFINE h == [s \in SUBSET T |-> [lineCount |-> gn[s], units |-> gu[s],
                                       excludedLineCount |-> gl[s], value |-> gv[s]]]
  <1>10. ASSUME NEW s \in SUBSET T
         PROVE  h[s] = IF s = {} THEN EmptyGroup
                       ELSE AddTo(h[s \ {First(s)}], sheet[First(s)])
    <2>1. CASE s = {}
      <3>1. gn[s] = 0 /\ gu[s] = 0 /\ gl[s] = 0 /\ gv[s] = 0
        BY <1>6, <1>7, <1>8, <1>9, <2>1 DEF Sums
      <3> QED  BY <2>1, <3>1 DEF EmptyGroup
    <2>2. CASE s # {}
      <3>1. PICK x \in s : x = First(s)
        BY <2>2 DEF First
      <3>2. PICK r \in SUBSET T : r = s \ {x}
        OBVIOUS
      <3>3. /\ gn[s] = n[x] + gn[r] /\ gu[s] = u[x] + gu[r]
            /\ gl[s] = l[x] + gl[r] /\ gv[s] = v[x] + gv[r]
        BY <1>6, <1>7, <1>8, <1>9, <2>2, <3>1, <3>2 DEF Sums
      <3>4. /\ gn[r] \in Int /\ gu[r] \in Int /\ gl[r] \in Int /\ gv[r] \in Int
            /\ n[x] \in Int /\ u[x] \in Int /\ l[x] \in Int /\ v[x] \in Int
        BY <1>2
      <3>5. /\ gn[s] = gn[r] + 1 /\ gu[s] = gu[r] + UnitsOr0(sheet[x])
            /\ gl[s] = gl[r] + (IF Valued(sheet[x]) THEN 0 ELSE 1)
            /\ gv[s] = gv[r] + (IF Valued(sheet[x]) THEN ExtendedCents(sheet[x]) ELSE 0)
        BY <1>3, <3>3, <3>4
      <3>6. h[r] = [lineCount |-> gn[r], units |-> gu[r],
                    excludedLineCount |-> gl[r], value |-> gv[r]]
        OBVIOUS
      <3>7. h[s] = AddTo(h[r], sheet[x])
        BY <3>5, <3>6 DEF AddTo
      <3> QED  BY <2>2, <3>1, <3>2, <3>7
    <2> QED  BY <2>1, <2>2
  <1>11. h = rec(h)
    BY <1>10 DEF First
  <1>12. iter = rec(iter)
    <2> HIDE DEF rec
    <2> QED  BY <1>11
  <1>13. \A s \in SUBSET T :
           iter[s] = IF s = {} THEN EmptyGroup
                     ELSE AddTo(iter[s \ {First(s)}], sheet[First(s)])
    <2> HIDE DEF iter
    <2> QED  BY <1>12 DEF First
  <1> HIDE DEF iter, h
  <1> DEFINE B == {s \in SUBSET T : iter[s] # h[s]}
  <1>14. B = {}
    <2> SUFFICES ASSUME B # {} PROVE FALSE
      OBVIOUS
    <2>1. PICK m \in B : \A b \in SUBSET m : b # m => b \notin B
      <3>1. \A b \in B : IsFiniteSet(b)
        BY <1>1, FS_Subset
      <3> QED  BY <3>1, MinimalSet
    <2>2. m # {}
      BY <1>10, <1>13
    <2>3. First(m) \in m
      BY <2>2 DEF First
    <2>4. iter[m \ {First(m)}] = h[m \ {First(m)}]
      BY <2>1, <2>3
    <2> QED  BY <1>10, <1>13, <2>2, <2>4
  <1>15. iter[T] = h[T]
    BY <1>14
  <1> QED  BY <1>4, <1>5, <1>6, <1>7, <1>8, <1>9, <1>15 DEF h

-----------------------------------------------------------------------------
(* The totals are the sums over all lines.                                 *)
LEMMA TotalsAre ==
  ASSUME NEW sheet, IsSheet(sheet)
  PROVE  LET t == SummarizeValuation(sheet)
         IN  /\ t.totalUnits = SumFunction(LineUnits(sheet))
             /\ t.totalValue = SumFunction(LineValue(sheet))
             /\ t.excludedLineCount = SumFunction(LineLeftOut(sheet))
             /\ t.pricedLineCount + t.excludedLineCount = SumFunction(LineOnes(sheet))
  <1>1. PICK L : L = LinesOf(sheet)
    OBVIOUS
  <1>2. L = {s \in DOMAIN sheet : sheet[s] # NoLine}
    BY <1>1 DEF LinesOf
  <1> DEFINE valued == {s \in L : Valued(sheet[s])}
             sized == {s \in L : UnitsKnown(sheet[s])}
             value == [s \in valued |-> ExtendedCents(sheet[s])]
             units == [s \in sized |-> UnitTenths(sheet[s])]
  <1>3. /\ SummarizeValuation(sheet).totalValue = SumFunction(value)
        /\ SummarizeValuation(sheet).totalUnits = SumFunction(units)
        /\ SummarizeValuation(sheet).pricedLineCount = Cardinality(valued)
        /\ SummarizeValuation(sheet).excludedLineCount = Cardinality(L \ valued)
    BY <1>2 DEF SummarizeValuation
  <1>4. IsFiniteSet(L)
    BY <1>1, LinesTyped
  <1>5. SumFunction(units) = SumFunction(LineUnits(sheet))
    <2>1. ZerosLeftOut(LineUnits(sheet), units, L, sized)
      BY <1>1, LinesTyped DEF ZerosLeftOut, LineUnits, UnitsOr0
    <2> HIDE DEF units, sized
    <2> QED  BY <1>4, <2>1, SumWithoutZeros
  <1>6. SumFunction(value) = SumFunction(LineValue(sheet))
    <2>1. ZerosLeftOut(LineValue(sheet), value, L, valued)
      BY <1>1, LinesTyped DEF ZerosLeftOut, LineValue
    <2> HIDE DEF value, valued
    <2> QED  BY <1>4, <2>1, SumWithoutZeros
  <1>7. SumFunction(LineLeftOut(sheet)) = Cardinality(L \ valued)
    <2>1. LineLeftOut(sheet) \in [L -> Int] /\ L \ valued \in SUBSET L
      BY <1>1, LinesTyped
    <2>2. \A s \in L : LineLeftOut(sheet)[s] = IF s \in L \ valued THEN 1 ELSE 0
      BY <1>1 DEF LineLeftOut
    <2> HIDE DEF valued
    <2> QED  BY <1>4, <2>1, <2>2, SumOfOnes
  <1>8. SumFunction(LineOnes(sheet)) = Cardinality(L)
    <2>1. LineOnes(sheet) \in [L -> Int] /\ L \in SUBSET L
      BY <1>1, LinesTyped
    <2>2. \A s \in L : LineOnes(sheet)[s] = IF s \in L THEN 1 ELSE 0
      BY <1>1 DEF LineOnes
    <2> QED  BY <1>4, <2>1, <2>2, SumOfOnes
  <1>9. Cardinality(L) = Cardinality(valued) + Cardinality(L \ valued)
    <2>1. IsFiniteSet(valued) /\ L \cap valued = valued
      BY <1>4, FS_Subset
    <2> HIDE DEF valued
    <2>2. Cardinality(L \ valued) = Cardinality(L) - Cardinality(valued)
      BY <1>4, <2>1, FS_Difference
    <2>3. Cardinality(L) \in Nat /\ Cardinality(valued) \in Nat
      BY <1>4, <2>1, FS_CardinalityType
    <2> QED  BY <2>2, <2>3
  <1> HIDE DEF valued, sized, value, units
  <1> QED  BY <1>3, <1>5, <1>6, <1>7, <1>8, <1>9

(* The groups a key makes of the lines add up to the totals.               *)
LEMMA AnyGroupsAddUp ==
  ASSUME NEW sheet, IsSheet(sheet), NEW key
  PROVE  AddsUpTo(Groups("owner", sheet, key), SummarizeValuation(sheet))
  <1>1. PICK L : L = LinesOf(sheet)
    OBVIOUS
  <1>2. PICK groups : groups = Groups("owner", sheet, key)
    OBVIOUS
  <1>3. groups = [g \in {key[s] : s \in L} |-> GroupOf(sheet, InGroup(key, L, g))]
    BY <1>1, <1>2 DEF Groups, GroupOf, InGroup, Shaped, CanSeeCost
  <1>4. ASSUME NEW g \in DOMAIN groups
        PROVE  /\ groups[g].units = SumOver(LineUnits(sheet), InGroup(key, L, g))
               /\ groups[g].value = SumOver(LineValue(sheet), InGroup(key, L, g))
               /\ groups[g].excludedLineCount = SumOver(LineLeftOut(sheet), InGroup(key, L, g))
               /\ groups[g].lineCount = SumOver(LineOnes(sheet), InGroup(key, L, g))
    <2>1. PICK T : T = InGroup(key, L, g)
      OBVIOUS
    <2>2. T \in SUBSET LinesOf(sheet)
      BY <1>1, <2>1 DEF InGroup
    <2>3. groups[g] = GroupOf(sheet, T)
      BY <1>3, <2>1
    <2> QED  BY <2>1, <2>2, <2>3, GroupIs
  <1>5. DOMAIN groups = {key[s] : s \in L}
    BY <1>3
  <1>6. /\ [g \in DOMAIN groups |-> groups[g].units] = GroupSums(LineUnits(sheet), key, L)
        /\ [g \in DOMAIN groups |-> groups[g].value] = GroupSums(LineValue(sheet), key, L)
        /\ [g \in DOMAIN groups |-> groups[g].excludedLineCount] =
             GroupSums(LineLeftOut(sheet), key, L)
        /\ [g \in DOMAIN groups |-> groups[g].lineCount] = GroupSums(LineOnes(sheet), key, L)
    BY <1>4, <1>5 DEF GroupSums
  <1>7. /\ SumFunction(GroupSums(LineUnits(sheet), key, L)) = SumFunction(LineUnits(sheet))
        /\ SumFunction(GroupSums(LineValue(sheet), key, L)) = SumFunction(LineValue(sheet))
        /\ SumFunction(GroupSums(LineLeftOut(sheet), key, L)) = SumFunction(LineLeftOut(sheet))
        /\ SumFunction(GroupSums(LineOnes(sheet), key, L)) = SumFunction(LineOnes(sheet))
    <2>1. /\ IsFiniteSet(L) /\ LineUnits(sheet) \in [L -> Int] /\ LineValue(sheet) \in [L -> Int]
          /\ LineLeftOut(sheet) \in [L -> Int] /\ LineOnes(sheet) \in [L -> Int]
      BY <1>1, LinesTyped
    <2> QED  BY <2>1, SumOfGroups
  <1> QED  BY <1>2, <1>6, <1>7, TotalsAre DEF AddsUpTo

(* A summary, by category and by place, adds up to the totals of its       *)
(* count: no line is missed or in two groups, whatever its category.       *)
THEOREM SummaryAddsUp ==
  ASSUME NEW sheet, IsSheet(sheet), NEW category
  PROVE  GroupsAddUp(sheet, category)
  <1>1. PICK k : k = [s \in DOMAIN sheet |-> category[s[1]]]
    OBVIOUS
  <1>2. PICK l : l = [s \in DOMAIN sheet |-> s[2]]
    OBVIOUS
  <1>3. AddsUpTo(Groups("owner", sheet, k), SummarizeValuation(sheet))
    BY AnyGroupsAddUp
  <1>4. AddsUpTo(Groups("owner", sheet, l), SummarizeValuation(sheet))
    BY AnyGroupsAddUp
  <1> QED  BY <1>1, <1>2, <1>3, <1>4 DEF GroupsAddUp, CountSummary, Shaped, CanSeeCost

-----------------------------------------------------------------------------
(* Lines by their product.                                                 *)
ProductOf(sheet) == [s \in LinesOf(sheet) |-> s[1]]

LinesOfProduct(sheet, p) == InGroup(ProductOf(sheet), LinesOf(sheet), p)

LEMMA OnHandIs ==
  ASSUME NEW sheet, IsSheet(sheet)
  PROVE  /\ OnHand(sheet) = GroupSums(LineUnits(sheet), ProductOf(sheet), LinesOf(sheet))
         /\ \A p \in CountedProducts(sheet) :
              OnHandOf(sheet, p) = SumOver(LineUnits(sheet), LinesOfProduct(sheet, p))
  <1>1. PICK L : L = LinesOf(sheet)
    OBVIOUS
  <1>2. CountedProducts(sheet) = {ProductOf(sheet)[s] : s \in L}
    BY <1>1 DEF CountedProducts, ProductOf
  <1>3. ASSUME NEW p
        PROVE  SumFunction([s \in {l \in L : l[1] = p} |-> UnitsOr0(sheet[s])])
                 = SumOver(LineUnits(sheet), InGroup(ProductOf(sheet), L, p))
    <2>1. {l \in L : l[1] = p} = InGroup(ProductOf(sheet), L, p)
      BY <1>1 DEF InGroup, ProductOf
    <2>2. \A s \in {l \in L : l[1] = p} : LineUnits(sheet)[s] = UnitsOr0(sheet[s])
      BY <1>1 DEF LineUnits
    <2>3. [s \in {l \in L : l[1] = p} |-> UnitsOr0(sheet[s])]
            = [s \in InGroup(ProductOf(sheet), L, p) |-> LineUnits(sheet)[s]]
      BY <2>1, <2>2
    <2> QED  BY <2>3 DEF SumOver
  <1>4. OnHand(sheet) = GroupSums(LineUnits(sheet), ProductOf(sheet), L)
    BY <1>1, <1>2, <1>3 DEF OnHand, GroupSums
  <1>5. ASSUME NEW p \in CountedProducts(sheet)
        PROVE  OnHandOf(sheet, p) = SumOver(LineUnits(sheet), LinesOfProduct(sheet, p))
    BY <1>1, <1>2, <1>4 DEF OnHandOf, GroupSums, LinesOfProduct
  <1> QED  BY <1>1, <1>4, <1>5

LEMMA ProductLinesTyped ==
  ASSUME NEW sheet, IsSheet(sheet), NEW p
  PROVE  /\ IsFiniteSet(LinesOfProduct(sheet, p))
         /\ LinesOfProduct(sheet, p) \in SUBSET LinesOf(sheet)
         /\ \A s \in LinesOf(sheet) : s \in LinesOfProduct(sheet, p) <=> s[1] = p
  BY LinesTyped, FS_Subset DEF LinesOfProduct, InGroup, ProductOf

(* What is on hand of the products adds up to the units of the count.      *)
THEOREM OnHandAddsUp ==
  ASSUME NEW sheet, IsSheet(sheet)
  PROVE  OnHandIsTheCount(sheet)
  <1>1. IsFiniteSet(LinesOf(sheet)) /\ LineUnits(sheet) \in [LinesOf(sheet) -> Int]
    BY LinesTyped
  <1>2. SumFunction(GroupSums(LineUnits(sheet), ProductOf(sheet), LinesOf(sheet)))
          = SumFunction(LineUnits(sheet))
    BY <1>1, SumOfGroups
  <1> QED  BY <1>2, OnHandIs, TotalsAre DEF OnHandIsTheCount

(* Figures on hand are whole tenths of a bottle.                           *)
LEMMA OnHandTyped ==
  ASSUME NEW sheet, IsSheet(sheet), NEW p
  PROVE  OnHandOf(sheet, p) \in Int
  <1>1. CASE p \notin CountedProducts(sheet)
    BY <1>1 DEF OnHandOf
  <1>2. CASE p \in CountedProducts(sheet)
    <2>1. PICK T : T = LinesOfProduct(sheet, p)
      OBVIOUS
    <2>2. PICK e : e = [s \in T |-> LineUnits(sheet)[s]]
      OBVIOUS
    <2>3. IsFiniteSet(T) /\ T \in SUBSET LinesOf(sheet)
      BY <2>1, ProductLinesTyped
    <2>4. e \in [T -> Int]
      BY <2>2, <2>3, LinesTyped
    <2>5. SumFunction(e) \in Int
      BY <2>3, <2>4, SumTyped
    <2> QED  BY <1>2, <2>1, <2>2, <2>5, OnHandIs DEF SumOver
  <1> QED  BY <1>1, <1>2

(* The reorder list names the products at or below their threshold and no  *)
(* others; what it suggests brings each to its par, never past it, and     *)
(* nothing of what is above it.                                            *)
THEOREM ReorderingReachesPar ==
  ASSUME NEW sheet, IsSheet(sheet), sheet # NULL, NEW pars,
         \A p \in DOMAIN pars : pars[p].level \in Nat
  PROVE  ReorderReachesPar(sheet, pars)
  <1>1. \A p : OnHandOf(sheet, p) \in Int
    BY OnHandTyped
  <1>2. ReorderItems(sheet, pars) =
          {[product |-> p, onHand |-> OnHandOf(sheet, p),
            order |-> Suggested(OnHandOf(sheet, p), pars[p])] :
             p \in {q \in DOMAIN pars : Short(OnHandOf(sheet, q), pars[q])}}
    BY DEF ReorderItems
  <1>3. ASSUME NEW i \in ReorderItems(sheet, pars)
        PROVE  /\ i.order >= 0 /\ i.onHand + i.order >= pars[i.product].level
               /\ i.order = 0 \/ i.onHand + i.order = pars[i.product].level
    <2>1. PICK p \in DOMAIN pars : i = [product |-> p, onHand |-> OnHandOf(sheet, p),
                                        order |-> Suggested(OnHandOf(sheet, p), pars[p])]
      BY <1>2
    <2>2. i.product = p /\ i.onHand = OnHandOf(sheet, p) /\ i.order = Suggested(i.onHand, pars[p])
      BY <2>1
    <2> QED  BY <1>1, <2>2 DEF Suggested
  <1>4. ASSUME NEW p \in DOMAIN pars
        PROVE  (\E i \in ReorderItems(sheet, pars) : i.product = p)
                 <=> Short(OnHandOf(sheet, p), pars[p])
    <2>1. ASSUME Short(OnHandOf(sheet, p), pars[p])
          PROVE  \E i \in ReorderItems(sheet, pars) : i.product = p
      <3>1. PICK i : i = [product |-> p, onHand |-> OnHandOf(sheet, p),
                          order |-> Suggested(OnHandOf(sheet, p), pars[p])]
        OBVIOUS
      <3>2. i \in ReorderItems(sheet, pars)
        BY <1>2, <2>1, <3>1
      <3>3. i.product = p
        BY <3>1
      <3> QED  BY <3>2, <3>3
    <2>2. ASSUME NEW i \in ReorderItems(sheet, pars), i.product = p
          PROVE  Short(OnHandOf(sheet, p), pars[p])
      <3>1. PICK q \in DOMAIN pars :
              /\ Short(OnHandOf(sheet, q), pars[q])
              /\ i = [product |-> q, onHand |-> OnHandOf(sheet, q),
                      order |-> Suggested(OnHandOf(sheet, q), pars[q])]
        BY <1>2
      <3>2. i.product = q
        BY <3>1
      <3> QED  BY <2>2, <3>1, <3>2
    <2> QED  BY <2>1, <2>2
  <1> QED  BY <1>3, <1>4 DEF ReorderReachesPar

(* The dashboard counts as unpriced the active products that say, on their *)
(* rows, that they need a cost, however many there are.                    *)
THEOREM UnpricedAreMarked ==
  ASSUME NEW catalog
  PROVE  UnpricedAsMarked(catalog)
  <1>1. \A p \in DOMAIN catalog :
          catalog[p].cost = NULL <=> "needs_cost" \in IncompleteReasons(catalog[p], TRUE)
    BY DEF IncompleteReasons
  <1>2. {p \in DOMAIN catalog : catalog[p].active /\ catalog[p].cost = NULL} =
          {p \in DOMAIN catalog :
             /\ catalog[p].active
             /\ "needs_cost" \in IncompleteReasons(catalog[p], TRUE)}
    BY <1>1
  <1> QED  BY <1>2 DEF UnpricedAsMarked, CatalogHealth, CanSeeCost

-----------------------------------------------------------------------------
(* The same lines with the case size known.                                *)

LEMMA RowSized ==
  ASSUME NULL \notin Nat, NEW row \in RowType, ~UnitsKnown(row), NEW size \in Nat \ {0},
         NEW sized, sized = [row EXCEPT !.price.caseSize = size]
  PROVE  /\ sized \in RowType
         /\ UnitsOr0(sized) > UnitsOr0(row)
         /\ UnitsOr0(row) = 0
  <1>1. /\ row.cases \in Nat /\ row.eaches \in Nat /\ row.fills \in Seq(Fill)
        /\ row.price \in PriceType
    BY DEF RowType
  <1>2. /\ sized.cases = row.cases /\ sized.eaches = row.eaches /\ sized.fills = row.fills
        /\ sized.price = [row.price EXCEPT !.caseSize = size]
    BY DEF RowType
  <1>3. sized.price \in PriceType /\ sized.price.caseSize = size
    BY <1>1, <1>2 DEF PriceType
  <1>4. sized \in RowType
    BY <1>3 DEF RowType
  <1>5. row.cases > 0 /\ UnitsOr0(row) = 0
    BY <1>1 DEF UnitsKnown, UnitsOr0
  <1>6. SumFunction(row.fills) \in Nat
    <2>1. PICK n \in Nat : n = Len(row.fills)
      BY <1>1
    <2>2. row.fills \in [1 .. n -> Fill] /\ Fill \subseteq Nat
      BY <1>1, <2>1 DEF Fill
    <2>3. row.fills \in [1 .. n -> Nat]
      BY <2>2
    <2>4. IsFiniteSet(1 .. n)
      BY FS_Interval
    <2> QED  BY <2>3, <2>4, SumOfNats
  <1>7. UnitsKnown(sized) /\ CaseSizeOrZero(sized) = size
    BY <1>3 DEF UnitsKnown, CaseSizeOrZero
  <1>8. UnitsOr0(sized) = 10 * (row.cases * size + row.eaches) + SumFunction(row.fills)
    BY <1>2, <1>7 DEF UnitsOr0, UnitTenths
  <1>9. PICK u \in Nat : u = row.cases * size /\ u > 0
    BY <1>1, <1>5
  <1>10. UnitsOr0(sized) > 0
    BY <1>1, <1>6, <1>8, <1>9
  <1> QED  BY <1>4, <1>5, <1>10

LEMMA SizedIsSheet ==
  ASSUME NULL \notin Nat, NoLine \notin RowType, NEW sheet, IsSheet(sheet),
         NEW size \in Nat \ {0}, NEW sized, sized = Sized(sheet, size)
  PROVE  /\ IsSheet(sized) /\ LinesOf(sized) = LinesOf(sheet)
         /\ \A s \in LinesOf(sheet) :
              IF UnitsKnown(sheet[s]) THEN LineUnits(sized)[s] = LineUnits(sheet)[s]
                                      ELSE LineUnits(sized)[s] > LineUnits(sheet)[s]
  <1>1. DOMAIN sized = DOMAIN sheet /\ IsFiniteSet(DOMAIN sheet)
    BY DEF Sized, IsSheet
  <1>2. ASSUME NEW s \in DOMAIN sheet
        PROVE  /\ sized[s] \in RowType \cup {NoLine}
               /\ sized[s] = NoLine <=> sheet[s] = NoLine
               /\ sheet[s] # NoLine =>
                    IF UnitsKnown(sheet[s]) THEN sized[s] = sheet[s]
                                            ELSE UnitsOr0(sized[s]) > UnitsOr0(sheet[s])
    <2>1. sheet[s] \in RowType \cup {NoLine}
      BY DEF IsSheet
    <2>2. CASE sheet[s] = NoLine \/ UnitsKnown(sheet[s])
      BY <2>1, <2>2 DEF Sized
    <2>3. CASE sheet[s] # NoLine /\ ~UnitsKnown(sheet[s])
      <3>1. PICK row \in RowType : row = sheet[s]
        BY <2>1, <2>3
      <3>2. sized[s] = [row EXCEPT !.price.caseSize = size]
        BY <2>3, <3>1 DEF Sized
      <3>3. sized[s] \in RowType /\ UnitsOr0(sized[s]) > UnitsOr0(row)
        BY <2>3, <3>1, <3>2, RowSized
      <3> QED  BY <2>3, <3>1, <3>3
    <2> QED  BY <2>2, <2>3
  <1>3. IsSheet(sized)
    <2>1. sized = [s \in DOMAIN sheet |-> sized[s]]
      BY DEF Sized
    <2>2. sized \in [DOMAIN sheet -> RowType \cup {NoLine}]
      BY <1>2, <2>1
    <2> QED  BY <1>1, <2>2 DEF IsSheet
  <1>4. LinesOf(sized) = LinesOf(sheet)
    BY <1>1, <1>2 DEF LinesOf
  <1>5. ASSUME NEW s \in LinesOf(sheet)
        PROVE  IF UnitsKnown(sheet[s]) THEN LineUnits(sized)[s] = LineUnits(sheet)[s]
                                       ELSE LineUnits(sized)[s] > LineUnits(sheet)[s]
    <2>1. s \in DOMAIN sheet /\ sheet[s] # NoLine
      BY DEF LinesOf
    <2>2. LineUnits(sized)[s] = UnitsOr0(sized[s]) /\ LineUnits(sheet)[s] = UnitsOr0(sheet[s])
      BY <1>4 DEF LineUnits
    <2> QED  BY <1>2, <2>1, <2>2
  <1> QED  BY <1>3, <1>4, <1>5

(* A product marked as incomplete has more on hand than its figure says,   *)
(* and one that is not has exactly that: known case sizes would only add   *)
(* to the first and change nothing of the second.                          *)
THEOREM IncompleteHasMore ==
  ASSUME NULL \notin Nat, NoLine \notin RowType, NEW sheet, IsSheet(sheet),
         NEW size \in Nat \ {0}
  PROVE  IncompleteIsAFloor(sheet, size)
  <1>1. PICK sized : sized = Sized(sheet, size)
    OBVIOUS
  <1>2. /\ IsSheet(sized) /\ LinesOf(sized) = LinesOf(sheet)
        /\ \A s \in LinesOf(sheet) :
             IF UnitsKnown(sheet[s]) THEN LineUnits(sized)[s] = LineUnits(sheet)[s]
                                     ELSE LineUnits(sized)[s] > LineUnits(sheet)[s]
    BY <1>1, SizedIsSheet
  <1>3. LineUnits(sheet) \in [LinesOf(sheet) -> Int] /\ LineUnits(sized) \in [LinesOf(sheet) -> Int]
    BY <1>2, LinesTyped
  <1> SUFFICES ASSUME NEW p \in CountedProducts(sheet)
               PROVE  IF p \in Indeterminate(sheet)
                      THEN OnHandOf(sheet, p) < OnHandOf(sized, p)
                      ELSE OnHandOf(sheet, p) = OnHandOf(sized, p)
    BY <1>1 DEF IncompleteIsAFloor
  <1>4. PICK T : T = LinesOfProduct(sheet, p)
    OBVIOUS
  <1>5. /\ IsFiniteSet(T) /\ T \in SUBSET LinesOf(sheet)
        /\ \A s \in LinesOf(sheet) : s \in T <=> s[1] = p
    BY <1>4, ProductLinesTyped
  <1>6. LinesOfProduct(sized, p) = T
    BY <1>2, <1>4 DEF LinesOfProduct, ProductOf
  <1>7. p \in CountedProducts(sized)
    BY <1>2 DEF CountedProducts
  <1>8. PICK f : f = [s \in T |-> LineUnits(sheet)[s]]
    OBVIOUS
  <1>9. PICK e : e = [s \in T |-> LineUnits(sized)[s]]
    OBVIOUS
  <1>10. OnHandOf(sheet, p) = SumFunction(f)
    BY <1>4, <1>8, OnHandIs DEF SumOver
  <1>11. OnHandOf(sized, p) = SumFunction(e)
    BY <1>2, <1>6, <1>7, <1>9, OnHandIs DEF SumOver
  <1>12. f \in [T -> Int] /\ e \in [T -> Int]
    BY <1>3, <1>5, <1>8, <1>9
  <1>13. \A s \in T : IF UnitsKnown(sheet[s]) THEN e[s] = f[s] ELSE e[s] > f[s]
    BY <1>2, <1>5, <1>8, <1>9
  <1>14. CASE p \in Indeterminate(sheet)
    <2>1. PICK s \in LinesOf(sheet) : ~UnitsKnown(sheet[s]) /\ s[1] = p
      BY <1>14 DEF Indeterminate
    <2>2. s \in T /\ f[s] < e[s]
      BY <1>5, <1>12, <1>13, <2>1
    <2>3. \A x \in T : f[x] =< e[x]
      BY <1>12, <1>13
    <2>4. Grown(f, e, T)
      BY <1>12, <2>3 DEF Grown
    <2>5. SumFunction(f) < SumFunction(e)
      BY <1>5, <2>2, <2>4, SumGrows
    <2> QED  BY <1>10, <1>11, <1>14, <2>5
  <1>15. CASE p \notin Indeterminate(sheet)
    <2>1. \A s \in T : UnitsKnown(sheet[s])
      BY <1>5, <1>15 DEF Indeterminate
    <2>2. f = e
      BY <1>12, <1>13, <2>1
    <2> QED  BY <1>10, <1>11, <1>15, <2>2
  <1> QED  BY <1>14, <1>15

=============================================================================
