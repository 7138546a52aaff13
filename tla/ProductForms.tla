----------------------------- MODULE ProductForms -----------------------------
(***************************************************************************)
(* The forms a product is entered on: the edit form of the office          *)
(* (components/office/product-edit-form.tsx) and, on the phone, the form   *)
(* for a new product (CreateNew in components/count/enroll-form.tsx),      *)
(* blank or as another size of a product.                                  *)
(*                                                                         *)
(* A size is the divisor of every later figure of a product, and a wrong   *)
(* one looks like any other: a form must never submit a size, a type or a  *)
(* case size that nobody put there.  The fields typed freely, which no     *)
(* other field moves, are left out.                                        *)
(***************************************************************************)
EXTENDS BottleSizes, Naturals

CONSTANTS
  Articles,         \* products a form may be opened on
  TypedSizes, CaseSizes,
  MaxStrokes,       \* bound: fields changed on one form
  NoSheet, NoSent

Blank == 0         \* an empty box, or no size picked yet
NoType == "none"

Fields == {"category", "unitType", "type", "size", "caseSize"}
Types == AllCategories \cup {NoType, "house"}
Sizes == TypedSizes \cup {Blank} \cup
         UNION {BottleSizesFor(c, u) : c \in AllCategories, u \in UnitTypes}

EntryType ==
  [category : AllCategories, unitType : UnitTypes, type : Types, size : Sizes,
   caseSize : CaseSizes \cup {Blank}]
SheetType ==
  [kind : {"edit", "new", "from"}, seed : EntryType, entry : EntryType,
   other : BOOLEAN, set : SUBSET Fields, strokes : 0..MaxStrokes]
SubmissionType ==
  [op : {"save", "deactivate"}, entry : EntryType, set : SUBSET Fields, lost : BOOLEAN]

ASSUME ProductFormsAssumption ==
  /\ MaxStrokes \in Nat
  /\ Articles \subseteq EntryType
  /\ NoSheet \notin SheetType /\ NoSent \notin SubmissionType

VARIABLES
  productForm,   \* the form on screen
  submission     \* its call under way

productForms == <<productForm, submission>>

(* A category's own types are one value, its name; a product may keep a    *)
(* type that is on no list.                                                *)
SubcategoryOptions(category, current) == {NoType, category, current}

ProductFormsTypeOK ==
  /\ productForm = NoSheet \/ productForm \in SheetType
  /\ submission = NoSent \/ submission \in SubmissionType

ProductFormsInit == productForm = NoSheet /\ submission = NoSent

----------------------------------------------------------------------------
(* Opening and leaving.  Every form starts from its seed; `set` is a ghost:*)
(* what was put in by hand since.                                          *)

OpenSheet(kind, seed, other) ==
  /\ productForm = NoSheet
  /\ productForm' = [kind |-> kind, seed |-> seed, entry |-> seed, other |-> other,
               set |-> {}, strokes |-> 0]
  /\ UNCHANGED submission

(* A size that is on no list opens in the box behind "Other".              *)
OpenEdit(p) ==
  OpenSheet("edit", p, ~IsPresetSizeMl(p.size, p.category, p.unitType))

OpenNew ==
  OpenSheet("new", [category |-> "Spirits", unitType |-> "bottle", type |-> NoType,
                    size |-> DefaultSizeMlFor("Spirits", "bottle"), caseSize |-> Blank],
            FALSE)

(* "It's a different size": no size is chosen, and p's cannot be.          *)
OpenDifferent(p) ==
  /\ productForm = NoSheet
  /\ productForm' = [kind |-> "from", seed |-> p,
               entry |-> [p EXCEPT !.size = Blank, !.type = NoType, !.caseSize = Blank],
               other |-> FALSE, set |-> {}, strokes |-> 0]
  /\ UNCHANGED submission

Leave ==
  /\ productForm # NoSheet
  /\ productForm' = NoSheet /\ submission' = NoSent

Editing == productForm # NoSheet /\ productForm.kind = "edit"
Creating == productForm # NoSheet /\ productForm.kind \in {"new", "from"}
Pending == submission # NoSent

(* One change of a field by hand, with what it moves along.                *)
Stroke(entry, other, set) ==
  /\ productForm.strokes < MaxStrokes
  /\ productForm' = [productForm EXCEPT !.entry = entry, !.other = other, !.set = set, !.strokes = @ + 1]
  /\ UNCHANGED submission

----------------------------------------------------------------------------
(* The edit form.                                                          *)

(* Mistake: a size the new list does not have is replaced by its default.  *)
ChangeCategoryRedefaulting(c) ==
  /\ Editing /\ c # productForm.entry.category
  /\ LET e == productForm.entry
         fits == IsPresetSizeMl(e.size, c, e.unitType)
     IN  Stroke([e EXCEPT !.category = c, !.type = NoType,
                          !.size = IF productForm.other \/ fits THEN @
                                   ELSE DefaultSizeMlFor(c, e.unitType)],
                productForm.other, productForm.set \cup {"category"})

(* The type goes with the category; the size stays, shown as "Other" when  *)
(* the new list does not have it.                                          *)
ChangeCategory(c) ==
  /\ Editing /\ c # productForm.entry.category
  /\ Stroke([productForm.entry EXCEPT !.category = c, !.type = NoType],
            productForm.other \/ ~IsPresetSizeMl(productForm.entry.size, c, productForm.entry.unitType),
            productForm.set \cup {"category"})

PickType(t) ==
  /\ Editing /\ t \in SubcategoryOptions(productForm.entry.category, productForm.seed.type)
  /\ Stroke([productForm.entry EXCEPT !.type = t], productForm.other, productForm.set \cup {"type"})

PickListed(ml) ==
  /\ Editing /\ IsPresetSizeMl(ml, productForm.entry.category, productForm.entry.unitType)
  /\ Stroke([productForm.entry EXCEPT !.size = ml], FALSE, productForm.set \cup {"size"})

PickOther ==
  /\ Editing /\ ~productForm.other
  /\ Stroke(productForm.entry, TRUE, productForm.set)

TypeSize(ml) ==
  /\ Editing /\ productForm.other
  /\ Stroke([productForm.entry EXCEPT !.size = ml], TRUE, productForm.set \cup {"size"})

(* The box is there for bottled beer only; its content is submitted always.*)
TypeCaseSize(n) ==
  /\ Editing /\ IsCountedByCase(productForm.entry.category, productForm.entry.unitType)
  /\ Stroke([productForm.entry EXCEPT !.caseSize = n], productForm.other, productForm.set \cup {"caseSize"})

SubmitSheet(op) ==
  /\ ~Pending
  /\ submission' = [op |-> op, entry |-> productForm.entry, set |-> productForm.set, lost |-> FALSE]
  /\ productForm' = [productForm EXCEPT !.set = {}]

SaveSheet == Editing /\ SubmitSheet("save")
Deactivate == Editing /\ SubmitSheet("deactivate")

(* The row is as submitted, and the form stays; it is left once the        *)
(* product is inactive.  A size of zero is refused.                        *)
SheetSaved ==
  /\ Editing /\ Pending /\ ~submission.lost
  /\ \/ /\ submission.op = "save" /\ submission.entry.size # Blank
        /\ productForm' = [productForm EXCEPT !.seed = submission.entry]
     \/ submission.op = "deactivate" /\ productForm' = NoSheet
  /\ submission' = NoSent

(* A refusal leaves every field as it is.                                  *)
SheetRefused ==
  /\ Editing /\ Pending /\ ~submission.lost
  /\ productForm' = [productForm EXCEPT !.set = @ \cup submission.set]
  /\ submission' = NoSent

(* Nothing catches a call that throws: the form is pending until it is     *)
(* left.                                                                   *)
SheetThrew ==
  /\ Editing /\ Pending /\ ~submission.lost
  /\ submission' = [submission EXCEPT !.lost = TRUE]
  /\ UNCHANGED productForm

----------------------------------------------------------------------------
(* The form for a new product.                                             *)

(* The size named by the product this is another size of; with another     *)
(* unit there is none.                                                     *)
Excluded(s) == IF s.kind = "from" /\ s.seed.unitType = s.entry.unitType
               THEN {s.seed.size} ELSE {}

(* A size the new list does not have gives way: to the list's default, or  *)
(* to no size where none was preselected.                                  *)
Retarget(field, c, u) ==
  /\ Creating /\ <<c, u>> # <<productForm.entry.category, productForm.entry.unitType>>
  /\ LET stays == productForm.entry.size = Blank \/ IsPresetSizeMl(productForm.entry.size, c, u)
         size == IF stays THEN productForm.entry.size
                 ELSE IF productForm.kind = "from" THEN Blank ELSE DefaultSizeMlFor(c, u)
         set == IF stays THEN productForm.set ELSE productForm.set \ {"size"}
     IN  Stroke([productForm.entry EXCEPT !.category = c, !.unitType = u, !.size = size],
                FALSE, set \cup {field})

RetargetCategory(c) == Creating /\ Retarget("category", c, productForm.entry.unitType)
RetargetUnit(u) == Creating /\ Retarget("unitType", productForm.entry.category, u)

PickSize(ml) ==
  /\ Creating /\ ml \notin Excluded(productForm)
  /\ IsPresetSizeMl(ml, productForm.entry.category, productForm.entry.unitType)
  /\ Stroke([productForm.entry EXCEPT !.size = ml], FALSE, productForm.set \cup {"size"})

SubmitNew == Creating /\ productForm.entry.size # Blank /\ SubmitSheet("save")

(* onCreated counts the product, and the form is gone.                     *)
NewSaved ==
  /\ Creating /\ Pending
  /\ productForm' = NoSheet /\ submission' = NoSent

(* A refusal or a throw is told, and the form can be submitted again.      *)
NewFailed ==
  /\ Creating /\ Pending
  /\ productForm' = [productForm EXCEPT !.set = @ \cup submission.set]
  /\ submission' = NoSent

----------------------------------------------------------------------------
ProductFormsNext ==
  \/ \E p \in Articles : OpenEdit(p) \/ OpenDifferent(p)
  \/ OpenNew \/ Leave
  \/ \E c \in AllCategories : ChangeCategory(c) \/ RetargetCategory(c)
  \/ \E t \in Types : PickType(t)
  \/ \E ml \in Sizes : PickListed(ml) \/ PickSize(ml)
  \/ PickOther
  \/ \E ml \in TypedSizes \cup {Blank} : TypeSize(ml)
  \/ \E n \in CaseSizes \cup {Blank} : TypeCaseSize(n)
  \/ SaveSheet \/ Deactivate \/ SheetSaved \/ SheetRefused \/ SheetThrew
  \/ \E u \in UnitTypes : RetargetUnit(u)
  \/ SubmitNew \/ NewSaved \/ NewFailed

----------------------------------------------------------------------------
(* By hand since the row, or the product it came from, was last read.      *)
ByHand == productForm.set \cup (IF Pending THEN submission.set ELSE {})

(* What a form would submit is what it shows, and somebody put it there.   *)
(* The edit form's select has the size, or the box beside it shows it; no  *)
(* field but the type, which goes with the category, differs from the row  *)
(* unless it was changed by hand.  A new product's size is on the list, and*)
(* the default unless picked; another size of a product has none until one *)
(* is picked, and that one is not the product's own unless the unit was    *)
(* changed on the way.                                                     *)
FormsAreHonest ==
  /\ Editing =>
       /\ ~productForm.other => IsPresetSizeMl(productForm.entry.size, productForm.entry.category,
                                         productForm.entry.unitType)
       /\ \A f \in Fields : productForm.entry[f] # productForm.seed[f] =>
            f \in ByHand \/ (f = "type" /\ "category" \in ByHand)
  /\ Creating =>
       LET e == productForm.entry
       IN  /\ e.size # Blank => IsPresetSizeMl(e.size, e.category, e.unitType)
           /\ productForm.kind = "new" /\ "size" \notin ByHand =>
                e.size = DefaultSizeMlFor(e.category, e.unitType)
           /\ productForm.kind = "from" /\ e.size # Blank =>
                /\ "size" \in ByHand
                /\ e.size \in Excluded(productForm) => "unitType" \in ByHand

=============================================================================
