------------------------------ MODULE RowForms ------------------------------
(***************************************************************************)
(* The office's lists of vendors and of locations, each with one inline    *)
(* form that creates and edits (components/office/vendors-list.tsx,        *)
(* vendor-edit-form.tsx, locations-table.tsx).  A row has a name and its   *)
(* other fields, here one; a location can be retired too.                  *)
(*                                                                         *)
(* The list is a property of the page and is read anew only by a refresh.  *)
(* The form takes its fields from a row when it appears; it has no key, so *)
(* that choosing another row's Edit while it is open changes the row it is *)
(* for, and its heading, and not its fields.                               *)
(***************************************************************************)
EXTENDS Naturals

CONSTANTS
  Ids, Names, Details,
  StartRows,                   \* bound: the rows at first, not none
  MaxDeeds,                    \* bound: what is done at this desk and others
  Absent, NewRow, NoForm, NoSave, Nobody

Empty == "empty"
Entry == {"name", "details"}
Typed == [name |-> Names \cup {Empty}, details |-> Details \cup {Empty}]

ListRowType == [name : Names, details : Details \cup {Empty}, active : BOOLEAN]
Tables == [Ids -> ListRowType \cup {Absent}]
FieldsType == [name : Typed.name, details : Typed.details]
FormType == [of : Ids \cup {NewRow}, fields : FieldsType, seed : FieldsType,
             typed : SUBSET Entry, moved : BOOLEAN, pending : BOOLEAN]
SaveType == [form : FormType, mine : BOOLEAN, state : {"sent", "done", "refused"}]

ASSUME RowFormsAssumption ==
  /\ MaxDeeds \in Nat
  /\ StartRows \in Tables
  /\ {NewRow, Nobody} \cap Ids = {}
  /\ Absent \notin ListRowType /\ NoForm \notin FormType

VARIABLES
  list,          \* which of the two lists the page is
  stored,        \* the rows in the database
  listed,        \* the rows on the page
  refreshing,
  form,          \* the form, if it is shown, with ghosts: seed, typed, moved
  save,          \* its call under way (bound: one)
  late,          \* what a call that threw may yet save (bound: one)
  retirement,    \* the row armed, the row pending, and the call under way
  deeds

rowForms == <<list, stored, listed, refreshing, form, save, late, retirement, deeds>>

EntryOfRow(row) == [name |-> row.name, details |-> row.details]

RowFormsTypeOK ==
  /\ list \in {"vendors", "locations"}
  /\ stored \in Tables /\ listed \in Tables /\ refreshing \in BOOLEAN
  /\ form = NoForm \/ form \in FormType
  /\ save = NoSave \/ save \in SaveType
  /\ late = NoForm \/ late \in FormType
  /\ retirement \in [armed : Ids \cup {Nobody}, pending : Ids \cup {Nobody},
                     call : {"none", "sent", "alone", "done", "refused"}]
  /\ deeds \in 0..MaxDeeds

(* With no row at all the vendors' form is another one, and is lost when   *)
(* the first row appears.                                                  *)
RowFormsInit ==
  /\ list \in {"vendors", "locations"}
  /\ stored = StartRows
  /\ listed = stored
  /\ refreshing = FALSE
  /\ form = NoForm
  /\ save = NoSave
  /\ late = NoForm
  /\ retirement = [armed |-> Nobody, pending |-> Nobody, call |-> "none"]
  /\ deeds = 0

Deed == deeds < MaxDeeds /\ deeds' = deeds + 1

----------------------------------------------------------------------------
(* What the page has of the row a form is for.                             *)
OnPage(of) ==
  IF of = NewRow THEN [name |-> Empty, details |-> Empty] ELSE EntryOfRow(listed[of])

(* Mistake: the form shows the name only.                                  *)
PrefillName(of) == [OnPage(of) EXCEPT !.details = Empty]

Prefill(of) == OnPage(of)

FormFor(of) == [of |-> of, fields |-> Prefill(of), seed |-> OnPage(of), typed |-> {},
                moved |-> FALSE, pending |-> FALSE]

AddRow ==
  /\ form = NoForm /\ Deed
  /\ form' = FormFor(NewRow)
  /\ UNCHANGED <<list, stored, listed, refreshing, save, late, retirement>>

EditRow(r) ==
  /\ listed[r] # Absent /\ Deed
  /\ form' = IF form = NoForm THEN FormFor(r)
             ELSE [form EXCEPT !.of = r, !.moved = @ \/ form.of # r]
  /\ UNCHANGED <<list, stored, listed, refreshing, save, late, retirement>>

(* A call under way goes on without its form.                              *)
CancelForm ==
  /\ form # NoForm
  /\ form' = NoForm
  /\ save' = IF save = NoSave THEN NoSave ELSE [save EXCEPT !.mine = FALSE]
  /\ UNCHANGED <<list, stored, listed, refreshing, late, retirement, deeds>>

TypeField(f, v) ==
  /\ form # NoForm /\ Deed
  /\ form' = [form EXCEPT !.fields[f] = v, !.typed = @ \cup {f}]
  /\ UNCHANGED <<list, stored, listed, refreshing, save, late, retirement>>

(* Every field is submitted, for the row the form is for by now.           *)
SaveForm ==
  /\ form # NoForm /\ ~form.pending /\ save = NoSave /\ Deed
  /\ form' = [form EXCEPT !.pending = TRUE]
  /\ save' = [form |-> form, mine |-> TRUE, state |-> "sent"]
  /\ UNCHANGED <<list, stored, listed, refreshing, late, retirement>>

(* The names of locations are unique, retired ones included.               *)
NameTaken(of, name) ==
  list = "locations" /\ \E r \in Ids \ {of} : stored[r] # Absent /\ stored[r].name = name

(* createVendor, createLocation, updateVendor, updateLocation.             *)
Write(f) ==
  /\ f.fields.name # Empty /\ ~NameTaken(f.of, f.fields.name)
  /\ \E r \in IF f.of = NewRow THEN {i \in Ids : stored[i] = Absent} ELSE {f.of} :
       stored' = [stored EXCEPT ![r] =
         [name |-> f.fields.name, details |-> f.fields.details,
          active |-> f.of = NewRow \/ stored[r].active]]

ServeSave ==
  /\ save # NoSave /\ save.state = "sent"
  /\ \/ Write(save.form) /\ save' = [save EXCEPT !.state = "done"]
     \/ save' = [save EXCEPT !.state = "refused"] /\ UNCHANGED stored
  /\ UNCHANGED <<list, listed, refreshing, form, late, retirement, deeds>>

(* A call that threw is done all the same, or never, or is refused.        *)
ServeLate ==
  /\ late # NoForm
  /\ Write(late) \/ UNCHANGED stored
  /\ late' = NoForm
  /\ UNCHANGED <<list, listed, refreshing, form, save, retirement, deeds>>

(* Success closes whatever form is open and reads the list anew.           *)
SaveAnswered ==
  /\ save # NoSave /\ save.state # "sent"
  /\ IF save.state = "done"
     THEN form' = NoForm /\ refreshing' = TRUE
     ELSE /\ form' = IF save.mine THEN [form EXCEPT !.pending = FALSE] ELSE form
          /\ UNCHANGED refreshing
  /\ save' = NoSave
  /\ UNCHANGED <<list, stored, listed, late, retirement, deeds>>

(* The call or its answer is lost: the form stays pending.                 *)
SaveThrew ==
  /\ save # NoSave
  /\ save' = NoSave
  /\ late' = IF save.state = "sent" /\ late = NoForm THEN save.form ELSE late
  /\ UNCHANGED <<list, stored, listed, refreshing, form, retirement, deeds>>

Refreshed ==
  /\ refreshing
  /\ listed' = stored /\ refreshing' = FALSE
  /\ UNCHANGED <<list, stored, form, save, late, retirement, deeds>>

----------------------------------------------------------------------------
(* Retiring a location takes two taps on its row.                          *)

ArmRetire(r) ==
  /\ list = "locations" /\ listed[r] # Absent /\ listed[r].active
  /\ retirement.armed # r /\ Deed
  /\ retirement' = [retirement EXCEPT !.armed = r]
  /\ UNCHANGED <<list, stored, listed, refreshing, form, save, late>>

Confirmable(r) == r # Nobody /\ retirement.armed = r /\ retirement.pending # r /\ listed[r].active

CancelRetire ==
  /\ Confirmable(retirement.armed)
  /\ retirement' = [retirement EXCEPT !.armed = Nobody]
  /\ UNCHANGED <<list, stored, listed, refreshing, form, save, late, deeds>>

(* Bound: one call at a time.                                              *)
ConfirmRetire(r) ==
  /\ Confirmable(r) /\ retirement.call = "none"
  /\ retirement' = [retirement EXCEPT !.pending = r, !.call = "sent"]
  /\ UNCHANGED <<list, stored, listed, refreshing, form, save, late, deeds>>

(* deactivateLocation: never the last active one; one that a count uses is *)
(* refused too.                                                            *)
ServeRetire ==
  /\ retirement.call \in {"sent", "alone"}
  /\ LET r == retirement.pending
         After(answer) == IF retirement.call = "alone" THEN "none" ELSE answer
     IN  \/ /\ \E q \in Ids \ {r} : stored[q] # Absent /\ stored[q].active
            /\ stored' = [stored EXCEPT ![r].active = FALSE]
            /\ retirement' = [retirement EXCEPT !.call = After("done")]
         \/ retirement' = [retirement EXCEPT !.call = After("refused")] /\ UNCHANGED stored
  /\ UNCHANGED <<list, listed, refreshing, form, save, late, deeds>>

(* Whichever row is armed by now is disarmed.                              *)
RetireAnswered ==
  /\ retirement.call \in {"done", "refused"}
  /\ refreshing' = (refreshing \/ retirement.call = "done")
  /\ retirement' = [armed |-> Nobody, pending |-> Nobody, call |-> "none"]
  /\ UNCHANGED <<list, stored, listed, form, save, late, deeds>>

(* Nothing is caught: the row's buttons stay disabled, whether the row is  *)
(* retired all the same or not.                                            *)
RetireThrew ==
  /\ retirement.call \notin {"none", "alone"}
  /\ retirement' = [retirement EXCEPT !.call = IF @ = "sent" THEN "alone" ELSE "none"]
  /\ UNCHANGED <<list, stored, listed, refreshing, form, save, late, deeds>>

(* Another desk saves a row.                                               *)
SavedElsewhere(r, row) ==
  /\ stored[r] # Absent /\ ~NameTaken(r, row.name) /\ row.active = stored[r].active /\ Deed
  /\ stored' = [stored EXCEPT ![r] = row]
  /\ UNCHANGED <<list, listed, refreshing, form, save, late, retirement>>

----------------------------------------------------------------------------
RowFormsNext ==
  \/ AddRow \/ CancelForm \/ SaveForm \/ ServeSave \/ ServeLate \/ SaveAnswered \/ SaveThrew \/ Refreshed
  \/ \E r \in Ids : EditRow(r) \/ ArmRetire(r) \/ ConfirmRetire(r)
  \/ \E f \in Entry : \E v \in Typed[f] : TypeField(f, v)
  \/ CancelRetire \/ ServeRetire \/ RetireAnswered \/ RetireThrew
  \/ \E r \in Ids, row \in ListRowType : SavedElsewhere(r, row)

----------------------------------------------------------------------------
(* A save from this page, one that threw and is served later included,     *)
(* reaches the row its form was for when it was sent, and changes a field  *)
(* of it only if that field was typed, or the row was changed since the    *)
(* form appeared (the older value is put back).  The one exception is a    *)
(* form moved to the row from another: it still holds the other row's      *)
(* fields, and saves them.                                                 *)
SavesOnlyWhatWasTyped ==
  [][save' # save \/ late' # late => \A r \in Ids :
       Absent \notin {stored[r], stored'[r]} /\ stored'[r] # stored[r] =>
         LET sent == IF save' # save THEN save.form ELSE late
         IN  /\ r = sent.of
             /\ \A f \in Entry : stored'[r][f] # stored[r][f] =>
                  \/ f \in sent.typed
                  \/ sent.seed[f] # stored[r][f]
                  \/ sent.moved]_rowForms

=============================================================================
