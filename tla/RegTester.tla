------------------------------ MODULE RegTester ------------------------------
(***************************************************************************)
(* js/field_testers.js: the form on a register's page, with one input for  *)
(* the whole register, one for each field, and a select for a field that   *)
(* has an enumeration.  What the reader enters is kept for each register   *)
(* under its address.                                                      *)
(*                                                                         *)
(* A text is the number it stands for, in whatever base, or Garbage, for   *)
(* which BigInt throws; the empty text is 0.  A handler that throws leaves *)
(* behind what it has done so far.  The handlers work on the fields of     *)
(* node id, the current one, which need not be the node of the page.       *)
(***************************************************************************)
EXTENDS Ral

CONSTANTS Garbage, NoValue      \* a text that is no number; nothing kept for a register

REG == "reg"             \* the register's input, among the names of the fields
NoForm == [reg |-> 0, field |-> <<>>, enum |-> <<>>, bad |-> {}, selects |-> {},
           clean |-> TRUE]

FieldSet == [id \in Nodes |-> ToSet(Tree[id].fields)]
FieldNames == [id \in Nodes |-> {f.name : f \in FieldSet[id]}]
lookup_field_idx(id, name) == CHOOSE f \in FieldSet[id] : f.name = name
Encoded == [id \in Nodes |-> {f.name : f \in {g \in FieldSet[id] : g.encode}}]

MaxValue(f) == 2^(f.msb - f.lsb + 1)

FieldRecords ==
  [name : STRING \ {REG}, lsb : Nat, msb : Nat, reset : Nat, disp : {"H", "D", "E"},
   encode : BOOLEAN]

\* The fields of a register have different names and no bits in common, and registers that
\* share the name of a field have the same fields, as in the data files.
ASSUME FieldsAssumption ==
  /\ Garbage \notin Int
  /\ \A n \in Nodes :
       /\ FieldSet[n] \subseteq FieldRecords
       /\ \A f \in FieldSet[n] : f.lsb <= f.msb /\ f.reset < MaxValue(f)
       /\ \A f, g \in FieldSet[n] :
            f # g => f.name # g.name /\ (f.msb < g.lsb \/ g.msb < f.lsb)
  /\ \A m, n \in Nodes :
       FieldNames[m] \cap FieldNames[n] # {} =>
         {[f EXCEPT !.reset = 0, !.disp = "H"] : f \in FieldSet[m]}
           = {[f EXCEPT !.reset = 0, !.disp = "H"] : f \in FieldSet[n]}

\* The page's elements are those that the handlers look for; otherwise they throw.
Fits(form, id) == is_register(id) /\ FieldNames[id] = DOMAIN form.field

\* Mutant: the bits above the field are not masked out.
SliceWide(value, f) == value \div 2^f.lsb

Slice(value, f) == (value \div 2^f.lsb) % MaxValue(f)

Encodable(form) == \A name \in DOMAIN form.field : form.field[name] # Garbage

update_reg_value_tester(form, id) ==
  IF ~Encodable(form) THEN form
  ELSE [form EXCEPT
          !.reg = MapThenSumSet(LAMBDA f : (form.field[f.name] % MaxValue(f)) * 2^f.lsb,
                                FieldSet[id]),
          !.bad = @ \ {REG}]

\* The inputs of these fields, and their selects, show the register's bits.
ShowBits(form, id, names) ==
  LET bits(name) == Slice(form.reg, lookup_field_idx(id, name))
  IN  IF form.reg = Garbage THEN form
      ELSE [form EXCEPT
              !.field = [n \in DOMAIN @ |-> IF n \in names THEN bits(n) ELSE @[n]],
              !.enum  = [n \in DOMAIN @ |-> IF n \in names \cap Encoded[id] THEN bits(n) ELSE @[n]],
              !.bad   = @ \ names]

update_field_value_tester(form, id, name) == ShowBits(form, id, {name})
update_field_value_testers(form, id) == ShowBits(form, id, FieldNames[id])

\* The marks of inputs with invalid texts stay.
reset_field_inputs(form, id) ==
  update_reg_value_tester(
    [form EXCEPT !.field = [name \in FieldNames[id] |-> lookup_field_idx(id, name).reset],
                 !.enum = [name \in Encoded[id] |-> lookup_field_idx(id, name).reset],
                 !.clean = TRUE], id)

Selects(id, disp) == {name \in Encoded[id] : disp[id][name] = "E"}

\* On the page of another register only the register's input is found.
init_reg_value(form, id, saved, disp) ==
  LET filled == [form EXCEPT !.reg = saved, !.bad = @ \ {REG}, !.clean = Fits(form, id)]
  IN  IF Fits(form, id)
      THEN [(IF saved = NoValue THEN reset_field_inputs(form, id)
             ELSE update_field_value_testers(filled, id)) EXCEPT !.selects = Selects(id, disp)]
      ELSE IF saved = NoValue \/ form = NoForm THEN form ELSE filled

\* The form as the page of register id brings it.
BlankForm(id) ==
  [reg |-> 0, field |-> [name \in FieldNames[id] |-> 0],
   enum |-> [name \in Encoded[id] |-> 0], bad |-> {}, selects |-> {}, clean |-> TRUE]

-----------------------------------------------------------------------------
(* Events.  Each yields the form and whether save_reg_state is reached.    *)

Outcome(form, saved) == [form |-> form, saved |-> saved]

onDecodedFieldInput(form, id, name, text) ==
  LET typed   == [form EXCEPT !.field[name] = text]
      f       == lookup_field_idx(id, name)
      valid   == text # Garbage /\ text \in 0..MaxValue(f)-1
      checked == [typed EXCEPT !.bad = @ \ {name},
                               !.enum = IF f.encode THEN [@ EXCEPT ![name] = text] ELSE @]
  IN  IF ~Fits(form, id) THEN Outcome([typed EXCEPT !.clean = FALSE], FALSE)
      ELSE IF ~valid
           THEN Outcome([typed EXCEPT !.bad = @ \cup {name}, !.clean = FALSE], FALSE)
      ELSE Outcome(update_reg_value_tester(checked, id), Encodable(checked))

onDecodedFieldEnumChange(form, id, name, value) ==
  LET picked == [form EXCEPT !.enum[name] = value]
      copied == [picked EXCEPT !.field[name] = value]
  IN  IF ~Fits(form, id) THEN Outcome([picked EXCEPT !.clean = FALSE], FALSE)
      ELSE Outcome(update_reg_value_tester(copied, id), Encodable(copied))

\* There is no upper limit: what exceeds the register is saved with it.
onEncodedRegInput(form, id, text) ==
  LET typed == [form EXCEPT !.reg = text]
  IN  IF text = Garbage \/ text < 0
      THEN Outcome([typed EXCEPT !.bad = @ \cup {REG}], FALSE)
      ELSE IF ~Fits(form, id)
           THEN Outcome([typed EXCEPT !.bad = @ \ {REG}, !.clean = FALSE], FALSE)
      ELSE Outcome(update_field_value_testers(
                     [typed EXCEPT !.bad = @ \ {REG}, !.clean = TRUE], id), TRUE)

onResetRegValue(form, id) ==
  IF Fits(form, id) THEN Outcome(reset_field_inputs(form, id), TRUE) ELSE Outcome(form, FALSE)

NextRadix(f, d) ==
  CASE d = "H" -> "D"
    [] d = "D" /\ f.encode -> "E"
    [] OTHER -> "H"

\* The radix is kept for the current node, whatever the page is.
SwitchRadix(disp, id, name) ==
  [disp EXCEPT ![id][name] = NextRadix(lookup_field_idx(id, name), @)]

onRadixSwitch(form, id, name, disp) ==
  LET shown == [form EXCEPT !.selects = (@ \ {name}) \cup (Selects(id, disp) \cap {name})]
  IN  Outcome(update_field_value_tester(shown, id, name), FALSE)

-----------------------------------------------------------------------------
(* Properties.                                                             *)

\* Unless an invalid text was typed since the form was last filled in, the fields and
\* selects show the register's bits, also when the register holds more than fits.
FieldsShowRegister(form, id) ==
  form.clean /\ REG \notin form.bad =>
    \A f \in FieldSet[id] :
      /\ form.field[f.name] = Slice(form.reg, f)
      /\ f.encode => form.enum[f.name] = form.field[f.name]
=============================================================================
