------------------------------ MODULE Catalogue ------------------------------
(***************************************************************************)
(* The handlers of item categories, units of measure and items             *)
(* (app/features/item_categories.py, uom.py, items.py), in the form of     *)
(* module Directory.  The identity of a unit of measure is its code.       *)
(***************************************************************************)
EXTENDS MasterRows

-----------------------------------------------------------------------------
(* Item categories *)

validate_category_data(x, row) ==
  NameFree("category", x, row.name) /\ row.status \in {"A", "I"}

create_category(c, x, row) ==
  /\ Fresh("category", x)
  /\ validate_category_data(x, row)
  /\ Begin(c, "insert", "category", x, row)

edit_category(c, x, row) ==
  /\ CurrentForm(c, "category", x)
  /\ validate_category_data(x, row)
  /\ Begin(c, "update", "category", x, row)

delete_category(c, x) ==
  /\ Exists("category", x)
  /\ Referring("item", "category", x) = {}
  /\ Begin(c, "delete", "category", x, db["category"][x])

-----------------------------------------------------------------------------
(* Units of measure *)

\* x is the code of the form; was is the row being edited, if any.
validate_uom_data(x, was, row) ==
  (x # was => ~ Exists("uom", x)) /\ row.status \in {"A", "I"}

create_uom(c, x, row) ==
  /\ validate_uom_data(x, NULL, row)
  /\ Begin(c, "insert", "uom", x, row)

edit_uom(c, x, row) ==
  /\ CurrentForm(c, "uom", x)
  /\ validate_uom_data(x, x, row)
  /\ Begin(c, "update", "uom", x, row)

\* The form carries another code, y: the UPDATE changes the primary key.
edit_uom_code(c, x, y, row) ==
  /\ x # y
  /\ CurrentForm(c, "uom", x)
  /\ validate_uom_data(y, x, row)
  /\ BeginKey(c, "rekey", "uom", x, y, row)

\* The foreign keys refuse a new code while the old one is referred to.
CodeFree(x, y) == Fresh("uom", y) /\ ~ Referenced("uom", x)

ChangeCode(c) ==
  LET k == task[c]
  IN  /\ k.op = "rekey"
      /\ Unchanged(c)
      /\ CodeFree(k.x, k.y)
      /\ db' = [db EXCEPT !["uom"][k.x].version = 0,
                          !["uom"][k.x].status = "deleted",
                          !["uom"][k.y] = [k.row EXCEPT !.version = k.was.version + 1]]
      /\ Finish(c)

\* The queries of check_uom_references that see rows of this model.
check_uom_references(x) ==
  Referring("item", "uom", x) # {} \/ Referring("inventory", "uom", x) # {}

delete_uom(c, x) ==
  /\ Exists("uom", x)
  /\ ~ check_uom_references(x)
  /\ Begin(c, "delete", "uom", x, db["uom"][x])

-----------------------------------------------------------------------------
(* Items *)

\* item_code, item_name and sku_code are each unique; one name stands for
\* the three.
check_uniqueness(x, row) == NameFree("item", x, row.name)

\* No inventory row of the item has usable or reserved stock; status "A" is
\* a row that has some.
check_item_can_be_inactivated(x) ==
  \A v \in Referring("inventory", "item", x) : db["inventory"][v].status # "A"

\* "Category is required", "Default Unit of Measure is required"
Required(row) == \A k \in DOMAIN row.ref : row.ref[k] # NULL

create_item(c, x, row) ==
  /\ Fresh("item", x)
  /\ Required(row)
  /\ row.status \in {"A", "I"}
  /\ check_uniqueness(x, row)
  /\ Begin(c, "insert", "item", x, row)

\* May set status "I" whatever stock there is.
edit_item(c, x, row) ==
  /\ CurrentForm(c, "item", x)
  /\ Required(row)
  /\ row.status \in {"A", "I"}
  /\ check_uniqueness(x, row)
  /\ Begin(c, "update", "item", x, row)

inactivate_item(c, x) ==
  /\ Exists("item", x)
  /\ db["item"][x].status # "I"
  /\ check_item_can_be_inactivated(x)
  /\ Begin(c, "set", "item", x, [db["item"][x] EXCEPT !.status = "I"])

activate_item(c, x) ==
  /\ Exists("item", x)
  /\ db["item"][x].status # "A"
  /\ Begin(c, "set", "item", x, [db["item"][x] EXCEPT !.status = "A"])

=============================================================================
