---------------------------- MODULE MCMasterData ----------------------------
(***************************************************************************)
(* Instances of MasterData.  One row of each table of master data exists   *)
(* at the start, and one more can be created.  The areas are the groups of *)
(* tables whose rows refer to each other.                                  *)
(***************************************************************************)
EXTENDS MasterData, TLC

CONSTANTS n1, n2, c1, c2

ClientSymmetry == Permutations(Clients)

MCAreas ==
  {{"custodian", "warehouse"}, {"custodian", "donation"}, {"event", "agency"},
   {"event", "request"}, {"donor", "donation"}, {"warehouse", "agency"},
   {"warehouse", "inventory"}, {"agency", "request"}, {"category", "item"},
   {"uom", "item"}, {"item", "inventory"}}

NoRefs(t) == [k \in DOMAIN Columns[t] |-> NULL]
NoRow(t) == [name |-> n1, status |-> "none", kind |-> "none", ref |-> NoRefs(t), version |-> 0]

First(t) ==
  [name |-> n1, status |-> "A", version |-> 1,
   kind |-> IF t = "agency" THEN "DISTRIBUTOR" ELSE "none",
   ref |-> [k \in DOMAIN Columns[t] |-> IF k = "ineligible_event_id" THEN NULL ELSE 1]]

\* One row in each table.  There is no donation, request or inventory row
\* yet.  Where units change there may be no item, so that nothing refers to
\* the unit.
Without(empty) ==
  [t \in Tables |-> [x \in Ids |-> IF x = 1 /\ t \notin empty THEN First(t) ELSE NoRow(t)]]

MCInitial ==
  [a \in MCAreas |-> {Without(Dependents)}
                       \cup {Without(Dependents \cup {"item"}) : t \in a \cap {"uom"}}]

\* Only a form that keeps the first name asks for an inactive row.  An agency
\* is made ineligible for the first event only, by a form that keeps its name
\* and does not ask for the second warehouse; a form with the second name
\* gives the agency the warehouse its kind needs; and an agency becomes
\* inactive by deactivate_agency.  The form of an item asks for the second
\* name, category or unit, not for two of them.  Donations, requests and
\* stock differ in what they refer to.
MCForms ==
  [t \in Tables |->
    {row \in [name : Names, status : {"A", "I"}, ref : RefsOf(t), version : {0},
              kind : IF t = "agency" THEN Kinds ELSE {"none"}] :
       /\ row.status = "I" => row.name = n1
       /\ \A k \in DOMAIN row.ref : row.ref[k] = NULL => k \in Nullable
       /\ t = "agency" =>
            /\ row.status = "A"
            /\ \/ row.ref["ineligible_event_id"] = NULL
               \/ /\ row.ref["ineligible_event_id"] = 1
                  /\ row.name = n1 /\ row.ref["warehouse_id"] # 2
            /\ row.name = n2 =>
                 (row.kind = "DISTRIBUTOR" <=> row.ref["warehouse_id"] # NULL)
       /\ t = "item" =>
            /\ row.name = n2 => row.ref["category_id"] = 1 /\ row.ref["default_uom_code"] = 1
            /\ row.ref["category_id"] = 1 \/ row.ref["default_uom_code"] = 1
       /\ t \in Dependents => row.name = n1 /\ row.status = "A"}]

=============================================================================
