------------------------------ MODULE PackageForms ------------------------------
(***************************************************************************)
(* The pages and forms of one relief package (app/features/packaging.py):  *)
(* what a page showed, what its form posts back later, and what is stored  *)
(* by then.  A GET and a POST read the request with its items, then the    *)
(* package with its rows; a POST then writes in one transaction that       *)
(* compares the versions it read.  Quantities, stock and reservations      *)
(* are in module Fulfilment, where a handler is one step.                  *)
(***************************************************************************)
EXTENDS Naturals, Sequences

CONSTANTS Desks,     \* browsers, each of one logged-in user
          Officers,  \* those of logistics officers
          Managers,  \* those of logistics managers
          Batches,   \* batches a form may allocate
          MaxSaves   \* saves of forms

VARIABLES
  prq,   \* version of the request row and of its item rows
  pkgs,  \* the reliefpkg rows of the request
  prows, \* prows[b]: version of the first package's row for b, 0 when there is none
  ppage, \* ppage[c]: what the page open at c showed
  job    \* job[c]: the request of c in progress

pvars == <<prq, pkgs, prows, ppage, job>>

NoRows == [b \in Batches |-> 0]
NoPkg == [status |-> "none", verify |-> "none", by |-> "none", version |-> 0]
NoPkgPage == [kind |-> "none", req |-> 0, pkg |-> 0, rows |-> NoRows]
NoJob == [op |-> "none", form |-> {}, step |-> "none",
          req |-> [version |-> 0, items |-> 0], pkg |-> NoPkg, rows |-> NoRows]

\* A request without a package, or with one that was saved or submitted;
\* versions are counted from there.
PInit ==
  /\ prq = [version |-> 1, items |-> 1]
  /\ \/ pkgs = <<>> /\ prows = NoRows
     \/ /\ \E c \in Desks, v \in {"none", "pending"} :
             pkgs = <<[status |-> "P", verify |-> v, by |-> c, version |-> 1]>>
        /\ prows = [b \in Batches |-> 1]
  /\ ppage = [c \in Desks |-> NoPkgPage]
  /\ job = [c \in Desks |-> NoJob]

-----------------------------------------------------------------------------
(* Reading *)

PrepareOps == {"save_draft", "submit_for_approval", "send_for_dispatch"}
ApproveOps == {"save_draft_approval", "approve_and_dispatch"}
Views == {"prepare", "approve"}

\* ReliefPkg.query.filter_by(reliefrqst_id=...).first()
FirstPkg == IF pkgs = <<>> THEN NoPkg ELSE pkgs[1]

\* The approve and review pages take the package from the joined query of
\* the request; the prepare page queries it afterwards.  The
\* approval of the stored rows loads them only to check their totals.
Begin(c, op) ==
  LET joined == op \notin PrepareOps \cup {"prepare"}
  IN  /\ job[c] = NoJob
      /\ joined => FirstPkg.status = "P"
      /\ job' = [job EXCEPT ![c] = [NoJob EXCEPT
                   !.op = op, !.req = prq,
                   !.step = IF op = "review" THEN "write" ELSE "read",
                   !.pkg = IF joined THEN FirstPkg ELSE NoPkg]]
      /\ UNCHANGED <<prq, pkgs, prows>>

\* The page that was open is left when another is asked for, and when a form
\* is answered: every answer is a redirect.
Leave(c) == ppage' = [ppage EXCEPT ![c] = NoPkgPage]

prepare_package(c) == c \in Officers \cup Managers /\ Begin(c, "prepare") /\ Leave(c)
approve_package(c) == c \in Managers /\ Begin(c, "approve") /\ Leave(c)
review_approval(c) == c \in Managers /\ Begin(c, "review") /\ Leave(c)

\* Faulty variant: the form's package version is not compared.
CurrentPackageIgnored(shown, pkg) == TRUE

\* A form without a package version was shown before there was a package.
CurrentPackage(shown, pkg) == shown = 0 \/ pkg = NoPkg \/ shown = pkg.version

post_prepare(c, op) ==
  /\ ppage[c].kind = "prepare"
  /\ op = "submit_for_approval" => c \in Officers
  /\ op = "send_for_dispatch" => c \in Managers
  /\ ppage[c].req = prq.version
  /\ Begin(c, op)
  /\ UNCHANGED ppage

post_approve(c, op) ==
  /\ ppage[c].kind = "approve"
  /\ ppage[c].req = prq.version
  /\ CurrentPackage(ppage[c].pkg, FirstPkg)
  /\ Begin(c, op)
  /\ UNCHANGED ppage

\* The package, unless it came with the request, and its rows: a save that
\* commits between the two queries has changed the items read before them.
\* A pending package is submitted only by the officer who created it.
read_rows(c, form) ==
  LET pkg == IF job[c].pkg = NoPkg THEN FirstPkg ELSE job[c].pkg
  IN  /\ job[c].step = "read" /\ job[c].op \in PrepareOps \cup ApproveOps
      /\ CurrentPackage(ppage[c].pkg, pkg)
      /\ job[c].op = "submit_for_approval" /\ pkg.status = "P" => pkg.by = c
      /\ job' = [job EXCEPT ![c].step = "write", ![c].pkg = pkg, ![c].rows = prows, ![c].form = form]
      /\ UNCHANGED <<prq, pkgs, prows, ppage>>

show_page(c) ==
  LET pkg == IF job[c].pkg = NoPkg THEN FirstPkg ELSE job[c].pkg
  IN  /\ job[c].step = "read" /\ job[c].op \in Views
      /\ ppage' = [ppage EXCEPT ![c] = [kind |-> job[c].op, req |-> job[c].req.version,
                                      pkg |-> pkg.version, rows |-> prows]]
      /\ job' = [job EXCEPT ![c] = NoJob]
      /\ UNCHANGED <<prq, pkgs, prows>>

-----------------------------------------------------------------------------
(* Writing *)

\* Faulty variant: the request and its items are found by their keys alone.
SameRequestUnchecked(k) == TRUE

\* UPDATE ... WHERE version_nbr = the version read.  _save_draft_approval
\* leaves the request row as it is, the approval of stored rows the items.
SameRequest(k) ==
  /\ k.op # "save_draft_approval" => prq.version = k.req.version
  /\ k.op # "review" => prq.items = k.req.items

\* _save_draft changes an existing package only when it was submitted.
WritesPackage(k) == k.op # "save_draft" \/ k.pkg.verify # "none"

SamePackage(k) == k.pkg # NoPkg /\ WritesPackage(k) => FirstPkg.version = k.pkg.version

\* UPDATE or DELETE of the rows read, INSERT of the others of the form.
SameRows(k) ==
  /\ \A b \in Batches : k.rows[b] > 0 => prows[b] = k.rows[b]
  /\ \A b \in k.form : k.rows[b] = 0 => prows[b] = 0

RowsAfter(k) ==
  [b \in Batches |-> IF b \in k.form THEN k.rows[b] + 1
                     ELSE IF k.rows[b] > 0 THEN 0 ELSE prows[b]]

PkgStatus(k) ==
  CASE k.op \in {"send_for_dispatch", "approve_and_dispatch", "review"} -> "D"
    [] k.op = "save_draft" /\ k.pkg # NoPkg -> k.pkg.status
    [] OTHER -> "P"

PkgVerify(k) ==
  CASE k.op = "save_draft" -> "none"
    [] k.op = "submit_for_approval" -> "pending"
    [] k.op = "save_draft_approval" -> k.pkg.verify
    [] OTHER -> "manager"

\* A package that is pending cannot have been dispatched (c_reliefpkg_2).
write_package(c, k) ==
  LET row == [status |-> PkgStatus(k), verify |-> PkgVerify(k),
              by |-> IF k.pkg = NoPkg THEN c ELSE k.pkg.by, version |-> k.pkg.version + 1]
  IN  /\ ~(k.pkg.status = "D" /\ PkgStatus(k) = "P")
      /\ SamePackage(k)
      /\ pkgs' = IF k.pkg = NoPkg THEN Append(pkgs, row)
                 ELSE IF WritesPackage(k) THEN [pkgs EXCEPT ![1] = row] ELSE pkgs

\* _save_draft, _submit_for_approval, _send_for_dispatch, _save_draft_approval
\* and _approve_and_dispatch.
save(c) ==
  LET k == job[c]
  IN  /\ k.step = "write" /\ k.op \in PrepareOps \cup ApproveOps
      /\ prq.items <= MaxSaves
      /\ SameRequest(k) /\ SameRows(k)
      /\ prq' = [version |-> IF k.op = "save_draft_approval" THEN prq.version ELSE prq.version + 1,
                 items |-> prq.items + 1]
      /\ write_package(c, k)
      /\ prows' = RowsAfter(k)
      /\ job' = [job EXCEPT ![c] = NoJob]
      /\ Leave(c)

\* The manager's approval of the stored rows: it posts no version and writes
\* neither items nor rows.
dispatch_reviewed(c) ==
  LET k == job[c]
  IN  /\ k.step = "write" /\ k.op = "review"
      /\ SameRequest(k)
      /\ write_package(c, k)
      /\ prq' = [prq EXCEPT !.version = @ + 1]
      /\ job' = [job EXCEPT ![c] = NoJob]
      /\ UNCHANGED <<prows, ppage>>

\* One DELETE of all rows; no version changes.
cancel_preparation(c) ==
  /\ job[c] = NoJob
  /\ prows' = NoRows
  /\ UNCHANGED <<prq, pkgs, ppage, job>>

\* A version that differs, a form that is refused, a reservation that fails.
abandon(c) ==
  /\ job[c] # NoJob
  /\ job' = [job EXCEPT ![c] = NoJob]
  /\ Leave(c)
  /\ UNCHANGED <<prq, pkgs, prows>>

-----------------------------------------------------------------------------
(* Specification *)

PNext ==
  \E c \in Desks :
    \/ prepare_package(c) \/ approve_package(c) \/ review_approval(c)
    \/ \E op \in PrepareOps : post_prepare(c, op)
    \/ \E op \in ApproveOps : post_approve(c, op)
    \/ \E form \in SUBSET Batches : read_rows(c, form)
    \/ show_page(c)
    \/ save(c) \/ dispatch_reviewed(c) \/ cancel_preparation(c)
    \/ abandon(c)

PSpec == PInit /\ [][PNext]_pvars

-----------------------------------------------------------------------------
(* Properties *)

\* c saves its form in this step: the item rows change with every save.
Saves(c) == prq'.items # prq.items /\ job'[c] # job[c]

\* A form replaces the rows its page showed, or rows cancelled since: no
\* save by someone else in between is overwritten unseen, although the
\* request's version misses _save_draft_approval, the package's version
\* misses _save_draft, and a page may have shown no package at all.
SaveReplacesShown ==
  [][\A c \in Desks : Saves(c) => prows \in {ppage[c].rows, NoRows}]_pvars

\* The rows stored by a save are those of its form, never a mixture with the
\* rows of a save that committed while it was reading.
SavedAsEntered ==
  [][\A c \in Desks : Saves(c) => {b \in Batches : prows'[b] > 0} = job[c].form]_pvars

\* Two first saves of one request make one package: no constraint of
\* reliefpkg says so, and every later query takes the first it finds.
OnePackage == Len(pkgs) <= 1

=============================================================================
