-------------------------------- MODULE People --------------------------------
(***************************************************************************)
(* What people do on their pages: account requests, user administration,   *)
(* notifications and the forms of a package.  An area is a group of        *)
(* handlers; the handlers of one area run in a behaviour.  Notifications   *)
(* run with handlers that switch users on and off while the recipients are *)
(* looked up.                                                              *)
(***************************************************************************)
EXTENDS AccountRequests, Notifications, PackageForms

CONSTANTS Areas,       \* areas to run
          MaxSwitches  \* users switched on or off while notifications are sent

VARIABLE area

vars == <<areq, audit, atask, users, task, changes, rel, notes, prq, pkgs, prows, ppage, job, area>>

Init ==
  /\ AInit /\ UInit /\ NInit /\ PInit
  /\ area \in Areas
  /\ area # "packages" => pkgs = <<>>

Next ==
  /\ UNCHANGED area
  /\ \/ area = "account_requests" /\ ANext /\ UNCHANGED <<nvars, pvars>>
     \/ area = "users" /\ UNext /\ UNCHANGED <<avars, rel, notes, pvars>>
     \/ area = "notifications" /\ NNext /\ UNCHANGED <<avars, pvars>>
     \/ area = "packages" /\ PNext /\ UNCHANGED <<avars, nvars>>
     \/ /\ area = "notifications"
        /\ \E c \in Clients : (changes < MaxSwitches /\ StatusHandlers(c)) \/ rollback_user(c)
        /\ UNCHANGED <<avars, rel, notes, pvars>>

Spec == Init /\ [][Next]_vars

===============================================================================
