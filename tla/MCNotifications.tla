-------------------------- MODULE MCNotifications ---------------------------
(***************************************************************************)
(* The notification worker and one operator, for one organization.         *)
(***************************************************************************)
EXTENDS Notifications, TLC

CONSTANTS w, admin, o1, o2, f1

OpportunitySymmetry == Permutations({o1, o2})

\* The preferences of the runs.
All == [email |-> TRUE, push |-> TRUE, reminder |-> TRUE]
Email == [All EXCEPT !.push = FALSE]
Push == [All EXCEPT !.email = FALSE]
NoReminder == [Email EXCEPT !.reminder = FALSE]
MCPreferences == {Email, Push, NoReminder}
MCPushPreferences == {All}
=============================================================================
