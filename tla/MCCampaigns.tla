---------------------------- MODULE MCCampaigns -----------------------------
(* Instance of Campaigns for TLC: one user with two uploads, two sessions,   *)
(* three days, a week of two dates with a budget of one mail.                *)
EXTENDS Campaigns, TLC

CONSTANTS u1, x1, x2, s1, s2

OneUser == {u1}
TwoUploads == {x1, x2}
SameOwner == [x \in TwoUploads |-> u1]
TwoSessions == {s1, s2}
MailScenes ==
    {{"csv_reminder_d1", "csv_reminder_d3"}, {"credit_expiry_14d", "weekly_digest"},
     {"smart_digest", "nh_sharing_d2"}, {"first_search_d2", "reengagement_d30"},
     {"welcome_js", "reengagement_d90"}, {"intro_pending_24h"}, {"upload_failed"}}

Symmetric == Permutations(Sess)
=============================================================================
