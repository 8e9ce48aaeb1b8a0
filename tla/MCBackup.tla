------------------------------- MODULE MCBackup -------------------------------
(* Users, contacts and what links them, in alphabetical order, and one     *)
(* thing.                                                                  *)
EXTENDS Backup

MCTables == <<"app_session_audit", "app_user", "app_user_contact_link", "contact">>
MCRefs == {<<"app_session_audit", "app_user">>, <<"app_user_contact_link", "app_user">>,
           <<"app_user_contact_link", "contact">>}
=============================================================================
