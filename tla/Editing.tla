------------------------------- MODULE Editing ------------------------------
(***************************************************************************)
(* What people edit, side by side: card merges, saved views, the wishlist  *)
(* and backups.  They share no state that any of them depends on, so that  *)
(* a behaviour is one of one part; the variables of the others are Unused, *)
(* or as merges find them first.                                           *)
(***************************************************************************)
EXTENDS CardMerge

CONSTANTS Views, PageOf,         \* of saved views
          Entries, Keys, Files,  \* of the wishlist
          Flags, Contents,       \* of backups
          Sessions,              \* requests about saved views or the wishlist
          None, Unused

VARIABLES part, default, session, picked, clashed,
          entry, request, excused, db, backup, meddled, result

SavedView == INSTANCE SavedViews WITH chosen <- picked, raced <- clashed

Wish == INSTANCE Wishlist WITH session <- request

Copy == INSTANCE Backup

EditingAssumption == CardMergeAssumption /\ Wish!WishlistAssumption /\ Copy!BackupAssumption

merges == vars
views == <<default, session, picked, clashed>>
wishes == <<entry, request, excused>>
copies == <<db, backup, meddled, result>>

NoViews == default = Unused /\ session = Unused /\ picked = Unused /\ clashed = Unused
NoWishes == entry = Unused /\ request = Unused /\ excused = Unused
NoCopies == db = Unused /\ backup = Unused /\ meddled = Unused /\ result = Unused

EditingInit ==
  /\ Init
  /\ \/ part = "merge" /\ NoViews /\ NoWishes /\ NoCopies
     \/ part = "views" /\ SavedView!Init /\ NoWishes /\ NoCopies
     \/ part = "wishlist" /\ Wish!Init /\ NoViews /\ NoCopies
     \/ part = "backup" /\ Copy!Init /\ NoViews /\ NoWishes

EditingNext ==
  \/ part = "merge" /\ Next /\ UNCHANGED <<part, views, wishes, copies>>
  \/ part = "views" /\ SavedView!Next /\ UNCHANGED <<part, merges, wishes, copies>>
  \/ part = "wishlist" /\ Wish!Next /\ UNCHANGED <<part, merges, views, copies>>
  \/ part = "backup" /\ Copy!Next /\ UNCHANGED <<part, merges, views, wishes>>

editing == <<part, merges, views, wishes, copies>>

EditingSpec == EditingInit /\ [][EditingNext]_editing

-----------------------------------------------------------------------------
(***************************************************************************)
(* Properties: those of the parts, with their type invariants              *)
(***************************************************************************)

\* set_default_saved_view, clear_default_saved_view and the deletion of a view
\* leave a page the default that was chosen last and no other, unless two
\* choices for it overlapped.
DefaultIsChosen == part = "views" => SavedView!TypeOK /\ SavedView!DefaultIsChosen

\* No edit, import or purchase leaves two wishes of one key that are not
\* removed, but for the exceptions that Wishlist names.
OneEntry == part = "wishlist" => Wish!TypeOK /\ Wish!OneEntry

\* restore_backup restores a backup whose references lead to its own rows into
\* any database.
ClosedBackupRestores == part = "backup" => Copy!TypeOK /\ Copy!ClosedBackupRestores

\* Whatever a restore loses that the backup did not say, it warned of.
LossIsWarned == part = "backup" => Copy!LossIsWarned
=============================================================================
