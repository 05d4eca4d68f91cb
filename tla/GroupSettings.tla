--------------------------- MODULE GroupSettings ---------------------------
(***************************************************************************)
(* The settings of a group: one JSON column (src/src/groups/models.py)     *)
(* that the settings page, the group resource, the annual review and the   *)
(* job that sends reminders of the trial's end each copy, change and write *)
(* back whole.                                                             *)
(*                                                                         *)
(* The copy is shallow: a list or dictionary in it that is changed in      *)
(* place changes in the row that was read as well, and a session writes    *)
(* the column only where the copy differs from that row.                   *)
(*                                                                         *)
(* Here sessions do not overlap, so each is one step, except the job's,    *)
(* which may end between its mail and its commit.  Those that do overlap   *)
(* take each other's keys back, and nothing about the column is left to be *)
(* said.                                                                   *)
(***************************************************************************)
EXTENDS FiniteSets, Integers, Sessions

CONSTANTS
    Choice,        \* values of a setting that a parent may choose
    Unset,         \* a key that the column, or a request, does not have
    ReminderDays   \* REMINDER_DAYS: days left of the trial on which it is recalled

ASSUME GroupSettingsAssumption == Unset \notin Choice /\ 0 \in ReminderDays /\ ReminderDays \subseteq Nat

VARIABLES
    settings,   \* groups.settings
    daysLeft,   \* days_remaining of get_trial_status, from the first reminder on; it stays 0
    chosen,     \* what the parent saved last (history)
    mailed,     \* reminders mailed, by days left, counted up to two (history)
    excused     \* reminders whose record was lost with a session or replaced (history)

groupSettingsTables == <<settings, daysLeft, chosen, mailed, excused>>
groupSettingsVars == <<settings, daysLeft, chosen, mailed, excused, txn, overlap>>

Setting == Choice \cup {Unset}

(* level: safety_level, and the three keys that are saved like it; reminded:
   trial_reminders_sent; reviewed: coppa_last_review. *)
GroupColumn ==
    [level: Setting, notifications: Setting, reminded: SUBSET ReminderDays, reviewed: BOOLEAN]

(* alone: the last save of notification preferences changed nothing else, and was
   not the first. *)
ParentsChoice == [level: Setting, notifications: Setting, reviewed: BOOLEAN, alone: BOOLEAN]

NothingSet == [level |-> Unset, notifications |-> Unset, reminded |-> {}, reviewed |-> FALSE]
NothingChosen == [level |-> Unset, notifications |-> Unset, reviewed |-> FALSE, alone |-> FALSE]

GroupSettingsTypeOK ==
    /\ settings \in GroupColumn
    /\ daysLeft \in ReminderDays
    /\ chosen \in ParentsChoice
    /\ mailed \in [ReminderDays -> 0..2]
    /\ excused \subseteq ReminderDays
    /\ txn \in [Worker -> {Idle} \cup [op: {"remind"}, days: ReminderDays]]

GroupSettingsTablesInit ==
    /\ settings = NothingSet
    /\ daysLeft \in ReminderDays /\ \A d \in ReminderDays : d <= daysLeft
    /\ chosen = NothingChosen
    /\ mailed = [d \in ReminderDays |-> 0]
    /\ excused = {}

GroupSettingsInit == GroupSettingsTablesInit /\ SessionsInit /\ ~overlap

-----------------------------------------------------------------------------
OrElse(new, old) == IF new = Unset THEN old ELSE new

(* Seeded fault: the copy is taken for changed only if the safety level is. *)
FlushedLevel(row, copy) == IF copy.level = row.level THEN settings ELSE copy

(* The column after a session has flushed copy, where row is what it has read,
   with what was changed in place. *)
Flushed(row, copy) == IF copy = row THEN settings ELSE copy

(* update_group_settings: the preferences are updated in place if there are any.  The
   budget that it may set as well is a row of its own. *)
SettingsSaved(w, level, notifications) ==
    LET inPlace == notifications # Unset /\ settings.notifications # Unset
        row == IF inPlace THEN [settings EXCEPT !.notifications = notifications] ELSE settings
        copy == [settings EXCEPT !.level = OrElse(level, @),
                                 !.notifications = OrElse(notifications, @)]
    IN  /\ Free(w)
        /\ settings' = Flushed(row, copy)
        /\ chosen' = [chosen EXCEPT
             !.level = OrElse(level, @),
             !.notifications = OrElse(notifications, @),
             !.alone = IF notifications = Unset THEN @ ELSE inPlace /\ copy = row]
        /\ UNCHANGED <<daysLeft, mailed, excused, sessions>>

(* update_group takes the whole column from the request, and with it the record of
   the reminders and of the review. *)
SettingsReplaced(w, level) ==
    /\ Free(w)
    /\ settings' = Flushed(settings, [NothingSet EXCEPT !.level = level])
    /\ chosen' = [NothingChosen EXCEPT !.level = level]
    /\ excused' = ReminderDays
    /\ UNCHANGED <<daysLeft, mailed, sessions>>

(* mark_annual_review. *)
ReviewMarked(w) ==
    /\ Free(w)
    /\ settings' = [settings EXCEPT !.reviewed = TRUE]
    /\ chosen' = [chosen EXCEPT !.reviewed = TRUE]
    /\ UNCHANGED <<daysLeft, mailed, excused, sessions>>

-----------------------------------------------------------------------------
(* send_trial_reminders, a daily job; a mail that fails changes nothing. *)

(* Seeded fault: what was sent is not looked at. *)
NotRemindedAgain(days) == TRUE

NotReminded(days) == days \notin settings.reminded

RemindMail(w) ==
    /\ NotReminded(daysLeft)
    /\ mailed[daysLeft] < 2
    /\ mailed' = [mailed EXCEPT ![daysLeft] = @ + 1]
    /\ Begin(w, [op |-> "remind", days |-> daysLeft])
    /\ UNCHANGED <<settings, daysLeft, chosen, excused>>

(* The reminder is appended in place to the list, if there is one. *)
RemindWrite(w) ==
    /\ Open(w, "remind")
    /\ LET copy == [settings EXCEPT !.reminded = @ \cup {txn[w].days}] IN
         settings' = Flushed(IF settings.reminded = {} THEN settings ELSE copy, copy)
    /\ End(w)
    /\ UNCHANGED <<daysLeft, chosen, mailed, excused>>

(* An exception, of a later group or a later job of the run, or a crash. *)
RemindLost(w) ==
    /\ Abandon(w)
    /\ excused' = excused \cup {txn[w].days}
    /\ UNCHANGED <<settings, daysLeft, chosen, mailed>>

TrialRunsDown ==
    /\ \E d \in ReminderDays :
         /\ d < daysLeft /\ \A e \in ReminderDays : e < daysLeft => e <= d
         /\ daysLeft' = d
    /\ UNCHANGED <<settings, chosen, mailed, excused, sessions>>

GroupSettingsNext ==
    \/ TrialRunsDown
    \/ \E w \in Worker :
         \/ \E level, notifications \in Setting : SettingsSaved(w, level, notifications)
         \/ \E level \in Choice : SettingsReplaced(w, level)
         \/ ReviewMarked(w)
         \/ RemindMail(w) \/ RemindWrite(w) \/ RemindLost(w)

GroupSettingsSpec == GroupSettingsInit /\ [][GroupSettingsNext]_groupSettingsVars

-----------------------------------------------------------------------------
(* "Tracks sent reminders ... to avoid duplicates", and the settings page shows what
   was saved.  A reminder is mailed twice only if its record was lost with the
   session or replaced, or if another reminder was on record first, whose list the
   job then changes in place; and a setting or a review stands as it was saved
   last, but for notification preferences that were saved by themselves and not
   for the first time. *)
SettingsStand ==
    /\ settings.level = chosen.level /\ settings.reviewed = chosen.reviewed
    /\ chosen.alone \/ settings.notifications = chosen.notifications
    /\ \A d \in ReminderDays : mailed[d] > 1 => d \in excused \/ settings.reminded \ {d} # {}
=============================================================================
