----------------------------- MODULE GroupDialog -----------------------------
(***************************************************************************)
(* When a group may take part in a kim: the dialog of the page             *)
(* (GroupSettingsUI in ui/src/pages/admin/kims/edit.tsx), and the row the  *)
(* server accepts (api/routes/kims.cc and kims.sql).                       *)
(*                                                                         *)
(* Times are numbers of half minutes within the year 2023, and the inputs  *)
(* of the dialog may have dates of another age or none at all.             *)
(***************************************************************************)
EXTENDS Integers, FiniteSets

CONSTANTS MaxTime,      \* bound: the last time an administrator enters
          DefaultTime   \* goodDefaultTime

ASSUME TimesAssumption == MaxTime \in Nat /\ DefaultTime \in 1..MaxTime

Minute == 2
Times == 1..MaxTime
Ancient == -2   \* a date before 2022
NotADate == -1  \* an empty or malformed input

Inputs == Times \cup {Ancient, NotADate}
Durations == 0..MaxTime \div Minute \cup {NotADate}

Fields == {"start", "end", "duration", "virtual", "deleted"}
NoFields == [f \in {} |-> FALSE]
NoRow == [given |-> FALSE, start |-> 0, end |-> 0, duration |-> 0,
          virtual |-> FALSE, deleted |-> FALSE]
Closed == [open |-> FALSE]

-----------------------------------------------------------------------------
\* setFullYear(2023), which makes a date of what is none.
Year2023(x) == IF x = Ancient THEN 2 ELSE IF x = NotADate THEN 1 ELSE x

\* Fault: the duration of a virtual contest is taken as it is.
ClapFixed(why, virtual, inferred, actual) == ~virtual /\ actual < inferred

\* Whether the duration and the interval have to be made to agree.
Clap(why, virtual, inferred, actual) ==
  inferred < actual \/ (~virtual /\ actual < inferred)

\* updateTimeRelatedSettings: what it makes of the inputs, as a set that is empty
\* if it gives up.
Agreed(why, in) ==
  LET outOfRange == in.start = Ancient \/ in.end = Ancient
      start0 == IF outOfRange THEN Year2023(in.start) ELSE in.start
      end0 == IF outOfRange THEN Year2023(in.end) ELSE in.end
      start == IF end0 < start0 /\ why = "end" THEN end0 ELSE start0
      end1 == IF end0 < start0 THEN start ELSE end0
      inferred == ((end1 - start) \div Minute) * Minute
      end == start + inferred
      typed == IF in.duration = NotADate THEN 0 ELSE in.duration * Minute
      clap == Clap(why, in.virtual, inferred, typed)
  IN IF (outOfRange /\ why # "save") \/ NotADate \in {start0, end0} THEN {}
     ELSE {[start |-> start,
            end |-> IF clap /\ why = "duration" THEN end + typed - inferred ELSE end,
            duration |-> IF clap /\ why # "duration" THEN inferred ELSE typed,
            virtual |-> in.virtual]}

\* updateSettingsOf: the inputs for an entry.
Opening(entry) ==
  [open |-> TRUE, start |-> entry.start, end |-> entry.end,
   duration |-> (entry.duration + Minute \div 2) \div Minute, virtual |-> entry.virtual]

\* The change handlers of the inputs.
Changed(dialog, why) ==
  {[dialog EXCEPT !.start = a.start, !.end = a.end, !.duration = a.duration \div Minute] :
     a \in Agreed(why, dialog)}

\* The save button: the entry after it.
SavedEntry(dialog, entry) ==
  LET agreed == Agreed("save", dialog)
  IN IF agreed = {} THEN entry
     ELSE LET a == CHOOSE x \in agreed : TRUE
          IN [entry EXCEPT !.start = a.start, !.end = a.end,
                           !.duration = a.duration, !.virtual = a.virtual]

-----------------------------------------------------------------------------
\* is_sane
Sane(row) ==
  IF row.virtual THEN row.end - row.start >= row.duration
  ELSE row.end - row.start = row.duration

Overriding(new, old) ==
  [f \in DOMAIN new \cup DOMAIN old |-> IF f \in DOMAIN new THEN new[f] ELSE old[f]]

\* The row after an update of these fields.
Merged(row, fields) ==
  IF fields = NoFields THEN row
  ELSE IF "deleted" \in DOMAIN fields /\ fields["deleted"] THEN NoRow
  ELSE [Overriding(fields, IF row.given THEN row ELSE NoRow)
          EXCEPT !.given = TRUE, !.deleted = FALSE]
=============================================================================
