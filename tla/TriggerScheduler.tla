-------------------------- MODULE TriggerScheduler --------------------------
(***************************************************************************)
(* Cron triggers of one tenant (internal/domain/trigger): the rows the     *)
(* service writes, and the scheduler that runs in every pod, lists the due *)
(* rows every 30 s and starts a chat run for each.                         *)
(*                                                                         *)
(* Time is counted in minutes, of a day made small by MinutesPerHour and   *)
(* HoursPerDay.  A cron expression is its minute and hour field: NextRun   *)
(* looks at no other.                                                      *)
(***************************************************************************)
EXTENDS Integers, Sequences, FiniteSetsExt, SequencesExt

CONSTANTS Triggers,         \* ids of triggers
          Pods,             \* processes that run the scheduler
          Crons,            \* the cron expressions users write
          MinutesPerHour, HoursPerDay,
          MaxTime,          \* bound: the clock stops here
          MaxFailures       \* bound: writes of a next run that fail

VARIABLES rows,             \* agent_trigger
          clock,            \* the time of day of everybody, in minutes
          due,              \* per pod: what tickTenant has still to fire
          marking,          \* per pod: the next run fireOne is about to write
          failures,         \* writes that failed so far
          fired             \* history: triggers a run was enqueued for

schedulerVars == <<due, marking, failures, fired>>
triggerVars == <<rows, clock, schedulerVars>>

NoTime == -1                \* NULL in next_run_at
NoRow == [exists |-> FALSE]

Row(cron, enabled, next) ==
  [exists |-> TRUE, cron |-> cron, enabled |-> enabled, next |-> next]

(* matchField.  A range passes Validate, but Sscanf("%d") reads its first  *)
(* number only, so it matches like that literal.                           *)
matchField(field, value) ==
  CASE field.kind = "any"  -> TRUE
    [] field.kind = "step" -> value % field.n = 0
    [] field.kind \in {"literal", "range"} -> value = field.n

(* NextRun: the first minute after from, within a day, that both fields    *)
(* match; an hour later when there is none.                                *)
NextRun(cron, from) ==
  LET Matches(i) ==
        /\ matchField(cron.minute, (from + i) % MinutesPerHour)
        /\ matchField(cron.hour, ((from + i) \div MinutesPerHour) % HoursPerDay)
      hits == {i \in 1..(MinutesPerHour * HoursPerDay) : Matches(i)}
  IN  from + (IF hits = {} THEN MinutesPerHour ELSE Min(hits))

-----------------------------------------------------------------------------
TriggersInit ==
  /\ rows = [t \in Triggers |-> NoRow]
  /\ clock = 0
  /\ due = [p \in Pods |-> <<>>]
  /\ marking = [p \in Pods |-> NoTime]
  /\ failures = 0
  /\ fired = {}

FirstRun(cron, enabled) == IF enabled THEN NextRun(cron, clock) ELSE NoTime

(* Service.Create.  Its INSERT scans the row it returns with scanTrigger,  *)
(* which has a place for every column.                                     *)
Create(t, cron, enabled) ==
  /\ ~rows[t].exists
  /\ rows' = [rows EXCEPT ![t] = Row(cron, enabled, FirstRun(cron, enabled))]
  /\ UNCHANGED <<clock, schedulerVars>>

(* Service.Update recomputes next_run_at whatever was changed.             *)
Update(t, cron, enabled) ==
  /\ rows[t].exists
  /\ rows' = [rows EXCEPT ![t] = Row(cron, enabled, FirstRun(cron, enabled))]
  /\ UNCHANGED <<clock, schedulerVars>>

Delete(t) ==
  /\ rows[t].exists
  /\ rows' = [rows EXCEPT ![t] = NoRow]
  /\ UNCHANGED <<clock, schedulerVars>>

Advance ==
  /\ clock < MaxTime
  /\ clock' = clock + 1
  /\ UNCHANGED <<rows, schedulerVars>>

IsDue(t) ==
  rows[t].exists /\ rows[t].enabled /\ rows[t].next # NoTime /\ rows[t].next <= clock

(* The columns ListDue selects and the places scanTriggers scans them      *)
(* into.  pgx refuses to scan a row when the two differ.                   *)
SelectedColumns == 12
ScannedColumns == 11

(* ListDue: the due rows, or an error as soon as there is one to scan.     *)
ListDue ==
  LET found == {t \in Triggers : IsDue(t)}
  IN  [err  |-> found # {} /\ SelectedColumns # ScannedColumns,
       rows |-> [i \in 1..Cardinality(found) |->
                   LET t == SetToSortSeq(found, LAMBDA a, b : rows[a].next < rows[b].next)[i]
                   IN  [id |-> t, cron |-> rows[t].cron]]]

(* tickTenant: an error or an empty list ends the tick.                    *)
Tick(p) ==
  /\ due[p] = <<>>
  /\ ~ListDue.err
  /\ due' = [due EXCEPT ![p] = ListDue.rows]
  /\ UNCHANGED <<rows, clock, marking, failures, fired>>

(* MarkRun updates the row of the trigger it was read from, if it is still *)
(* there: a disabled or changed trigger gets a next run all the same.      *)
MarkRun(t, next) ==
  rows' = IF rows[t].exists THEN [rows EXCEPT ![t].next = next] ELSE rows

(* fireOne takes the next run from the schedule of the row as it was       *)
(* listed, and makes a session and a run, either of which may fail.        *)
FireOne(p) ==
  /\ due[p] # <<>> /\ marking[p] = NoTime
  /\ LET t == Head(due[p])
     IN  /\ marking' = [marking EXCEPT ![p] = NextRun(t.cron, clock)]
         /\ fired' \in {fired, fired \cup {t.id}}
  /\ UNCHANGED <<rows, clock, due, failures>>

(* Then it writes the next run, fired or not, and goes on with the list:   *)
(* an error of MarkRun is logged or dropped, and the row stays due.  The   *)
(* history row of the run (CreateRun) is left out.                         *)
MarkFired(p) ==
  /\ marking[p] # NoTime
  /\ \/ MarkRun(Head(due[p]).id, marking[p]) /\ UNCHANGED failures
     \/ failures < MaxFailures /\ failures' = failures + 1 /\ UNCHANGED rows
  /\ due' = [due EXCEPT ![p] = Tail(@)]
  /\ marking' = [marking EXCEPT ![p] = NoTime]
  /\ UNCHANGED <<clock, fired>>

TriggersNext ==
  \/ \E t \in Triggers, c \in Crons, e \in BOOLEAN : Create(t, c, e) \/ Update(t, c, e)
  \/ \E t \in Triggers : Delete(t)
  \/ Advance
  \/ \E p \in Pods : Tick(p) \/ FireOne(p) \/ MarkFired(p)

(* The ticker of a live pod fires again and again.                         *)
TriggersSpec ==
  /\ TriggersInit
  /\ [][TriggersNext]_triggerVars
  /\ \A p \in Pods : WF_triggerVars(Tick(p)) /\ WF_triggerVars(FireOne(p) \/ MarkFired(p))

-----------------------------------------------------------------------------
(* A trigger that is due does not stay so: a tick fires it and writes its  *)
(* next run (scheduler.go, fireOne), unless a user changes it first.       *)
DueTriggerIsServed == \A t \in Triggers : IsDue(t) ~> ~IsDue(t)
=============================================================================
