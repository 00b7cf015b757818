------------------------- MODULE UserAgentBackfill -------------------------
(*************************************************************************)
(* scripts/backfill_user_agents.py: runs of the script, side by side or  *)
(* one after another, fill in the parsed user agent of access_logs rows, *)
(* batch by batch, while redirects append rows, links and destinations   *)
(* are removed, which updates and so locks the rows that name them, and  *)
(* runs are killed.                                                      *)
(*************************************************************************)
EXTENDS Integers, FiniteSets

CONSTANTS
  Rows,       \* rows of access_logs with a ua_raw, in the order of their id
  Nameless,   \* those in which the parser finds no browser
  Runs,       \* runs of the script
  Removals,   \* transactions that remove a link or a destination, each reused
  BatchSize,
  MaxCrashes  \* bound of the runs that are killed

Free == "free"

ASSUME BackfillAssumption ==
  /\ Rows \subseteq Nat
  /\ IsFiniteSet(Rows)
  /\ Nameless \subseteq Rows
  /\ Free \notin Runs \cup Removals
  /\ Runs \cap Removals = {}
  /\ BatchSize \in Nat \ {0}
  /\ MaxCrashes \in Nat

VARIABLES
  browser,    \* access_logs.ua_browser, or "absent"
  lock,       \* holder of the row lock
  stage,
  batch,      \* rows a run has selected
  updated,    \* those of them it has updated in its transaction
  processed,  \* what a run counts
  parsedBy,   \* the run whose commit set ua_browser
  excused     \* rows that no run is to blame for if all runs are over: the next
              \* run starts without excuse

backfillVars == <<browser, lock, stage, batch, updated, processed, parsedBy, excused>>

Values == {"absent", "null", "name", "Unknown"}

\* Bound of the counter: one more than a correct run can count.
MaxCount == Cardinality(Rows) + 1

BackfillTypeOK ==
  /\ browser \in [Rows -> Values]
  /\ lock \in [Rows -> Runs \cup Removals \cup {Free}]
  /\ stage \in [Runs -> {"idle", "selecting", "updating", "returned", "dead"}]
  /\ batch \in [Runs -> SUBSET Rows]
  /\ updated \in [Runs -> SUBSET Rows]
  /\ processed \in [Runs -> 0..MaxCount]
  /\ parsedBy \in [Rows -> Runs \cup {Free}]
  /\ excused \subseteq Rows

BackfillInit ==
  /\ \E present \in SUBSET Rows :
       browser = [row \in Rows |-> IF row \in present THEN "null" ELSE "absent"]
  /\ lock = [row \in Rows |-> Free]
  /\ stage = [w \in Runs |-> "idle"]
  /\ batch = [w \in Runs |-> {}]
  /\ updated = [w \in Runs |-> {}]
  /\ processed = [w \in Runs |-> 0]
  /\ parsedBy = [row \in Rows |-> Free]
  /\ excused = {}

---------------------------------------------------------------------------
Active(w) == stage[w] \in {"selecting", "updating"}
Unparsed == {row \in Rows : browser[row] = "null"}

\* A redirect logs a visit whose browser is not known.
Insert(row) ==
  /\ browser[row] = "absent"
  /\ browser' = [browser EXCEPT ![row] = "null"]
  /\ excused' = IF \E w \in Runs : Active(w) THEN excused ELSE excused \cup {row}
  /\ UNCHANGED <<lock, stage, batch, updated, processed, parsedBy>>

Start(w) ==
  /\ stage[w] = "idle"
  /\ stage' = [stage EXCEPT ![w] = "selecting"]
  /\ excused' = {}
  /\ UNCHANGED <<browser, lock, batch, updated, processed, parsedBy>>

\* Faulty variant: a plain SELECT.
SelectableUnlocked == Unparsed

\* FOR UPDATE SKIP LOCKED
Selectable == {row \in Unparsed : lock[row] = Free}

\* ORDER BY id LIMIT batch_size
FirstOf(rows) ==
  {row \in rows : Cardinality({other \in rows : other < row}) < BatchSize}

Select(w) ==
  /\ stage[w] = "selecting"
  /\ Selectable # {}
  /\ LET rows == FirstOf(Selectable) IN
       /\ batch' = [batch EXCEPT ![w] = rows]
       /\ lock' = [row \in Rows |-> IF row \in rows THEN w ELSE lock[row]]
  /\ stage' = [stage EXCEPT ![w] = "updating"]
  /\ UNCHANGED <<browser, updated, processed, parsedBy, excused>>

\* What a removal has locked is skipped, and if no other run is at work, left.
Return(w) ==
  /\ stage[w] = "selecting"
  /\ Selectable = {}
  /\ stage' = [stage EXCEPT ![w] = "returned"]
  /\ excused' = IF \E v \in Runs \ {w} : Active(v)
                  THEN excused
                  ELSE excused \cup {row \in Unparsed : lock[row] \in Removals}
  /\ UNCHANGED <<browser, lock, batch, updated, processed, parsedBy>>

Update(w) ==
  /\ stage[w] = "updating"
  /\ \E row \in batch[w] \ updated[w] :
       /\ \A other \in batch[w] \ updated[w] : row <= other
       /\ updated' = [updated EXCEPT ![w] = @ \cup {row}]
  /\ UNCHANGED <<browser, lock, stage, batch, processed, parsedBy, excused>>

\* Faulty variant: what the parser did not find is left out.
ParsedName(row) == IF row \in Nameless THEN "null" ELSE "name"

\* parsed.browser or "Unknown"
Parsed(row) == IF row \in Nameless THEN "Unknown" ELSE "name"

Counted(n) == IF n < MaxCount THEN n ELSE MaxCount

Unlocked(holder) == [row \in Rows |-> IF lock[row] = holder THEN Free ELSE lock[row]]

\* Faulty variant: the last batch is recognised by its size.
AfterShortBatch(w) == IF Cardinality(batch[w]) < BatchSize THEN "returned" ELSE "selecting"

AfterBatch(w) == "selecting"

\* UPDATE ... WHERE ua_browser IS NULL takes effect.
CommitBatch(w) ==
  /\ stage[w] = "updating"
  /\ updated[w] = batch[w]
  /\ LET rows == batch[w] \cap Unparsed IN
       /\ browser' = [row \in Rows |-> IF row \in rows THEN Parsed(row) ELSE browser[row]]
       /\ parsedBy' = [row \in Rows |-> IF row \in rows THEN w ELSE parsedBy[row]]
  /\ processed' = [processed EXCEPT ![w] = Counted(@ + Cardinality(batch[w]))]
  /\ lock' = Unlocked(w)
  /\ batch' = [batch EXCEPT ![w] = {}]
  /\ updated' = [updated EXCEPT ![w] = {}]
  /\ stage' = [stage EXCEPT ![w] = AfterBatch(w)]
  /\ UNCHANGED excused

\* A run is killed, or a row makes it fail: its transaction is rolled back.
KillRun(w) ==
  /\ Active(w)
  /\ Cardinality({v \in Runs : stage[v] = "dead"}) < MaxCrashes
  /\ stage' = [stage EXCEPT ![w] = "dead"]
  /\ lock' = Unlocked(w)
  /\ batch' = [batch EXCEPT ![w] = {}]
  /\ updated' = [updated EXCEPT ![w] = {}]
  /\ excused' = IF \E v \in Runs \ {w} : Active(v) THEN excused ELSE excused \cup Unparsed
  /\ UNCHANGED <<browser, processed, parsedBy>>

\* ON DELETE SET NULL: a removal (short_links.py:200, 385) updates each row that
\* names the link or the destination, and waits while somebody else has it.
ClearReference(d, row) ==
  /\ browser[row] # "absent"
  /\ lock[row] = Free
  /\ lock' = [lock EXCEPT ![row] = d]
  /\ UNCHANGED <<browser, stage, batch, updated, processed, parsedBy, excused>>

\* The removal is committed or rolled back.
EndRemoval(d) ==
  /\ \E row \in Rows : lock[row] = d
  /\ lock' = Unlocked(d)
  /\ UNCHANGED <<browser, stage, batch, updated, processed, parsedBy, excused>>

---------------------------------------------------------------------------
Step(w) == Select(w) \/ Return(w) \/ Update(w) \/ CommitBatch(w)

BackfillNext ==
  \/ \E row \in Rows : Insert(row)
  \/ \E w \in Runs : Start(w) \/ Step(w) \/ KillRun(w)
  \/ \E d \in Removals : EndRemoval(d) \/ \E row \in Rows : ClearReference(d, row)

BackfillSpec == BackfillInit /\ [][BackfillNext]_backfillVars

FairSpec == BackfillSpec /\ \A w \in Runs : WF_backfillVars(Step(w))

---------------------------------------------------------------------------
\* Runs share the rows out: what a run counts is what it parsed, no row is
\* counted by two, and a killed run has counted nothing it did not commit.
CountsAreTrue ==
  \A w \in Runs : processed[w] = Cardinality({row \in Rows : parsedBy[row] = w})

\* Runs that overlap, die and begin again share the rows out.
SharedOut == BackfillTypeOK /\ CountsAreTrue

\* A run may return while others still hold rows, but the last one out leaves
\* nothing unparsed (backfill_user_agents.py:45-52), except what came, or was
\* given back by a killed run, when no run was left to see it, and what the
\* removal of a link or a destination had locked when the last run looked.
LastOneOut == (\A w \in Runs : ~Active(w)) /\ (\E w \in Runs : stage[w] # "idle")
                => Unparsed \subseteq excused

\* A run that is not killed comes to an end, also over rows in which no browser
\* is found.
EveryRunEnds == \A w \in Runs : Active(w) ~> ~Active(w)

===========================================================================
