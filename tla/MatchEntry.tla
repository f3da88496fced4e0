------------------------------ MODULE MatchEntry ------------------------------
(***************************************************************************)
(* One player's side of a 1v1 match (internal/back/match_entry.go).        *)
(*                                                                         *)
(* An entry is a row of the MatchEntry table: its status and its outcome.  *)
(* Ending one's race, by completing or by forfeiting it, writes both the   *)
(* player's entry and the outcome of the opponent's; each is an operator   *)
(* from the two entries read to the entry written back.                    *)
(***************************************************************************)
EXTENDS Integers

\* MatchEntryStatus; "None" stands for the absence of a row.
EntryStatus == {"None", "Waiting", "InProgress", "Finished", "Forfeit"}

\* MatchEntryOutcome
Loss == -1
Draw == 0
Win == 1
EntryOutcome == {Loss, Draw, Win}

Entries == [status : EntryStatus, outcome : EntryOutcome]

NoEntry == [status |-> "None", outcome |-> Draw]

NewMatchEntry == [status |-> "Waiting", outcome |-> Draw]

HasEnded(e) == e.status \in {"Finished", "Forfeit"}

Unfinished(e) == e.status \in {"Waiting", "InProgress"}

\* The entry of a player who forfeits against an entry.
Forfeited(against) ==
    [status  |-> "Forfeit",
     outcome |-> IF against.status = "Forfeit" THEN Draw ELSE Loss]

AgainstForfeit_Accumulated(against) == [against EXCEPT !.outcome = @ + 1]

\* What the forfeit makes of the opponent's entry.
AgainstForfeit(against) ==
    [against EXCEPT !.outcome = IF against.status = "Forfeit" THEN Draw ELSE Win]

Completed_AlwaysWins(against) == [status |-> "Finished", outcome |-> Win]

\* The entry of a player who completes against an entry: the first to finish
\* wins, and so does whoever finishes against a forfeit.
Completed(against) ==
    [status  |-> "Finished",
     outcome |-> IF against.status = "Finished" THEN Loss ELSE Win]

AgainstCompletion_Untouched(against) == against

\* What the completion makes of the opponent's entry.
AgainstCompletion(against) ==
    [against EXCEPT !.outcome = IF against.status = "Finished" THEN Win ELSE Loss]

\* A row of a match that is started: entries that are already ended, by a
\* forfeit during the preparation, stay as they are.
StartedEntry(e) ==
    IF e.status = "Waiting" THEN [e EXCEPT !.status = "InProgress"] ELSE e

(***************************************************************************)
(* The reference the two entries of a match are judged by: who has done    *)
(* what decides the outcome of both, provisionally until both have ended.  *)
(***************************************************************************)
Verdict(e, f) ==
    CASE Unfinished(e) /\ Unfinished(f)                    -> {<<Draw, Draw>>}
      [] e.status = "Forfeit" /\ f.status = "Forfeit"      -> {<<Draw, Draw>>}
      [] e.status = "Finished" /\ f.status = "Finished"    -> {<<Win, Loss>>, <<Loss, Win>>}
      [] e.status = "Finished" /\ f.status # "Finished"    -> {<<Win, Loss>>}
      [] e.status # "Finished" /\ f.status = "Finished"    -> {<<Loss, Win>>}
      [] e.status = "Forfeit" /\ Unfinished(f)             -> {<<Loss, Win>>}
      [] Unfinished(e) /\ f.status = "Forfeit"             -> {<<Win, Loss>>}

OutcomesAgree(e, f) == <<e.outcome, f.outcome>> \in Verdict(e, f)
===============================================================================
